----------------------- MODULE FramebufferBlitProofs ------------------------
(***************************************************************************)
(* Proofs about framebuffer_blit, for every framebuffer, every place and   *)
(* every size of the object.                                               *)
(***************************************************************************)
EXTENDS FramebufferBlit, TLAPS

-----------------------------------------------------------------------------
(* Arithmetic.  The places and rows are taken apart into eighths once;     *)
(* the steps of the loop need linear facts only.                           *)

LEMMA Eighths ==
    ASSUME NEW a \in Int
    PROVE  /\ a \div 8 \in Int /\ a % 8 \in 0..7
           /\ a = 8 * (a \div 8) + (a % 8)
<1>1. a \div 8 \in Int
  OBVIOUS
<1>2. a % 8 \in 0..7
  OBVIOUS
<1>3. a % 8 = a - 8 * (a \div 8)
  OBVIOUS
<1> DEFINE q == a \div 8
           r == a % 8
<1>4. a = 8 * q + r
  <2> HIDE DEF q, r
  <2>1. q \in Int /\ r \in 0..7 /\ r = a - 8 * q
    BY <1>1, <1>2, <1>3 DEF q, r
  <2> QED
    BY <2>1
<1> QED
  BY <1>1, <1>2, <1>4

Arguments ==
    /\ x \in -128..127 /\ y \in -128..127
    /\ width \in 0..255 /\ height \in 0..255

Inside == x \in 0..(Width - 1) /\ y \in 0..(8 * Rows - 1)

LEMMA Limits ==
    /\ Width \in 1..255 /\ Rows \in 1..31
    /\ MAX_X = Width - 1 /\ MAX_Y = 8 * Rows - 1 /\ MAX_Y_SEG = Rows - 1
BY SizeAssumption DEF MAX_X, MAX_Y, MAX_Y_SEG

LEMMA InsideCall ==
    ASSUME Arguments, ~Outside(x, y)
    PROVE  Inside
BY Limits DEF Arguments, Outside, AsUnsigned, Inside

LEMMA Columns ==
    ASSUME Arguments, Inside
    PROVE  /\ columns \in 0..width /\ columns \in Nat /\ x + columns <= Width
           /\ \A j \in 0..(width - 1) : x + j <= MAX_X => j < columns
BY Limits DEF Arguments, Inside, columns, VisibleColumns

(* The row of the framebuffer an object begins in, and the line in it.     *)
LEMMA FirstLine ==
    ASSUME Arguments, Inside
    PROVE  /\ y \div 8 \in 0..(Rows - 1) /\ y_shift \in 0..7
           /\ y = 8 * (y \div 8) + y_shift
BY Eighths, Limits DEF Arguments, Inside, y_shift

(* How many rows of the framebuffer and of the object there are, in an     *)
(* object that ends in the framebuffer and in one that is truncated.       *)
LEMMA RowsOfObject ==
    ASSUME Arguments, Inside
    PROVE  /\ fb_rows \in Nat /\ (y \div 8) + fb_rows <= Rows
           /\ obj_last_row \in Nat /\ DataRows \in Nat
           /\ fb_rows - 1 <= DataRows
           /\ y + height <= MAX_Y =>
                 /\ y + height <= 8 * ((y \div 8) + fb_rows)
                 /\ height < 8 * (obj_last_row + 1)
           /\ y + height > MAX_Y =>
                 /\ (y \div 8) + fb_rows = Rows
                 /\ 8 * Rows < y + 8 * (obj_last_row + 1)
           /\ Overrun => fb_rows - 1 = DataRows /\ obj_last_row = DataRows
           /\ fb_rows - 1 = DataRows /\ obj_last_row # DataRows - 1 =>
                 height % 8 = 0 /\ y % 8 # 0 /\ y + height <= MAX_Y
<1> DEFINE q == y \div 8
           s == y % 8
           e == (y + height - 1) \div 8
           f == (y + height - 1) % 8
           t == (8 * Rows - y) \div 8
           u == (8 * Rows - y) % 8
           h == height \div 8
           r == height % 8
           d == (height + 7) \div 8
           c == (height + 7) % 8
<1>1. /\ y \in Nat /\ height \in Nat /\ y < 8 * Rows /\ Rows \in Nat
      /\ q \in Nat /\ q < Rows /\ y = 8 * q + s /\ s \in 0..7
  <2>1. y \in Nat /\ height \in Nat /\ y < 8 * Rows /\ Rows \in Nat
    BY Limits DEF Arguments, Inside
  <2> QED
    BY <2>1, FirstLine DEF y_shift
<1>2. e \in Int /\ f \in 0..7 /\ y + height - 1 = 8 * e + f
  BY <1>1, Eighths
<1>3. t \in Int /\ u \in 0..7 /\ 8 * Rows - y = 8 * t + u
  BY <1>1, Eighths
<1>4. h \in Int /\ r \in 0..7 /\ height = 8 * h + r
  BY <1>1, Eighths
<1>5. d \in Int /\ c \in 0..7 /\ height + 7 = 8 * d + c
  BY <1>1, Eighths
<1>6. /\ DataRows = d
      /\ obj_last_row = IF y + height > MAX_Y THEN t ELSE h
      /\ fb_rows = IF y + height > MAX_Y THEN MAX_Y_SEG - q + 1 ELSE e - q + 1
      /\ MAX_Y = 8 * Rows - 1 /\ MAX_Y_SEG = Rows - 1
  BY Limits DEF DataRows, obj_last_row, fb_rows, VisibleRows
<1>7. Overrun => r = 0 /\ s # 0 /\ y + height <= MAX_Y
  BY DEF Overrun
<1> HIDE DEF q, s, e, f, t, u, h, r, d, c
<1>8. CASE y + height > MAX_Y
  <2>1. obj_last_row = t /\ fb_rows = Rows - q /\ t \in Nat /\ d \in Nat
    BY <1>1, <1>3, <1>4, <1>5, <1>6, <1>8
  <2>2. Rows - q - 1 < d
    BY <1>1, <1>5, <1>6, <1>8
  <2> QED
    BY <1>1, <1>3, <1>6, <1>7, <1>8, <2>1, <2>2 DEF q
<1>9. CASE y + height <= MAX_Y
  <2>1. obj_last_row = h /\ fb_rows = e - q + 1 /\ h \in Nat /\ d \in Nat
    BY <1>1, <1>4, <1>5, <1>6, <1>9
  <2>2. e - q + 1 \in Nat /\ e < Rows /\ e - q <= d
    BY <1>1, <1>2, <1>5, <1>6, <1>9
  <2>3. /\ r = 0 => d = h
        /\ r # 0 => d = h + 1
        /\ r = 0 /\ s # 0 => e - q = d
        /\ r = 0 /\ s = 0 => e - q = d - 1
    BY <1>1, <1>2, <1>4, <1>5
  <2> QED
    BY <1>1, <1>2, <1>4, <1>6, <1>7, <1>9, <2>1, <2>2, <2>3 DEF q
<1>10. MAX_Y \in Int /\ y + height \in Int
  BY <1>1, <1>6
<1> QED
  BY <1>8, <1>9, <1>10

-----------------------------------------------------------------------------
(* The loop *)

(* A pixel that was drawn is at its place, and in one of the rows the loop *)
(* has been through.                                                       *)
Placed(p) ==
    /\ p[3] \in 0..(columns - 1) /\ p[4] \in Nat
    /\ p[1] = x + p[3] /\ p[2] = y + p[4]
    /\ 8 * (y \div 8) <= p[2] /\ p[2] < 8 * row

(* The pixels of the object in those rows.                                 *)
Wanted(j, k) == k < height /\ y + k <= MAX_Y /\ y + k < 8 * row

LoopInv ==
    /\ Inside
    /\ obj_current_row \in Int /\ -1 <= obj_current_row /\ obj_current_row < fb_rows
    /\ row = (y \div 8) + obj_current_row + 1
    /\ phase = "done" => obj_current_row = fb_rows - 1
    /\ \A p \in drawn : Placed(p)
    /\ \A j \in 0..(columns - 1), k \in Nat : Wanted(j, k) => <<x + j, y + k, j, k>> \in drawn
    /\ \A i \in read : i \in Nat /\ i <= obj_current_row
    /\ DataRows \in read => Overrun
    /\ Overrun /\ obj_current_row = DataRows => DataRows \in read

BlitInv ==
    /\ x \in Xs /\ y \in Ys /\ width \in Widths /\ height \in Heights
    /\ phase \in {"call", "rows", "done"}
    /\ phase = "call" \/ (phase = "done" /\ Outside(x, y)) =>
          row = 0 /\ obj_current_row = -1 /\ drawn = {} /\ read = {}
    /\ phase = "rows" => ~Outside(x, y)
    /\ phase # "call" /\ ~Outside(x, y) => LoopInv

LEMMA ArgumentsTyped == BlitInv => Arguments
BY ArgumentAssumption DEF BlitInv, Arguments

LEMMA ShiftedElements ==
    ASSUME NEW objRow, NEW shift
    PROVE  /\ \A p \in Shifted(objRow, shift) :
                 \E j \in 0..(columns - 1), bit \in 0..7 :
                     /\ bit + shift \in 0..7
                     /\ p = <<x + j, 8 * row + bit + shift, j, 8 * objRow + bit>>
           /\ \A j \in 0..(columns - 1), bit \in 0..7 :
                 bit + shift \in 0..7 =>
                     <<x + j, 8 * row + bit + shift, j, 8 * objRow + bit>> \in Shifted(objRow, shift)
BY DEF Shifted

(* Where the two halves of a row of the framebuffer come from: a pixel of  *)
(* the upper row of the object lands in the first y % 8 lines, one of the  *)
(* lower row in the others.                                                *)
LEMMA Lands ==
    ASSUME Arguments, LoopInv,
           NEW objRow \in {obj_current_row, obj_current_row + 1}, objRow >= 0,
           NEW shift, shift = IF objRow = obj_current_row THEN y_shift - 8 ELSE y_shift
    PROVE  /\ \A p \in Shifted(objRow, shift) :
                 /\ p[3] \in 0..(columns - 1) /\ p[4] \in Nat
                 /\ p[1] = x + p[3] /\ p[2] = y + p[4]
                 /\ 8 * row <= p[2] /\ p[2] < 8 * (row + 1)
           /\ \A j \in 0..(columns - 1), k \in Nat :
                 /\ 8 * row <= y + k /\ y + k < 8 * (row + 1)
                 /\ 8 * objRow <= k /\ k < 8 * (objRow + 1)
                 => <<x + j, y + k, j, k>> \in Shifted(objRow, shift)
<1>1. /\ y \div 8 \in Nat /\ y_shift \in 0..7 /\ y = 8 * (y \div 8) + y_shift
      /\ obj_current_row \in Int /\ row = (y \div 8) + obj_current_row + 1 /\ row \in Int
      /\ objRow \in Nat /\ y \in Int /\ shift \in Int
  BY FirstLine, Limits DEF LoopInv, Arguments
<1>2. 8 * row + shift = y + 8 * objRow
  BY <1>1
<1>3. ASSUME NEW p \in Shifted(objRow, shift)
      PROVE  /\ p[3] \in 0..(columns - 1) /\ p[4] \in Nat
             /\ p[1] = x + p[3] /\ p[2] = y + p[4]
             /\ 8 * row <= p[2] /\ p[2] < 8 * (row + 1)
  <2>1. PICK j \in 0..(columns - 1), bit \in 0..7 :
            /\ bit + shift \in 0..7
            /\ p = <<x + j, 8 * row + bit + shift, j, 8 * objRow + bit>>
    BY <1>3, ShiftedElements
  <2>2. p[1] = x + j /\ p[2] = 8 * row + bit + shift /\ p[3] = j /\ p[4] = 8 * objRow + bit
    BY <2>1
  <2>3. 8 * objRow + bit \in Nat /\ 8 * row + bit + shift = y + (8 * objRow + bit)
    BY <1>1, <1>2
  <2>4. 8 * row <= 8 * row + bit + shift /\ 8 * row + bit + shift < 8 * (row + 1)
    BY <1>1, <2>1
  <2> QED
    BY <2>2, <2>3, <2>4
<1>4. ASSUME NEW j \in 0..(columns - 1), NEW k \in Nat,
             8 * row <= y + k, y + k < 8 * (row + 1), 8 * objRow <= k, k < 8 * (objRow + 1)
      PROVE  <<x + j, y + k, j, k>> \in Shifted(objRow, shift)
  <2> DEFINE bit == k - 8 * objRow
  <2>1. bit \in 0..7 /\ bit + shift \in 0..7
    BY <1>1, <1>2, <1>4
  <2>2. k = 8 * objRow + bit /\ y + k = 8 * row + bit + shift
    BY <1>1, <1>2
  <2> HIDE DEF bit
  <2>3. <<x + j, 8 * row + bit + shift, j, 8 * objRow + bit>> \in Shifted(objRow, shift)
    BY <1>4, <2>1, ShiftedElements
  <2> QED
    BY <2>2, <2>3
<1> QED
  BY <1>3, <1>4

(* A turn of the loop keeps the invariant if it draws the pixels of its    *)
(* row, and no others, and reads rows of the object that the next turn is  *)
(* not below.                                                              *)
LEMMA Turn ==
    ASSUME Arguments, LoopInv, NextRow, NEW S, NEW R, drawn' = drawn \cup S, read' = read \cup R,
           \A p \in S : /\ p[3] \in 0..(columns - 1) /\ p[4] \in Nat
                        /\ p[1] = x + p[3] /\ p[2] = y + p[4]
                        /\ 8 * row <= p[2] /\ p[2] < 8 * (row + 1),
           \A j \in 0..(columns - 1), k \in Nat :
               k < height /\ y + k <= MAX_Y /\ 8 * row <= y + k /\ y + k < 8 * (row + 1)
               => <<x + j, y + k, j, k>> \in S,
           \A i \in R : i \in Nat /\ i <= obj_current_row + 1,
           DataRows \in R => Overrun,
           Overrun /\ obj_current_row + 1 = DataRows => DataRows \in R
    PROVE  LoopInv'
<1>1. /\ row' = row + 1 /\ obj_current_row' = obj_current_row + 1
      /\ UNCHANGED <<x, y, width, height, phase>>
      /\ phase = "rows" /\ row < (y \div 8) + fb_rows
  BY DEF NextRow, arguments
<1>2. /\ columns' = columns /\ fb_rows' = fb_rows /\ (Inside' <=> Inside)
      /\ (Overrun' <=> Overrun) /\ DataRows' = DataRows
  BY <1>1 DEF columns, fb_rows, Inside, Overrun, DataRows
<1>3. /\ y \div 8 \in Nat /\ obj_current_row \in Int /\ row \in Int /\ y \in Int
      /\ row = (y \div 8) + obj_current_row + 1 /\ -1 <= obj_current_row
      /\ fb_rows \in Nat /\ columns \in Nat /\ 8 * (y \div 8) <= 8 * row
  BY FirstLine, Columns, RowsOfObject DEF LoopInv
<1>4. /\ obj_current_row' \in Int /\ -1 <= obj_current_row' /\ obj_current_row' < fb_rows'
      /\ row' = (y' \div 8) + obj_current_row' + 1
      /\ phase' = "done" => obj_current_row' = fb_rows' - 1
  BY <1>1, <1>2, <1>3
<1>5. ASSUME NEW p \in drawn' PROVE Placed(p)'
  <2>1. CASE p \in drawn
    <3>1. Placed(p)
      BY <2>1 DEF LoopInv
    <3>2. p[2] \in Int
      BY <1>3, <3>1 DEF Placed
    <3> QED
      BY <1>1, <1>2, <1>3, <3>1, <3>2 DEF Placed
  <2>2. CASE p \in S
    <3>1. /\ p[3] \in 0..(columns - 1) /\ p[4] \in Nat
          /\ p[1] = x + p[3] /\ p[2] = y + p[4]
          /\ 8 * row <= p[2] /\ p[2] < 8 * (row + 1)
      BY <2>2
    <3>2. p[2] \in Int
      BY <1>3, <3>1
    <3>3. 8 * (y \div 8) <= p[2]
      BY <1>3, <3>1, <3>2
    <3> QED
      BY <1>1, <1>2, <3>1, <3>3 DEF Placed
  <2> QED
    BY <2>1, <2>2
<1>6. ASSUME NEW j \in 0..(columns - 1), NEW k \in Nat, Wanted(j, k)'
      PROVE  <<x + j, y + k, j, k>> \in drawn'
  <2>1. k < height /\ y + k <= MAX_Y /\ y + k < 8 * (row + 1)
    BY <1>1, <1>6 DEF Wanted
  <2>2. CASE y + k < 8 * row
    <3>1. Wanted(j, k)
      BY <2>1, <2>2 DEF Wanted
    <3>2. <<x + j, y + k, j, k>> \in drawn
      BY <3>1 DEF LoopInv
    <3> QED
      BY <3>2
  <2>3. CASE 8 * row <= y + k
    <3>1. <<x + j, y + k, j, k>> \in S
      BY <2>1, <2>3
    <3> QED
      BY <3>1
  <2> QED
    BY <1>3, <2>2, <2>3
<1>7. \A i \in read' : i \in Nat /\ i <= obj_current_row'
  <2>1. \A i \in read : i \in Nat /\ i <= obj_current_row + 1
    BY <1>3 DEF LoopInv
  <2> QED
    BY <1>1, <2>1
<1>8. DataRows' \in read' => Overrun'
  BY <1>2 DEF LoopInv
<1>9. Overrun' /\ obj_current_row' = DataRows' => DataRows' \in read'
  BY <1>1, <1>2
<1>10. \A j \in 0..(columns' - 1), k \in Nat :
          Wanted(j, k)' => <<x' + j, y' + k, j, k>> \in drawn'
  BY <1>1, <1>2, <1>6
<1>11. Inside'
  BY <1>2 DEF LoopInv
<1> QED
  BY <1>4, <1>5, <1>7, <1>8, <1>9, <1>10, <1>11 DEF LoopInv

LEMMA ReadsWhat ==
    ASSUME NEW rows, NEW i \in Reads(rows)
    PROVE  i \in rows /\ columns > 0
BY DEF Reads

(* The loop never gets to a row of the object that is behind its data.     *)
LEMMA RowInside ==
    ASSUME Arguments, LoopInv, NextRow
    PROVE  /\ obj_current_row \in Int /\ -1 <= obj_current_row /\ obj_current_row < DataRows
           /\ obj_current_row + 1 = DataRows /\ obj_last_row # obj_current_row /\ columns > 0
                 => Overrun
           /\ Overrun => obj_last_row # obj_current_row /\ columns > 0
<1>1. obj_current_row \in Int /\ -1 <= obj_current_row /\ Inside
      /\ row = (y \div 8) + obj_current_row + 1
  BY DEF LoopInv
<1>2. row < (y \div 8) + fb_rows /\ y \div 8 \in Nat
  BY <1>1, FirstLine DEF NextRow
<1>3. /\ fb_rows \in Nat /\ DataRows \in Nat /\ obj_last_row \in Nat /\ fb_rows - 1 <= DataRows
      /\ Overrun => obj_last_row = DataRows
      /\ fb_rows - 1 = DataRows /\ obj_last_row # DataRows - 1 =>
                 height % 8 = 0 /\ y % 8 # 0 /\ y + height <= MAX_Y
  BY <1>1, RowsOfObject
<1>4. obj_current_row < fb_rows - 1
  BY <1>1, <1>2, <1>3
<1>5. obj_current_row < DataRows
  BY <1>1, <1>3, <1>4
<1>6. ASSUME obj_current_row + 1 = DataRows, obj_last_row # obj_current_row, columns > 0
      PROVE  Overrun
  <2>1. fb_rows - 1 = DataRows
    BY <1>1, <1>3, <1>4, <1>6
  <2>2. obj_last_row # DataRows - 1
    BY <1>1, <1>3, <1>6
  <2> QED
    BY <1>3, <1>6, <2>1, <2>2 DEF Overrun
<1>7. Overrun => obj_last_row # obj_current_row /\ columns > 0
  <2>1. Overrun => columns > 0
    BY DEF Overrun
  <2> QED
    BY <1>1, <1>3, <1>5, <2>1
<1> QED
  BY <1>1, <1>5, <1>6, <1>7

(* The lines of a row of the framebuffer belong to the current row of the  *)
(* object or to the next one.                                              *)
LEMMA LinesOfRow ==
    ASSUME Arguments, LoopInv, NEW k \in Nat, 8 * row <= y + k, y + k < 8 * (row + 1)
    PROVE  8 * obj_current_row <= k /\ k < 8 * (obj_current_row + 2)
<1>1. /\ y \div 8 \in Nat /\ y_shift \in 0..7 /\ y = 8 * (y \div 8) + y_shift
      /\ obj_current_row \in Int /\ row = (y \div 8) + obj_current_row + 1 /\ y \in Int
  BY FirstLine, Limits DEF LoopInv, Arguments
<1> QED
  BY <1>1

LEMMA FirstRowStep ==
    ASSUME Arguments, LoopInv, FirstRow
    PROVE  LoopInv'
<1> DEFINE S == FromBottom
           R == Reads({0})
<1>0. obj_current_row = -1 /\ NextRow /\ drawn' = drawn \cup S /\ read' = read \cup R
  BY DEF FirstRow, LoopInv
<1>1. S = Shifted(0, y_shift)
  BY <1>0 DEF FromBottom
<1>2. /\ 0 \in {obj_current_row, obj_current_row + 1} /\ 0 >= 0
      /\ y_shift = IF 0 = obj_current_row THEN y_shift - 8 ELSE y_shift
  BY <1>0
<1> HIDE DEF S, R
<1>3. \A p \in S : /\ p[3] \in 0..(columns - 1) /\ p[4] \in Nat
                   /\ p[1] = x + p[3] /\ p[2] = y + p[4]
                   /\ 8 * row <= p[2] /\ p[2] < 8 * (row + 1)
  BY <1>1, <1>2, Lands
<1>4. ASSUME NEW j \in 0..(columns - 1), NEW k \in Nat,
             8 * row <= y + k, y + k < 8 * (row + 1)
      PROVE  <<x + j, y + k, j, k>> \in S
  <2>1. 8 * 0 <= k /\ k < 8 * (0 + 1)
    BY <1>0, <1>4, LinesOfRow
  <2> QED
    BY <1>1, <1>2, <1>4, <2>1, Lands
<1>5. \A i \in R : i = 0 /\ columns > 0
  BY ReadsWhat DEF R
<1>6. columns > 0 => 0 \in R
  BY DEF R, Reads
<1>7. \A i \in R : i \in Nat /\ i <= obj_current_row + 1
  BY <1>0, <1>5
<1>8. /\ obj_current_row + 1 = DataRows /\ columns > 0 => Overrun
      /\ Overrun => columns > 0
  <2>1. obj_last_row # obj_current_row
    BY <1>0, RowsOfObject DEF LoopInv
  <2> QED
    BY <1>0, <2>1, RowInside
<1>9. DataRows \in R => Overrun
  BY <1>0, <1>5, <1>8
<1>10. Overrun /\ obj_current_row + 1 = DataRows => DataRows \in R
  BY <1>0, <1>6, <1>8
<1> QED
  BY <1>0, <1>3, <1>4, <1>7, <1>9, <1>10, Turn

LEMMA LastRowStep ==
    ASSUME Arguments, LoopInv, LastRow
    PROVE  LoopInv'
<1> DEFINE S == FromTop
           R == Reads({obj_current_row})
<1>0. /\ obj_current_row = obj_last_row /\ obj_current_row \in Nat
      /\ NextRow /\ drawn' = drawn \cup S /\ read' = read \cup R
  BY RowsOfObject DEF LastRow, LoopInv
<1>1. S = Shifted(obj_current_row, y_shift - 8)
  BY DEF FromTop
<1>2. /\ obj_current_row \in {obj_current_row, obj_current_row + 1} /\ obj_current_row >= 0
      /\ y_shift - 8 = IF obj_current_row = obj_current_row THEN y_shift - 8 ELSE y_shift
  BY <1>0
<1> HIDE DEF S, R
<1>3. \A p \in S : /\ p[3] \in 0..(columns - 1) /\ p[4] \in Nat
                   /\ p[1] = x + p[3] /\ p[2] = y + p[4]
                   /\ 8 * row <= p[2] /\ p[2] < 8 * (row + 1)
  BY <1>1, <1>2, Lands
<1>4. ASSUME NEW j \in 0..(columns - 1), NEW k \in Nat, k < height, y + k <= MAX_Y,
             8 * row <= y + k, y + k < 8 * (row + 1)
      PROVE  <<x + j, y + k, j, k>> \in S
  <2>1. 8 * obj_current_row <= k
    BY <1>4, LinesOfRow
  <2>2. k < 8 * (obj_current_row + 1)
    <3>1. /\ y + height <= MAX_Y => height < 8 * (obj_last_row + 1)
          /\ y + height > MAX_Y => 8 * Rows < y + 8 * (obj_last_row + 1)
      BY RowsOfObject DEF LoopInv
    <3>2. y \in Int /\ height \in Nat /\ MAX_Y = 8 * Rows - 1 /\ Rows \in Nat
      BY Limits DEF Arguments
    <3> QED
      BY <1>0, <1>4, <3>1, <3>2
  <2> QED
    BY <1>1, <1>2, <1>4, <2>1, <2>2, Lands
<1>5. \A i \in R : i = obj_current_row
  BY ReadsWhat DEF R
<1>6. \A i \in R : i \in Nat /\ i <= obj_current_row + 1
  BY <1>0, <1>5
<1>7. DataRows \notin R
  BY <1>0, <1>5, RowInside
<1>8. ~Overrun
  BY <1>0, RowInside
<1> QED
  BY <1>0, <1>3, <1>4, <1>6, <1>7, <1>8, Turn

LEMMA InnerRowStep ==
    ASSUME Arguments, LoopInv, InnerRow
    PROVE  LoopInv'
<1> DEFINE S == FromTop \cup FromBottom
           R == Reads({obj_current_row, obj_current_row + 1})
<1>0. /\ obj_current_row # obj_last_row /\ obj_current_row \in Nat
      /\ NextRow /\ drawn' = drawn \cup S /\ read' = read \cup R
  BY DEF InnerRow, LoopInv
<1>1. /\ FromTop = Shifted(obj_current_row, y_shift - 8)
      /\ FromBottom = Shifted(obj_current_row + 1, y_shift)
      /\ \A p : p \in S <=> p \in FromTop \/ p \in FromBottom
  BY DEF FromTop, FromBottom
<1>2. /\ obj_current_row \in {obj_current_row, obj_current_row + 1} /\ obj_current_row >= 0
      /\ y_shift - 8 = IF obj_current_row = obj_current_row THEN y_shift - 8 ELSE y_shift
      /\ obj_current_row + 1 \in {obj_current_row, obj_current_row + 1} /\ obj_current_row + 1 >= 0
      /\ y_shift = IF obj_current_row + 1 = obj_current_row THEN y_shift - 8 ELSE y_shift
  BY <1>0
<1> HIDE DEF S, R
<1>3. \A p \in FromTop : /\ p[3] \in 0..(columns - 1) /\ p[4] \in Nat
                         /\ p[1] = x + p[3] /\ p[2] = y + p[4]
                         /\ 8 * row <= p[2] /\ p[2] < 8 * (row + 1)
  BY <1>1, <1>2, Lands
<1>4. \A p \in FromBottom : /\ p[3] \in 0..(columns - 1) /\ p[4] \in Nat
                            /\ p[1] = x + p[3] /\ p[2] = y + p[4]
                            /\ 8 * row <= p[2] /\ p[2] < 8 * (row + 1)
  BY <1>1, <1>2, Lands
<1>5. \A p \in S : /\ p[3] \in 0..(columns - 1) /\ p[4] \in Nat
                   /\ p[1] = x + p[3] /\ p[2] = y + p[4]
                   /\ 8 * row <= p[2] /\ p[2] < 8 * (row + 1)
  BY <1>1, <1>3, <1>4
<1>6. ASSUME NEW j \in 0..(columns - 1), NEW k \in Nat,
             8 * row <= y + k, y + k < 8 * (row + 1)
      PROVE  <<x + j, y + k, j, k>> \in S
  <2>1. 8 * obj_current_row <= k /\ k < 8 * (obj_current_row + 2)
    BY <1>6, LinesOfRow
  <2>2. CASE k < 8 * (obj_current_row + 1)
    <3>1. <<x + j, y + k, j, k>> \in FromTop
      BY <1>1, <1>2, <1>6, <2>1, <2>2, Lands
    <3> QED
      BY <1>1, <3>1
  <2>3. CASE 8 * (obj_current_row + 1) <= k
    <3>1. k < 8 * ((obj_current_row + 1) + 1)
      BY <1>0, <2>1
    <3>2. <<x + j, y + k, j, k>> \in FromBottom
      BY <1>1, <1>2, <1>6, <2>3, <3>1, Lands
    <3> QED
      BY <1>1, <3>2
  <2> QED
    BY <1>0, <2>2, <2>3
<1>7. \A i \in R : i \in {obj_current_row, obj_current_row + 1} /\ columns > 0
  BY ReadsWhat DEF R
<1>8. columns > 0 => obj_current_row + 1 \in R
  BY DEF R, Reads
<1>9. \A i \in R : i \in Nat /\ i <= obj_current_row + 1
  BY <1>0, <1>7
<1>10. DataRows \in R => Overrun
  BY <1>0, <1>7, RowInside
<1>11. Overrun /\ obj_current_row + 1 = DataRows => DataRows \in R
  BY <1>0, <1>8, RowInside
<1> QED
  BY <1>0, <1>5, <1>6, <1>9, <1>10, <1>11, Turn

-----------------------------------------------------------------------------
(* The specification *)

LEMMA BeginStep ==
    ASSUME BlitInv, Begin
    PROVE  LoopInv'
<1>0. /\ Arguments /\ ~Outside(x, y) /\ phase' = "rows" /\ row' = y \div 8
      /\ obj_current_row' = -1 /\ drawn' = {} /\ read' = {}
      /\ UNCHANGED <<x, y, width, height>>
  BY ArgumentsTyped DEF Begin, BlitInv, arguments
<1>1. Inside /\ (Inside' <=> Inside)
  BY <1>0, InsideCall DEF Inside
<1>2. fb_rows \in Nat /\ fb_rows' = fb_rows /\ DataRows' = DataRows /\ DataRows \in Nat
  BY <1>0, <1>1, RowsOfObject DEF fb_rows, DataRows
<1>3. y \div 8 \in Nat /\ 8 * (y \div 8) <= y /\ y \in Int
  BY <1>0, <1>1, FirstLine
<1>4. ASSUME NEW j, NEW k \in Nat, Wanted(j, k)' PROVE FALSE
  BY <1>0, <1>3, <1>4 DEF Wanted
<1>5. row' = (y' \div 8) + obj_current_row' + 1
  BY <1>0, <1>3
<1>6. obj_current_row' \in Int /\ -1 <= obj_current_row' /\ obj_current_row' < fb_rows'
  BY <1>0, <1>2
<1>7. obj_current_row' # DataRows'
  BY <1>0, <1>2
<1> QED
  BY <1>0, <1>1, <1>4, <1>5, <1>6, <1>7 DEF LoopInv

LEMMA InitInv == Init => BlitInv
BY DEF Init, BlitInv

LEMMA StepInv ==
    ASSUME BlitInv, [Next]_vars
    PROVE  BlitInv'
<1>0. /\ Arguments /\ x \in Xs /\ y \in Ys /\ width \in Widths /\ height \in Heights
      /\ phase \in {"call", "rows", "done"} /\ (phase = "rows" => ~Outside(x, y))
      /\ (phase # "call" /\ ~Outside(x, y) => LoopInv)
  BY ArgumentsTyped DEF BlitInv
<1>1. CASE OutsideCall
  <2>1. Outside(x, y)' <=> Outside(x, y)
    BY <1>1 DEF OutsideCall, arguments, Outside, AsUnsigned
  <2> QED
    BY <1>0, <1>1, <2>1 DEF OutsideCall, arguments, BlitInv
<1>2. CASE Begin
  <2>1. Outside(x, y)' <=> Outside(x, y)
    BY <1>2 DEF Begin, arguments, Outside, AsUnsigned
  <2>2. LoopInv'
    BY <1>2, BeginStep
  <2> QED
    BY <1>0, <1>2, <2>1, <2>2 DEF Begin, arguments, BlitInv
<1>3. CASE FirstRow \/ LastRow \/ InnerRow
  <2>1. NextRow
    BY <1>3 DEF FirstRow, LastRow, InnerRow
  <2>2. phase = "rows" /\ phase' = "rows" /\ UNCHANGED <<x, y, width, height>>
    BY <2>1 DEF NextRow, arguments
  <2>3. Outside(x, y)' <=> Outside(x, y)
    BY <2>2 DEF Outside, AsUnsigned
  <2>4. LoopInv'
    BY <1>0, <1>3, <2>2, FirstRowStep, LastRowStep, InnerRowStep
  <2> QED
    BY <1>0, <2>2, <2>3, <2>4 DEF BlitInv
<1>4. CASE Return
  <2>1. /\ phase = "rows" /\ phase' = "done" /\ row >= (y \div 8) + fb_rows
        /\ UNCHANGED <<x, y, width, height, row, obj_current_row, drawn, read>>
    BY <1>4 DEF Return, arguments
  <2>2. LoopInv /\ (Outside(x, y)' <=> Outside(x, y))
    BY <1>0, <2>1 DEF Outside, AsUnsigned
  <2>3. fb_rows' = fb_rows /\ columns' = columns /\ DataRows' = DataRows
    BY <2>1 DEF fb_rows, columns, DataRows
  <2>4. obj_current_row = fb_rows - 1
    <3>1. y \div 8 \in Nat /\ fb_rows \in Nat
      BY <1>0, <2>2, FirstLine, RowsOfObject DEF LoopInv
    <3> QED
      BY <2>1, <2>2, <3>1 DEF LoopInv
  <2>5. \A p : Placed(p)' <=> Placed(p)
    BY <2>1, <2>3 DEF Placed
  <2>6. \A j, k : Wanted(j, k)' <=> Wanted(j, k)
    BY <2>1 DEF Wanted
  <2>7. LoopInv'
    BY <2>1, <2>2, <2>3, <2>4, <2>5, <2>6 DEF LoopInv, Inside, Overrun
  <2> QED
    BY <1>0, <2>1, <2>2, <2>7 DEF BlitInv
<1>5. CASE UNCHANGED vars
  BY <1>5 DEF vars, arguments, BlitInv, LoopInv, Inside, fb_rows, columns, DataRows, Overrun,
              Placed, Wanted, Outside, AsUnsigned
<1> QED
  BY <1>1, <1>2, <1>3, <1>4, <1>5 DEF Next

LEMMA Inductive == Spec => []BlitInv
<1>1. BlitInv /\ [Next]_vars => BlitInv'
  BY StepInv
<1> QED
  BY InitInv, <1>1, PTL DEF Spec

(* The arguments and the counters of the loop keep their ranges.           *)
THEOREM Typed == Spec => []TypeOK
<1>1. ASSUME BlitInv PROVE TypeOK
  <2>0. Arguments /\ Rows \in Nat /\ Rows > 0
    BY <1>1, ArgumentsTyped, Limits
  <2>1. CASE phase = "call" \/ Outside(x, y)
    <3>1. row = 0 /\ obj_current_row = -1 /\ read = {}
      BY <1>1, <2>1 DEF BlitInv
    <3> QED
      BY <1>1, <2>0, <3>1 DEF BlitInv, TypeOK
  <2>2. CASE phase # "call" /\ ~Outside(x, y)
    <3>1. LoopInv
      BY <1>1, <2>2 DEF BlitInv
    <3>2. fb_rows \in Nat /\ (y \div 8) + fb_rows <= Rows /\ y \div 8 \in Nat
      BY <2>0, <3>1, FirstLine, RowsOfObject DEF LoopInv
    <3>3. row \in 0..Rows /\ obj_current_row \in -1..(Rows - 1)
      BY <2>0, <3>1, <3>2 DEF LoopInv
    <3>4. \A i \in read : i \in 0..Rows
      BY <2>0, <3>1, <3>3 DEF LoopInv
    <3> QED
      BY <1>1, <3>3, <3>4 DEF BlitInv, TypeOK
  <2> QED
    BY <2>1, <2>2
<1> QED
  BY <1>1, Inductive, PTL

(* framebuffer_blit draws the visible pixels of an object that begins in   *)
(* the framebuffer, each at its place, and none beside the framebuffer.    *)
THEOREM VisibleDrawn == Spec => []DrawsVisible
<1>1. ASSUME BlitInv PROVE DrawsVisible
  <2>0. Arguments
    BY <1>1, ArgumentsTyped
  <2>1. CASE phase = "call" \/ Outside(x, y)
    <3>1. drawn = {}
      BY <1>1, <2>1 DEF BlitInv
    <3> QED
      BY <2>1, <3>1 DEF DrawsVisible
  <2>2. CASE phase # "call" /\ ~Outside(x, y)
    <3>1. LoopInv /\ Inside
      BY <1>1, <2>2 DEF BlitInv, LoopInv
    <3>2. /\ y \div 8 \in Nat /\ fb_rows \in Nat /\ (y \div 8) + fb_rows <= Rows
          /\ obj_current_row \in Int /\ obj_current_row < fb_rows
          /\ row = (y \div 8) + obj_current_row + 1
          /\ (phase = "done" => row = (y \div 8) + fb_rows)
      BY <2>0, <3>1, FirstLine, RowsOfObject DEF LoopInv
    <3>3. ASSUME NEW p \in drawn
          PROVE  /\ InFramebuffer(p[1], p[2])
                 /\ p[1] = x + p[3] /\ p[2] = y + p[4] /\ p[3] \in 0..(width - 1)
      <4>1. Placed(p)
        BY <3>1, <3>3 DEF LoopInv
      <4>2. p[1] \in 0..MAX_X /\ p[3] \in 0..(width - 1)
        <5>1. columns \in 0..width /\ x + columns <= Width
          BY <2>0, <3>1, Columns
        <5>2. p[3] \in 0..(columns - 1) /\ p[1] = x + p[3]
          BY <4>1 DEF Placed
        <5>3. x \in Nat /\ width \in Nat /\ Width \in Nat /\ MAX_X = Width - 1
          BY <2>0, <3>1, Limits DEF Inside, Arguments
        <5> QED
          BY <5>1, <5>2, <5>3
      <4>3. p[2] \in 0..MAX_Y
        <5>1. p[2] \in Int
          BY <2>0, <4>1 DEF Placed, Arguments
        <5> QED
          BY <3>2, <4>1, <5>1, Limits DEF Placed
      <4> QED
        BY <4>1, <4>2, <4>3 DEF Placed, InFramebuffer
    <3>4. ASSUME phase = "done", NEW p \in Visible PROVE p \in drawn
      <4>1. PICK j \in 0..(width - 1), k \in 0..(height - 1) :
                p = <<x + j, y + k, j, k>> /\ x + j \in 0..MAX_X /\ y + k \in 0..MAX_Y
        BY <3>4 DEF Visible
      <4>2. j \in 0..(columns - 1) /\ k \in Nat
        BY <2>0, <3>1, <4>1, Columns
      <4>3. Wanted(j, k)
        <5>1. k < height /\ y + k <= MAX_Y
          BY <2>0, <4>1 DEF Arguments
        <5>2. y + k < 8 * row
          <6>1. /\ y + height <= MAX_Y => y + height <= 8 * ((y \div 8) + fb_rows)
                /\ y + height > MAX_Y => (y \div 8) + fb_rows = Rows
            BY <2>0, <3>1, RowsOfObject
          <6>2. y \in Int /\ height \in Nat /\ MAX_Y = 8 * Rows - 1 /\ Rows \in Nat /\ k \in Nat
            BY <2>0, <4>1, Limits DEF Arguments
          <6> QED
            BY <3>2, <3>4, <5>1, <6>1, <6>2
        <5> QED
          BY <5>1, <5>2 DEF Wanted
      <4> QED
        BY <3>1, <4>1, <4>2, <4>3 DEF LoopInv
    <3> QED
      BY <3>3, <3>4 DEF DrawsVisible
  <2> QED
    BY <2>1, <2>2
<1> QED
  BY <1>1, Inductive, PTL

(* framebuffer_blit reads a row behind the data of the object exactly for  *)
(* the objects Overrun describes, and never more than one.                 *)
THEOREM ReadOneTooMany == Spec => []ReadsInObject
<1>1. ASSUME BlitInv PROVE ReadsInObject
  <2>0. Arguments
    BY <1>1, ArgumentsTyped
  <2>1. CASE phase = "call" \/ Outside(x, y)
    <3>1. read = {}
      BY <1>1, <2>1 DEF BlitInv
    <3> QED
      BY <2>1, <3>1 DEF ReadsInObject
  <2>2. CASE phase # "call" /\ ~Outside(x, y)
    <3>1. LoopInv /\ Inside
      BY <1>1, <2>2 DEF BlitInv, LoopInv
    <3>2. /\ DataRows \in Nat /\ fb_rows \in Nat /\ fb_rows - 1 <= DataRows
          /\ (Overrun => fb_rows - 1 = DataRows)
      BY <2>0, <3>1, RowsOfObject
    <3>3. ASSUME NEW i \in read PROVE i \in 0..DataRows
      <4>1. i \in Nat /\ i <= obj_current_row /\ obj_current_row < fb_rows /\ obj_current_row \in Int
        BY <3>1 DEF LoopInv
      <4> QED
        BY <3>2, <4>1
    <3>4. ASSUME phase = "done" PROVE DataRows \in read <=> Overrun
      BY <3>1, <3>2, <3>4 DEF LoopInv
    <3> QED
      BY <3>3, <3>4 DEF ReadsInObject
  <2> QED
    BY <2>1, <2>2
<1> QED
  BY <1>1, Inductive, PTL

(* Every segment that is drawn to lies in the rectangle that is handed to  *)
(* updateDirtyArea.                                                        *)
THEOREM DrawnIsDirty == Spec => []DrawnInArea
<1>1. ASSUME BlitInv PROVE DrawnInArea
  <2>0. Arguments
    BY <1>1, ArgumentsTyped
  <2>1. CASE phase = "call" \/ Outside(x, y)
    <3>1. drawn = {}
      BY <1>1, <2>1 DEF BlitInv
    <3> QED
      BY <3>1 DEF DrawnInArea
  <2>2. CASE phase # "call" /\ ~Outside(x, y)
    <3>1. LoopInv /\ Inside
      BY <1>1, <2>2 DEF BlitInv, LoopInv
    <3>2. /\ y \div 8 \in Nat /\ fb_rows \in Nat /\ columns \in Nat
          /\ obj_current_row \in Int /\ obj_current_row < fb_rows
          /\ row = (y \div 8) + obj_current_row + 1
      BY <2>0, <3>1, FirstLine, RowsOfObject, Columns DEF LoopInv
    <3>3. /\ LastBlitColumn(x, width) = x + columns - 1
          /\ LastBlitRow(y, height) = (y \div 8) + fb_rows - 1
      BY DEF LastBlitColumn, LastBlitRow, columns, fb_rows
    <3>4. ASSUME NEW p \in drawn
          PROVE  SegmentOf(p[1], p[2]) \in BlitArea(x, y, width, height)
      <4>1. Placed(p) /\ p[2] \in Int
        BY <2>0, <3>1, <3>4 DEF LoopInv, Placed, Arguments
      <4> DEFINE line == p[2] \div 8
                 rest == p[2] % 8
      <4>2. line \in Int /\ rest \in 0..7 /\ p[2] = 8 * line + rest
        BY <4>1, Eighths
      <4> HIDE DEF line, rest
      <4>3. line \in (y \div 8)..((y \div 8) + fb_rows - 1)
        BY <3>2, <4>1, <4>2 DEF Placed
      <4>4. p[1] \in x..(x + columns - 1)
        BY <2>0, <3>2, <4>1 DEF Placed, Arguments
      <4>5. SegmentOf(p[1], p[2]) = line * Width + p[1]
        BY DEF SegmentOf, line
      <4> QED
        BY <3>3, <4>3, <4>4, <4>5 DEF BlitArea, Rectangle
    <3> QED
      BY <3>4 DEF DrawnInArea
  <2> QED
    BY <2>1, <2>2
<1> QED
  BY <1>1, Inductive, PTL
=============================================================================
