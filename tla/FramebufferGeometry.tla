------------------------ MODULE FramebufferGeometry -------------------------
(***************************************************************************)
(* Where things lie in the framebuffer (src/graphics/framebuffer.c): its   *)
(* limits, the segments of a rectangle, and the part of an object that     *)
(* framebuffer_blit takes to be visible.  A segment is a column of eight   *)
(* pixels, at position row * Width + column.                               *)
(***************************************************************************)
EXTENDS Integers

CONSTANTS
    Width,          \* FRAMEBUFFER_X_PIXELS (128)
    Rows            \* FRAMEBUFFER_Y_PIXELS / 8 (8)

ASSUME SizeAssumption == Width \in 1..255 /\ Rows \in 1..31

MAX_X     == Width - 1
MAX_Y     == 8 * Rows - 1
MAX_Y_SEG == MAX_Y \div 8
Size      == Width * Rows       \* FRAMEBUFFER_SIZE

Positions == 0..(Size - 1)

Least(a, b)    == IF a < b THEN a ELSE b
Greatest(a, b) == IF a < b THEN b ELSE a

SegmentOf(xPos, yPos) == (yPos \div 8) * Width + xPos

(* The segments of a rectangle. *)
Rectangle(left, top, right, bottom) ==
    {row * Width + col : row \in top..bottom, col \in left..right}

-----------------------------------------------------------------------------
(* The limits are unsigned, so a negative coordinate is compared as a      *)
(* large number and the object is taken to be outside: the code that       *)
(* truncates it at the left and upper border is never reached.             *)
AsUnsigned(v) == IF v < 0 THEN v + 65536 ELSE v
Outside(x, y) == AsUnsigned(x) > MAX_X \/ AsUnsigned(y) > MAX_Y

(* The columns and the rows framebuffer_blit writes to. *)
VisibleColumns(x, width) == IF x + width > Width THEN Width - x ELSE width

(* Mutants: one row too many at the lower border; without the row that     *)
(* only the lower end of the object reaches.                               *)
VisibleRows_beyond(y, height) ==
    IF y + height > MAX_Y
      THEN Rows - (y \div 8) + 1
      ELSE ((y + height - 1) \div 8) - (y \div 8) + 1

VisibleRows_unshifted(y, height) ==
    IF y + height > MAX_Y
      THEN MAX_Y_SEG - (y \div 8) + 1
      ELSE (height + 7) \div 8

VisibleRows(y, height) ==
    IF y + height > MAX_Y
      THEN MAX_Y_SEG - (y \div 8) + 1
      ELSE ((y + height - 1) \div 8) - (y \div 8) + 1

(* The last column and the last row of segments a blit writes. *)
LastBlitColumn(x, width) == x + VisibleColumns(x, width) - 1

(* Mutant: counted by the height of the object. *)
LastBlitRow_of_object(y, height) == (y \div 8) + (height \div 8)

LastBlitRow(y, height) == (y \div 8) + VisibleRows(y, height) - 1

BlitArea(x, y, width, height) ==
    Rectangle(x, y \div 8, LastBlitColumn(x, width), LastBlitRow(y, height))
=============================================================================
