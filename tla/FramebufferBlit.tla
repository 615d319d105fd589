-------------------------- MODULE FramebufferBlit ---------------------------
(***************************************************************************)
(* framebuffer_blit (src/graphics/framebuffer.c) pixel by pixel.  The      *)
(* object is given in rows of eight pixels, and the loop over the rows of  *)
(* the framebuffer puts each together from the lower part of one row of    *)
(* the object and the upper part of the next, shifted by y % 8.  What the  *)
(* pixels are is left out: the module keeps which pixel of the object is   *)
(* put where, and which rows of the object are read.                       *)
(***************************************************************************)
EXTENDS FramebufferGeometry

CONSTANTS
    Xs, Ys,             \* positions, int8_t
    Widths, Heights     \* sizes of the object, uint8_t

ASSUME ArgumentAssumption == /\ Xs \subseteq -128..127 /\ Ys \subseteq -128..127
                             /\ Widths \subseteq 0..255 /\ Heights \subseteq 0..255

VARIABLES
    x, y, width, height,    \* the arguments
    phase,                  \* "call", "rows" or "done"
    row,                    \* i, the row of the framebuffer
    obj_current_row,        \* the row of the object above it
    drawn,                  \* <<column, line, column and line of the object>>
    read                    \* the rows of the object that were read

arguments == <<x, y, width, height>>
vars == <<arguments, phase, row, obj_current_row, drawn, read>>

Init ==
    /\ x \in Xs /\ y \in Ys /\ width \in Widths /\ height \in Heights
    /\ phase = "call"
    /\ row = 0
    /\ obj_current_row = -1
    /\ drawn = {}
    /\ read = {}

-----------------------------------------------------------------------------
y_shift == y % 8
columns == VisibleColumns(x, width)
fb_rows == VisibleRows(y, height)

(* Mutant: rounded up. *)
obj_last_row_late ==
    IF y + height > MAX_Y THEN (8 * Rows - y) \div 8 ELSE (height + 7) \div 8

(* The row of the object whose lower neighbour is not needed. *)
obj_last_row == IF y + height > MAX_Y THEN (8 * Rows - y) \div 8 ELSE height \div 8

(* The pixels of a row of the object, each moved down by shift lines; what *)
(* is moved out of the row of the framebuffer is lost.                     *)
Shifted(objRow, shift) ==
    {<<x + j, 8 * row + bit + shift, j, 8 * objRow + bit>> :
        j \in 0..(columns - 1), bit \in {b \in 0..7 : b + shift \in 0..7}}

(* The upper row is moved to the upper end, the lower one to the lower.    *)
FromTop    == Shifted(obj_current_row, y_shift - 8)
FromBottom == Shifted(obj_current_row + 1, y_shift)

(* Nothing is read for an object without columns. *)
Reads(rows) == IF columns > 0 THEN rows ELSE {}

-----------------------------------------------------------------------------
OutsideCall ==
    /\ phase = "call"
    /\ Outside(x, y)
    /\ phase' = "done"
    /\ UNCHANGED <<arguments, row, obj_current_row, drawn, read>>

Begin ==
    /\ phase = "call"
    /\ ~Outside(x, y)
    /\ phase' = "rows"
    /\ row' = y \div 8
    /\ obj_current_row' = -1
    /\ UNCHANGED <<arguments, drawn, read>>

(* The loop over i, one row of the framebuffer at a time. *)
NextRow ==
    /\ phase = "rows"
    /\ row < (y \div 8) + fb_rows
    /\ row' = row + 1
    /\ obj_current_row' = obj_current_row + 1
    /\ UNCHANGED <<arguments, phase>>

FirstRow ==
    /\ obj_current_row < 0
    /\ drawn' = drawn \cup FromBottom
    /\ read' = read \cup Reads({0})
    /\ NextRow

LastRow ==
    /\ obj_current_row = obj_last_row
    /\ drawn' = drawn \cup FromTop
    /\ read' = read \cup Reads({obj_current_row})
    /\ NextRow

(* Mutant: the upper row is not drawn. *)
InnerRow_bottom ==
    /\ obj_current_row >= 0 /\ obj_current_row # obj_last_row
    /\ drawn' = drawn \cup FromBottom
    /\ read' = read \cup Reads({obj_current_row, obj_current_row + 1})
    /\ NextRow

InnerRow ==
    /\ obj_current_row >= 0 /\ obj_current_row # obj_last_row
    /\ drawn' = drawn \cup FromTop \cup FromBottom
    /\ read' = read \cup Reads({obj_current_row, obj_current_row + 1})
    /\ NextRow

Return ==
    /\ phase = "rows"
    /\ row >= (y \div 8) + fb_rows
    /\ phase' = "done"
    /\ UNCHANGED <<arguments, row, obj_current_row, drawn, read>>

Next == OutsideCall \/ Begin \/ FirstRow \/ LastRow \/ InnerRow \/ Return

Spec == Init /\ [][Next]_vars

-----------------------------------------------------------------------------
(* The arguments are those of the call, and the loop stays on the rows of  *)
(* the framebuffer (the indices i and obj_current_row).                    *)
TypeOK ==
    /\ x \in Xs /\ y \in Ys /\ width \in Widths /\ height \in Heights
    /\ phase \in {"call", "rows", "done"}
    /\ row \in 0..Rows
    /\ obj_current_row \in -1..(Rows - 1)
    /\ read \subseteq 0..Rows

InFramebuffer(column, line) == column \in 0..MAX_X /\ line \in 0..MAX_Y

(* What the call asks for: every pixel of the object that lies in the      *)
(* framebuffer, at its place.                                              *)
Visible ==
    {<<x + j, y + k, j, k>> :
        j \in {c \in 0..(width - 1) : x + c \in 0..MAX_X},
        k \in {l \in 0..(height - 1) : y + l \in 0..MAX_Y}}

(* A finished blit of an object that begins in the framebuffer has put all *)
(* its visible pixels where they belong, none elsewhere and none beside    *)
(* the framebuffer, however the rows of the object and those of the        *)
(* framebuffer are shifted against each other (the three branches of the   *)
(* loop, and the truncation at the right and the lower border).            *)
DrawsVisible ==
    /\ phase = "done" /\ ~Outside(x, y) => Visible \subseteq drawn
    /\ \A p \in drawn :
           /\ InFramebuffer(p[1], p[2])
           /\ p[1] = x + p[3] /\ p[2] = y + p[4]
           /\ p[3] \in 0..(width - 1)

(* The number of rows of the data of the object. *)
DataRows == (height + 7) \div 8

(* The loop reads beyond the data of the object, by one row, exactly for   *)
(* an object whose height is a number of whole rows, which is not drawn at *)
(* a whole row and ends before the lower border (obj_last_row is one too   *)
(* large then, and the lower neighbour of the last row is drawn too).      *)
Overrun ==
    /\ columns > 0
    /\ height % 8 = 0 /\ y % 8 # 0
    /\ y + height <= MAX_Y

ReadsInObject ==
    /\ read \subseteq 0..DataRows
    /\ phase = "done" /\ ~Outside(x, y) => (DataRows \in read <=> Overrun)

(* The segments that are drawn to are those updateDirtyArea is told of     *)
(* after the loop.                                                         *)
DrawnInArea ==
    \A p \in drawn : SegmentOf(p[1], p[2]) \in BlitArea(x, y, width, height)

-----------------------------------------------------------------------------
(* framebuffer.c:283-284: "Check if part of the object is outside the      *)
(* framebuffer.  If so - truncate": the visible part of an object is drawn *)
(* wherever it begins.                                                     *)
TruncatesAtBorder == phase = "done" => Visible \subseteq drawn
=============================================================================
