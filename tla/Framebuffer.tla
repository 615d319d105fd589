---------------------------- MODULE Framebuffer ----------------------------
(***************************************************************************)
(* The framebuffer (src/graphics/framebuffer.c): which segments of the     *)
(* memory have been written since they were last handed over, the dirty    *)
(* rectangle that is to enclose them, the lock, and the two ways of        *)
(* handing the rectangle over: the whole of its rows by one pointer, or    *)
(* copied piece by piece.  Where things lie is FramebufferGeometry; what   *)
(* the pixels of a segment are is left out.                                *)
(***************************************************************************)
EXTENDS FramebufferGeometry, Sequences

CONSTANTS
    BlitPlaces,     \* <<x, y>> arguments of framebuffer_blit, int8_t
    BlitSizes,      \* <<width, height>> arguments of framebuffer_blit, uint8_t
    BufferLens      \* lengths of the buffers given to framebuffer_copyDirtyArea

ASSUME BlitAssumption == /\ BlitPlaces \subseteq (-128..127) \X (-128..127)
                         /\ BlitSizes \subseteq (0..255) \X (0..255)
ASSUME LengthAssumption == BufferLens \subseteq Nat

VARIABLES
    x1, y1, x2, y2,     \* dirtySegX1 .. dirtySegY2
    dataPos,            \* next segment copyDirtyArea copies
    error,              \* the error flag
    isLocked, isDirty

(* The content of dataSegments, as far as it matters here: the segments    *)
(* that were written and have not been handed over since.                  *)
VARIABLE changed

(* A history variable: segments copied since copyDirtyArea began.          *)
VARIABLE copied

area == <<x1, y1, x2, y2>>
vars == <<area, dataPos, error, isLocked, isDirty, changed, copied>>

-----------------------------------------------------------------------------
POS_UNDEFINED == 65535

Init ==
    /\ x1 = 0 /\ y1 = 0 /\ x2 = MAX_X /\ y2 = MAX_Y_SEG
    /\ dataPos = POS_UNDEFINED
    /\ error = FALSE
    /\ isDirty = TRUE
    /\ isLocked = FALSE
    /\ changed = Positions
    /\ copied = 0

-----------------------------------------------------------------------------
(* Mutant: the last column is taken to be outside. *)
Refused_last(right, bottom) == right >= MAX_X \/ bottom > MAX_Y_SEG

(* updateDirtyArea refuses a corner outside the framebuffer. *)
Refused(right, bottom) == right > MAX_X \/ bottom > MAX_Y_SEG

(* Mutant: without the range check. *)
UpdateDirtyArea_unchecked(left, top, right, bottom) ==
    /\ x1' = IF isDirty THEN Least(x1, left) ELSE left
    /\ y1' = IF isDirty THEN Least(y1, top) ELSE top
    /\ x2' = IF isDirty THEN Greatest(x2, right) ELSE right
    /\ y2' = IF isDirty THEN Greatest(y2, bottom) ELSE bottom
    /\ isDirty' = TRUE
    /\ UNCHANGED error

(* updateDirtyArea *)
UpdateDirtyArea(left, top, right, bottom) ==
    IF Refused(right, bottom)
      THEN /\ error' = TRUE
           /\ UNCHANGED <<area, isDirty>>
      ELSE /\ x1' = IF isDirty THEN Least(x1, left) ELSE left
           /\ y1' = IF isDirty THEN Least(y1, top) ELSE top
           /\ x2' = IF isDirty THEN Greatest(x2, right) ELSE right
           /\ y2' = IF isDirty THEN Greatest(y2, bottom) ELSE bottom
           /\ isDirty' = TRUE
           /\ UNCHANGED error

-----------------------------------------------------------------------------
(* The application draws.  framebuffer.h does not allow it while the       *)
(* framebuffer is locked; the functions do not check.                      *)

(* framebuffer_setPixel, framebuffer_clearPixel *)
SetPixel(xPos, yPos) ==
    /\ ~isLocked
    /\ changed' = changed \cup {SegmentOf(xPos, yPos)}
    /\ UpdateDirtyArea(xPos, yPos \div 8, xPos, yPos \div 8)
    /\ UNCHANGED <<dataPos, isLocked, copied>>

(* Mutant: the rows of the object, not those it spans, become dirty. *)
Blit_unshifted(x, y, width, height) ==
    /\ ~isLocked
    /\ ~Outside(x, y)
    /\ changed' = changed \cup BlitArea(x, y, width, height)
    /\ UpdateDirtyArea(x, y \div 8, LastBlitColumn(x, width) % 256,
                       Least(LastBlitRow(y, height), (y \div 8) + (height \div 8)) % 256)
    /\ UNCHANGED <<dataPos, isLocked, copied>>

(* framebuffer_blit; the corner handed to updateDirtyArea is two bytes. *)
Blit(x, y, width, height) ==
    /\ ~isLocked
    /\ ~Outside(x, y)
    /\ changed' = changed \cup BlitArea(x, y, width, height)
    /\ UpdateDirtyArea(x, y \div 8, LastBlitColumn(x, width) % 256,
                       LastBlitRow(y, height) % 256)
    /\ UNCHANGED <<dataPos, isLocked, copied>>

-----------------------------------------------------------------------------
(* framebuffer_lock *)
Lock ==
    /\ isLocked' = TRUE
    /\ UNCHANGED <<area, dataPos, error, isDirty, changed, copied>>

(* framebuffer_unlock; nobody unlocks in the middle of a copy, which       *)
(* unlocks by itself.                                                      *)
Unlock ==
    /\ dataPos = POS_UNDEFINED
    /\ isLocked' = FALSE
    /\ UNCHANGED <<area, dataPos, error, isDirty, changed, copied>>

(* framebuffer_show *)
Show ==
    /\ isDirty
    /\ isLocked' = TRUE
    /\ UNCHANGED <<area, dataPos, error, isDirty, changed, copied>>

-----------------------------------------------------------------------------
(* framebuffer_getDirtyAreaBuffer: the segments handed over begin at the   *)
(* first one of the first dirty row; their number is a uint16_t.           *)
FirstSegment == y1 * Width
LastSegment  == y2 * Width + x2

(* Mutant: the last row counted from the left edge of the area. *)
DirtyBufferLen_narrow == (y2 * Width + (x2 - x1) - FirstSegment + 1) % 65536

DirtyBufferLen == (LastSegment - FirstSegment + 1) % 65536

DirtyBuffer == FirstSegment..(FirstSegment + DirtyBufferLen - 1)

(* It is called between copies, not within one. *)
GetDirtyAreaBuffer ==
    /\ dataPos = POS_UNDEFINED
    /\ isDirty' = FALSE
    /\ changed' = changed \ DirtyBuffer
    /\ UNCHANGED <<area, dataPos, error, isLocked, copied>>

-----------------------------------------------------------------------------
(* framebuffer_copyDirtyArea copies along a path through the memory.       *)
CopyStart == IF dataPos = POS_UNDEFINED THEN FirstSegment + x1 ELSE dataPos


(* x_len, a uint8_t *)
RowLength == (x2 - x1 + 1) % 256

(* Mutant: the jump to the next row is one short. *)
NextSegment_short(pos) ==
    (IF pos % Width = x2 THEN pos + (Width - RowLength) ELSE pos + 1) % 65536

NextSegment(pos) ==
    (IF pos % Width = x2 THEN pos + (Width - RowLength) + 1 ELSE pos + 1) % 65536

(* The segments that up to n turns of the loop visit, and the position     *)
(* after them.                                                             *)
Path(n) ==
    LET pos[k \in 0..n] == IF k = 0 THEN CopyStart ELSE NextSegment(pos[k - 1])
    IN  pos

(* The number of turns: the loop is left when the position has passed the  *)
(* last dirty segment.                                                     *)
Turns(n) ==
    LET path == Path(n)
        over == {k \in 1..n : path[k] > LastSegment}
    IN  IF over = {} THEN n ELSE CHOOSE k \in over : \A j \in over : k <= j

(* What is written to the buffer of the caller. *)
Piece(n) == [k \in 1..Turns(n) |-> Path(n)[k - 1]]

(* Mutant: the lock is forgotten at the end of the copy. *)
CopyDirtyArea_locked(n) ==
    LET turns == Turns(n)
        next  == Path(n)[turns]
        done  == turns > 0 /\ next > LastSegment
    IN  /\ isDirty
        /\ isLocked
        /\ changed' = changed \ {Piece(n)[k] : k \in 1..turns}
        /\ error' = (error \/ \E k \in 1..turns : Piece(n)[k] > Size)
        /\ isDirty' = ~done
        /\ dataPos' = IF done THEN POS_UNDEFINED ELSE next
        /\ copied' = IF done THEN 0 ELSE copied + turns
        /\ UNCHANGED <<area, isLocked>>

(* Mutant: the position is kept at the end of the copy. *)
CopyDirtyArea_kept(n) ==
    LET turns == Turns(n)
        next  == Path(n)[turns]
        done  == turns > 0 /\ next > LastSegment
    IN  /\ isDirty
        /\ isLocked
        /\ changed' = changed \ {Piece(n)[k] : k \in 1..turns}
        /\ error' = (error \/ \E k \in 1..turns : Piece(n)[k] > Size)
        /\ isDirty' = ~done
        /\ isLocked' = ~done
        /\ dataPos' = next
        /\ copied' = IF done THEN 0 ELSE copied + turns
        /\ UNCHANGED area

(* It is called on a locked framebuffer, after framebuffer_show. *)
CopyDirtyArea(n) ==
    LET turns == Turns(n)
        next  == Path(n)[turns]
        done  == turns > 0 /\ next > LastSegment
    IN  /\ isDirty
        /\ isLocked
        /\ changed' = changed \ {Piece(n)[k] : k \in 1..turns}
        /\ error' = (error \/ \E k \in 1..turns : Piece(n)[k] > Size)
        /\ isDirty' = ~done
        /\ isLocked' = ~done
        /\ dataPos' = IF done THEN POS_UNDEFINED ELSE next
        /\ copied' = IF done THEN 0 ELSE copied + turns
        /\ UNCHANGED area

-----------------------------------------------------------------------------
Next ==
    \/ \E xPos \in 0..MAX_X, yPos \in 0..MAX_Y : SetPixel(xPos, yPos)
    \/ \E place \in BlitPlaces, size \in BlitSizes :
           Blit(place[1], place[2], size[1], size[2])
    \/ Lock \/ Unlock \/ Show
    \/ GetDirtyAreaBuffer
    \/ \E n \in BufferLens : CopyDirtyArea(n)

(* A display that copies goes on until copyDirtyArea returns 0. *)
Fairness == WF_vars(\E n \in BufferLens \ {0} : CopyDirtyArea(n))

Spec == Init /\ [][Next]_vars /\ Fairness

-----------------------------------------------------------------------------
(* Every variable has its type; the rectangle stays inside the framebuffer *)
(* whatever is drawn, also by the C arithmetic on bytes.                   *)
TypeOK ==
    /\ x1 \in 0..MAX_X /\ x2 \in 0..MAX_X
    /\ y1 \in 0..MAX_Y_SEG /\ y2 \in 0..MAX_Y_SEG
    /\ dataPos \in Positions \cup {POS_UNDEFINED}
    /\ {error, isLocked, isDirty} \subseteq BOOLEAN
    /\ changed \subseteq Positions
    /\ copied \in 0..Size

DirtyArea == Rectangle(x1, y1, x2, y2)

(* A dirty area with segments in it.  A blit of width or height 0 that is  *)
(* the first after a show leaves a rectangle whose corners are crossed.    *)
Proper == x1 <= x2 /\ y1 <= y2

(* They are crossed by one at most.                                        *)
AreaInv == x1 <= x2 + 1 /\ y1 <= y2 + 1

(* Nothing that was drawn is lost: what was written since it was last      *)
(* handed over is inside the dirty rectangle, and a framebuffer that is    *)
(* not dirty has nothing to hand over (updateDirtyArea, and the two        *)
(* functions that clear isDirty).                                          *)
DirtyCovers == changed \subseteq (IF isDirty THEN DirtyArea ELSE {})

(* While a copy is under way the framebuffer is locked and dirty, the      *)
(* position it goes on from (dataPos, kept from one call of copyDirtyArea  *)
(* to the next) is a dirty segment, and what is left to hand over lies at  *)
(* or behind it.                                                           *)
CopyInv ==
    /\ AreaInv
    /\ dataPos = POS_UNDEFINED => copied = 0
    /\ dataPos # POS_UNDEFINED =>
        /\ isDirty /\ isLocked
        /\ Proper => dataPos \in DirtyArea
        /\ copied <= dataPos
        /\ \A pos \in changed : pos >= dataPos

(* The buffer handed over by getDirtyAreaBuffer begins with a whole row    *)
(* and contains every dirty segment, as its comment in framebuffer.h says; *)
(* and it lies in the framebuffer unless the rows of the rectangle are     *)
(* crossed, which they never are when something has been drawn.            *)
WholeHandedOver ==
    [][GetDirtyAreaBuffer /\ isDirty =>
           /\ DirtyArea \subseteq DirtyBuffer
           /\ DirtyBuffer \subseteq Positions \/ (y1 > y2 /\ changed = {})]_vars

(* The dirty segments row by row, from left to right. *)
Tiles ==
    LET w == x2 - x1 + 1
    IN  [k \in 1..(w * (y2 - y1 + 1)) |->
            (y1 + ((k - 1) \div w)) * Width + x1 + ((k - 1) % w)]

(* The pieces copied by repeated calls of copyDirtyArea, put one behind    *)
(* the other, are the dirty segments row by row, each once and none left   *)
(* out, however long the buffers are.                                      *)
CopyTiles ==
    [][\A n \in BufferLens : CopyDirtyArea(n) /\ Proper =>
           /\ Piece(n) = SubSeq(Tiles, copied + 1, copied + Len(Piece(n)))
           /\ ~isDirty' <=> copied + Len(Piece(n)) = Len(Tiles)]_vars

(* The error flag is raised only for an object without pixels: drawing     *)
(* clips to the framebuffer, and the copy never leaves it.                 *)
ErrorOnlyForEmpty ==
    [][error' # error => changed' = changed /\ ~isLocked]_vars

(* A copy that has begun ends, and unlocks the framebuffer, provided it is *)
(* called again and again with a buffer for at least one segment.          *)
CopyEnds == dataPos # POS_UNDEFINED ~> ~isLocked

-----------------------------------------------------------------------------
(* What the documentation says and the code does not do. *)

(* framebuffer.h:25-31, the function returns "a pointer to a buffer that   *)
(* contains all the segments that are within the dirty area", and the      *)
(* number of bytes in it: they are bytes of the framebuffer, whatever blit *)
(* made it dirty.                                                          *)
BufferOfSegments ==
    [][GetDirtyAreaBuffer /\ isDirty => DirtyBuffer \subseteq Positions]_vars
=============================================================================
