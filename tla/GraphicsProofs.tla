--------------------------- MODULE GraphicsProofs ---------------------------
(***************************************************************************)
(* Proofs about the framebuffer and the graphics task working together,    *)
(* for every size of the framebuffer, whatever is drawn, and whatever the  *)
(* display driver and the bus do.  What FramebufferProofs shows of the     *)
(* framebuffer is used as it is: every step of the system is a step of the *)
(* framebuffer or leaves it alone.                                         *)
(***************************************************************************)
EXTENDS GraphicsSystem, TLAPS

(* Nobody copies the dirty area piece by piece here. *)
BufferProofs == INSTANCE FramebufferProofs WITH BufferLens <- {}

(* The framebuffer of the system is the one FramebufferProofs is about.    *)
LEMMA SameInit == Buffer!Init => BufferProofs!Init
BY DEF Buffer!Init, BufferProofs!Init, Buffer!MAX_X, BufferProofs!MAX_X,
       Buffer!MAX_Y_SEG, BufferProofs!MAX_Y_SEG, Buffer!MAX_Y, BufferProofs!MAX_Y,
       Buffer!POS_UNDEFINED, BufferProofs!POS_UNDEFINED,
       Buffer!Positions, BufferProofs!Positions, Buffer!Size, BufferProofs!Size

LEMMA BufferSize == Width \in 1..255 /\ Rows \in 1..31
BY SizeAssumption

LEMMA SameLimits ==
    /\ Buffer!MAX_X = BufferProofs!MAX_X /\ Buffer!MAX_Y = BufferProofs!MAX_Y
    /\ Buffer!MAX_Y_SEG = BufferProofs!MAX_Y_SEG
    /\ Buffer!POS_UNDEFINED = BufferProofs!POS_UNDEFINED
BY DEF Buffer!MAX_X, BufferProofs!MAX_X, Buffer!MAX_Y, BufferProofs!MAX_Y,
       Buffer!MAX_Y_SEG, BufferProofs!MAX_Y_SEG, Buffer!POS_UNDEFINED, BufferProofs!POS_UNDEFINED

LEMMA SameUpdate ==
    ASSUME NEW left, NEW top, NEW right, NEW bottom,
           Buffer!UpdateDirtyArea(left, top, right, bottom)
    PROVE  BufferProofs!UpdateDirtyArea(left, top, right, bottom)
BY SameLimits, Zenon
   DEF Buffer!UpdateDirtyArea, BufferProofs!UpdateDirtyArea, Buffer!Refused, BufferProofs!Refused,
       Buffer!Least, BufferProofs!Least, Buffer!Greatest, BufferProofs!Greatest,
       Buffer!area, BufferProofs!area

LEMMA SamePixel ==
    ASSUME NEW xPos, NEW yPos, Buffer!SetPixel(xPos, yPos)
    PROVE  BufferProofs!SetPixel(xPos, yPos)
BY SameUpdate, Zenon
   DEF Buffer!SetPixel, BufferProofs!SetPixel, Buffer!SegmentOf, BufferProofs!SegmentOf

LEMMA SameVisible ==
    ASSUME NEW x, NEW y, NEW width, NEW height
    PROVE  /\ Buffer!Outside(x, y) <=> BufferProofs!Outside(x, y)
           /\ Buffer!LastBlitColumn(x, width) = BufferProofs!LastBlitColumn(x, width)
           /\ Buffer!LastBlitRow(y, height) = BufferProofs!LastBlitRow(y, height)
<1>1. Buffer!Outside(x, y) <=> BufferProofs!Outside(x, y)
  BY SMT DEF Buffer!Outside, BufferProofs!Outside, Buffer!AsUnsigned, BufferProofs!AsUnsigned,
             Buffer!MAX_X, BufferProofs!MAX_X, Buffer!MAX_Y, BufferProofs!MAX_Y
<1>2. Buffer!LastBlitColumn(x, width) = BufferProofs!LastBlitColumn(x, width)
  BY Zenon DEF Buffer!LastBlitColumn, BufferProofs!LastBlitColumn,
               Buffer!VisibleColumns, BufferProofs!VisibleColumns
<1>3. Buffer!LastBlitRow(y, height) = BufferProofs!LastBlitRow(y, height)
  BY SameLimits, Zenon DEF Buffer!LastBlitRow, BufferProofs!LastBlitRow,
                           Buffer!VisibleRows, BufferProofs!VisibleRows
<1> QED
  BY <1>1, <1>2, <1>3

LEMMA SameBlit ==
    ASSUME NEW x, NEW y, NEW width, NEW height, Buffer!Blit(x, y, width, height)
    PROVE  BufferProofs!Blit(x, y, width, height)
<1>1. Buffer!BlitArea(x, y, width, height) = BufferProofs!BlitArea(x, y, width, height)
  BY SameVisible DEF Buffer!BlitArea, BufferProofs!BlitArea, Buffer!Rectangle, BufferProofs!Rectangle
<1>2. Buffer!LastBlitColumn(x, width) = BufferProofs!LastBlitColumn(x, width)
  BY SameVisible, Zenon
<1>3. Buffer!LastBlitRow(y, height) = BufferProofs!LastBlitRow(y, height)
  BY SameVisible, Zenon
<1>4. ~BufferProofs!Outside(x, y)
  BY SameVisible, Zenon DEF Buffer!Blit
<1>5. BufferProofs!UpdateDirtyArea(x, y \div 8, BufferProofs!LastBlitColumn(x, width) % 256,
                                   BufferProofs!LastBlitRow(y, height) % 256)
  BY <1>2, <1>3, SameUpdate, Zenon DEF Buffer!Blit
<1> QED
  BY <1>1, <1>4, <1>5, Zenon DEF Buffer!Blit, BufferProofs!Blit

LEMMA SameRest ==
    /\ Buffer!Lock => BufferProofs!Lock
    /\ Buffer!Unlock => BufferProofs!Unlock
    /\ Buffer!GetDirtyAreaBuffer => BufferProofs!GetDirtyAreaBuffer
<1>1. Buffer!Lock => BufferProofs!Lock
  BY Zenon DEF Buffer!Lock, BufferProofs!Lock, Buffer!area, BufferProofs!area
<1>2. Buffer!Unlock => BufferProofs!Unlock
  BY SameLimits, Zenon DEF Buffer!Unlock, BufferProofs!Unlock, Buffer!area, BufferProofs!area
<1>3. Buffer!DirtyBuffer = BufferProofs!DirtyBuffer
  BY SMT DEF Buffer!DirtyBuffer, BufferProofs!DirtyBuffer,
       Buffer!DirtyBufferLen, BufferProofs!DirtyBufferLen,
       Buffer!FirstSegment, BufferProofs!FirstSegment, Buffer!LastSegment, BufferProofs!LastSegment
<1>4. Buffer!GetDirtyAreaBuffer => BufferProofs!GetDirtyAreaBuffer
  BY <1>3, SameLimits, Zenon DEF Buffer!GetDirtyAreaBuffer, BufferProofs!GetDirtyAreaBuffer,
                                 Buffer!area, BufferProofs!area
<1> QED
  BY <1>1, <1>2, <1>4

LEMMA SameStutter == UNCHANGED bufferVars => UNCHANGED BufferProofs!vars
BY DEF bufferVars, BufferProofs!vars, BufferProofs!area

-----------------------------------------------------------------------------
(* What the steps of the system do to the framebuffer and to the request.  *)

DrawingStep ==
    /\ BufferProofs!Next
    /\ ~isLocked
    /\ UNCHANGED <<isLocked, showRequested, graphicsState>>

ShowStep ==
    /\ BufferProofs!Lock
    /\ showRequested' = TRUE
    /\ UNCHANGED graphicsState

TakingStep ==
    /\ BufferProofs!GetDirtyAreaBuffer
    /\ UNCHANGED showRequested
    /\ graphicsState' = "sent" => showRequested \/ graphicsState = "sent"

SentStep ==
    /\ BufferProofs!Unlock
    /\ graphicsState = "sent" /\ graphicsState' = "wait"
    /\ showRequested' = FALSE

OtherStep ==
    /\ UNCHANGED BufferProofs!vars
    /\ UNCHANGED showRequested
    /\ graphicsState' = "sent" => graphicsState = "sent"

LEMMA Classified ==
    ASSUME [Next]_vars
    PROVE  DrawingStep \/ ShowStep \/ TakingStep \/ SentStep \/ OtherStep
<1>1. ASSUME NEW xPos \in 0..(Width - 1), NEW yPos \in 0..(8 * Rows - 1), DrawPixel(xPos, yPos)
      PROVE  DrawingStep
  <2>1. Buffer!SetPixel(xPos, yPos) /\ UNCHANGED <<showRequested, graphicsState>>
    BY <1>1 DEF DrawPixel, Touch, graphicsVars
  <2>2. ~isLocked /\ isLocked' = isLocked
    BY <2>1 DEF Buffer!SetPixel
  <2>3. BufferProofs!Next
    <3>1. BufferProofs!SetPixel(xPos, yPos)
      BY <2>1, SamePixel
    <3>2. xPos \in 0..BufferProofs!MAX_X /\ yPos \in 0..BufferProofs!MAX_Y
      BY <1>1 DEF BufferProofs!MAX_X, BufferProofs!MAX_Y
    <3> QED
      BY <3>1, <3>2 DEF BufferProofs!Next
  <2> QED
    BY <2>1, <2>2, <2>3 DEF DrawingStep
<1>2. ASSUME NEW place \in BlitPlaces, NEW size \in BlitSizes,
             DrawObject(place[1], place[2], size[1], size[2])
      PROVE  DrawingStep
  <2>1. /\ Buffer!Blit(place[1], place[2], size[1], size[2])
        /\ UNCHANGED <<showRequested, graphicsState>>
    BY <1>2 DEF DrawObject, Touch, graphicsVars
  <2>2. ~isLocked /\ isLocked' = isLocked
    BY <2>1 DEF Buffer!Blit
  <2>3. BufferProofs!Blit(place[1], place[2], size[1], size[2])
    BY <2>1, SameBlit
  <2>4. BufferProofs!Next
    BY <2>3 DEF BufferProofs!Next
  <2> QED
    BY <2>1, <2>2, <2>4 DEF DrawingStep
<1>3. CASE Show
  BY <1>3, SameRest DEF Show, ShowStep
<1>4. CASE RunClear
  <2>1. graphicsState' # "sent"
    BY <1>4 DEF RunClear, Resumes, DriverAccepts, DriverRefuses
  <2> QED
    BY <1>4, <2>1, SameRest DEF RunClear, TakingStep
<1>5. CASE RunShow
  BY <1>5, SameRest DEF RunShow, TakingStep
<1>6. CASE RunSent
  BY <1>6, SameRest DEF RunSent, Resumes, SentStep
<1>7. ASSUME UNCHANGED <<bufferVars, showRequested>>, UNCHANGED graphicsState \/ graphicsState' = "clear"
      PROVE  OtherStep
  BY <1>7, SameStutter DEF OtherStep
<1>8. CASE RunInit
  BY <1>7, <1>8 DEF RunInit
<1>9. CASE RunIdle \/ RunWaits \/ UNCHANGED vars
  <2>1. UNCHANGED <<bufferVars, showRequested, graphicsState>>
    BY <1>9 DEF RunIdle, RunWaits, vars, graphicsVars
  <2> QED
    BY <1>7, <2>1
<1>10. CASE DriverRuns \/ TransferSucceeds \/ TransferFails \/ OtherUser
  <2>1. UNCHANGED <<bufferVars, graphicsVars>>
    BY <1>10 DEF DriverRuns, TransferSucceeds, TransferFails, OtherUser
  <2> QED
    BY <1>7, <2>1 DEF graphicsVars
<1> QED
  BY <1>1, <1>2, <1>3, <1>4, <1>5, <1>6, <1>8, <1>9, <1>10 DEF Next, Application, Run

(* Every step of the system is a step of the framebuffer.                  *)
LEMMA BufferStep ==
    ASSUME [Next]_vars
    PROVE  [BufferProofs!Next]_(BufferProofs!vars)
<1>1. ASSUME ShowStep \/ TakingStep \/ SentStep PROVE BufferProofs!Next
  BY <1>1 DEF ShowStep, TakingStep, SentStep, BufferProofs!Next
<1> QED
  BY <1>1, Classified DEF DrawingStep, OtherStep

-----------------------------------------------------------------------------
GInv == BufferProofs!IInv /\ ShowInv

LEMMA InitInv == Init => GInv
<1> SUFFICES ASSUME Init PROVE GInv
  OBVIOUS
<1>1. BufferProofs!Init
  BY SameInit DEF Init
<1>2. BufferProofs!IInv
  BY <1>1, BufferProofs!InitInv, BufferSize, BlitAssumption
<1>3. ShowInv
  BY DEF Init, Buffer!Init, ShowInv
<1> QED
  BY <1>2, <1>3 DEF GInv

LEMMA StepInv ==
    ASSUME GInv, [Next]_vars
    PROVE  GInv' /\ (showRequested /\ ~showRequested' => ~isDirty /\ changed = {})
<1>1. BufferProofs!IInv'
  BY BufferStep, BufferProofs!StepInv, BufferSize, BlitAssumption DEF GInv
<1>2. ShowInv
  BY DEF GInv
<1>3. CASE DrawingStep
  BY <1>1, <1>2, <1>3 DEF GInv, ShowInv, DrawingStep
<1>4. CASE ShowStep
  BY <1>1, <1>2, <1>4 DEF GInv, ShowInv, ShowStep, BufferProofs!Lock
<1>5. CASE TakingStep
  BY <1>1, <1>2, <1>5 DEF GInv, ShowInv, TakingStep, BufferProofs!GetDirtyAreaBuffer
<1>6. CASE SentStep
  <2>1. ShowInv'
    BY <1>6 DEF ShowInv, SentStep, BufferProofs!Unlock
  <2>2. ~isDirty
    BY <1>2, <1>6 DEF ShowInv, SentStep
  <2>3. changed = {}
    BY <2>2 DEF GInv, BufferProofs!IInv, BufferProofs!DirtyCovers
  <2> QED
    BY <1>1, <2>1, <2>2, <2>3 DEF GInv
<1>7. CASE OtherStep
  BY <1>1, <1>2, <1>7 DEF GInv, ShowInv, OtherStep, BufferProofs!vars
<1> QED
  BY <1>3, <1>4, <1>5, <1>6, <1>7, Classified

LEMMA Inductive == Spec => []GInv
<1>1. GInv /\ [Next]_vars => GInv'
  BY StepInv
<1> QED
  BY InitInv, <1>1, PTL DEF Spec

(* The framebuffer is locked exactly as long as a show is requested, and   *)
(* is not dirty once its data has been handed over.                        *)
THEOREM LockAgrees == Spec => []ShowInv
<1>1. GInv => ShowInv
  BY DEF GInv
<1> QED
  BY <1>1, Inductive, PTL

(* When graphics_run takes a show request back, all that had been drawn    *)
(* has been handed to the display driver.                                  *)
THEOREM ShowServed == Spec => ShowNotLost
<1>1. GInv /\ [Next]_vars =>
        [showRequested /\ ~showRequested' => ~isDirty /\ changed = {}]_vars
  BY StepInv
<1> QED
  BY <1>1, Inductive, PTL DEF Spec, ShowNotLost

(* Every behaviour of the whole system is, for the framebuffer, one of the *)
(* module Framebuffer, and what that module promises holds: the rectangle  *)
(* stays in the framebuffer and covers what was drawn, the buffer that     *)
(* graphics_run takes contains the rectangle and lies in the framebuffer   *)
(* when anything was drawn, and the error flag is raised by blits without  *)
(* pixels only.                                                            *)
THEOREM BufferInSystem ==
    Spec => /\ BufferProofs!Init /\ [][BufferProofs!Next]_(BufferProofs!vars)
            /\ [](BufferProofs!TypeOK /\ BufferProofs!DirtyCovers)
            /\ BufferProofs!WholeHandedOver
            /\ BufferProofs!ErrorOnlyForEmpty
<1>1. Init => BufferProofs!Init
  BY SameInit DEF Init
<1>2. GInv => BufferProofs!TypeOK /\ BufferProofs!DirtyCovers
  BY DEF GInv, BufferProofs!IInv
<1>3. [Next]_vars => [BufferProofs!Next]_(BufferProofs!vars)
  BY BufferStep
<1>4. GInv /\ [Next]_vars =>
        [BufferProofs!GetDirtyAreaBuffer /\ isDirty =>
            /\ BufferProofs!DirtyArea \subseteq BufferProofs!DirtyBuffer
            /\ \/ BufferProofs!DirtyBuffer \subseteq BufferProofs!Positions
               \/ y1 > y2 /\ changed = {}]_(BufferProofs!vars)
  <2>1. GInv => BufferProofs!RectOK /\ BufferProofs!DirtyCovers
    BY DEF GInv, BufferProofs!IInv, BufferProofs!TypeOK, BufferProofs!RectOK
  <2> QED
    BY <2>1, BufferProofs!BufferHandedOver, BufferSize, BlitAssumption
<1>5. GInv /\ [Next]_vars => [error' # error => changed' = changed /\ ~isLocked]_(BufferProofs!vars)
  BY BufferStep, BufferProofs!StepInv, BufferSize, BlitAssumption DEF GInv
<1> QED
  BY <1>1, <1>2, <1>3, <1>4, <1>5, Inductive, PTL
     DEF Spec, BufferProofs!WholeHandedOver, BufferProofs!ErrorOnlyForEmpty

-----------------------------------------------------------------------------
(* Nothing is forgotten.  DisplayInv is kept by every step: first what the *)
(* steps of the driver leave alone.                                        *)

LEMMA RefusedKept ==
    ASSUME UNCHANGED <<bufferVars, graphicsState, showRequested>>
    PROVE  Refused' = Refused
BY DEF Refused, bufferVars, Buffer!DirtyBuffer, Buffer!DirtyBufferLen,
       Buffer!FirstSegment, Buffer!LastSegment

(* A step that changes neither the framebuffer nor the memory of the       *)
(* display accounts for the same segments if it loses none on its way.     *)
LEMMA AccountedKept ==
    ASSUME Accounted, UNCHANGED <<overtaken, stale, lost, bufferVars, graphicsVars>>,
           OnItsWay \subseteq OnItsWay'
    PROVE  Accounted'
<1>1. Refused' = Refused
  BY RefusedKept DEF graphicsVars
<1>2. UNCHANGED <<overtaken, stale, lost, changed>>
  BY DEF bufferVars
<1> QED
  BY <1>1, <1>2 DEF Accounted

(* What the driver does not touch, and what it touches in every dispatch.  *)
QuietStep ==
    /\ UNCHANGED <<overtaken, stale, lost, bufferVars, graphicsVars>>
    /\ UNCHANGED <<addressingMode, column, page, panel>>

LEMMA RunQuiet ==
    ASSUME DriverRuns
    PROVE  QuietStep
<1>1. /\ Driver!Run /\ UNCHANGED <<bufferVars, graphicsVars, stale, lost, overtaken>>
  BY DEF DriverRuns
<1>2. UNCHANGED <<addressingMode, column, page, panel>>
  BY <1>1, Zenon
     DEF Driver!Run, Driver!RunWaits, Driver!RunTransmits, Driver!RunRefused, Driver!RunIdle,
         Driver!RunInitDelay, Driver!RunInitStep, Driver!RunInitDone, Driver!RunSendColumn,
         Driver!RunSendPage, Driver!RunSendBuffer, Driver!RunSendDone, Driver!Dispatch,
         Driver!settings, Driver!vars
<1> QED
  BY <1>1, <1>2 DEF QuietStep

(* A dispatch begins with the transfer, if there was one, over.            *)
Dispatched(s) ==
    /\ state = s
    /\ IF operationOngoing THEN bus # Me ELSE commandType = "none"
    /\ operationOngoing' = FALSE
    /\ inFlight = {} /\ inFlight' = {}
    /\ UNCHANGED <<bus, commandResult>>

LEMMA DispatchFacts ==
    ASSUME FlagsInv, DriverRuns, NEW s, Driver!Dispatch(s)
    PROVE  Dispatched(s)
<1>1. /\ state = s /\ operationOngoing' = FALSE /\ UNCHANGED <<bus, commandResult>>
      /\ IF operationOngoing THEN commandResult # "processing" ELSE commandType = "none"
  BY DEF Driver!Dispatch
<1>2. IF operationOngoing THEN bus # Me ELSE commandType = "none"
  BY <1>1 DEF FlagsInv
<1>3. inFlight = {}
  BY <1>2 DEF FlagsInv
<1>4. inFlight' = inFlight
  BY <1>1 DEF DriverRuns
<1> QED
  BY <1>1, <1>2, <1>3, <1>4 DEF Dispatched

LEMMA TaskKept ==
    ASSUME TaskInv, QuietStep, UNCHANGED <<state, result>>
    PROVE  TaskInv'
BY DEF TaskInv, QuietStep, bufferVars, graphicsVars

LEMMA FixedPositions == Buffer!Positions' = Buffer!Positions
BY DEF Buffer!Positions, Buffer!Size


LEMMA RuinedKept ==
    ASSUME UNCHANGED lost
    PROVE  Ruined' <=> Ruined
BY DEF Ruined

(* The first command of an operation, and the delay before it.             *)
LEMMA InitDelayStep ==
    ASSUME DisplayInv, DriverRuns, Driver!RunInitDelay
    PROVE  DisplayInv'
<1>1. /\ Dispatched("init") /\ QuietStep /\ FlagsInv /\ TaskInv /\ InitOpInv /\ Accounted
  BY DispatchFacts, RunQuiet DEF DisplayInv, Driver!RunInitDelay
<1>2. /\ operationStep = 1 /\ operationStep' \in {1, 2} /\ commandType' = "none"
      /\ UNCHANGED <<state, graphicsData, command, result>>
  BY DEF Driver!RunInitDelay, Driver!init_delay_step, Driver!init_first_step
<1>3. FlagsInv'
  BY <1>1, <1>2 DEF FlagsInv, Dispatched
<1>4. TaskInv'
  BY <1>1, <1>2, TaskKept
<1>5. InitOpInv'
  BY <1>1, <1>2 DEF InitOpInv, Dispatched
<1>6. ModeInv' /\ SendOpInv'
  BY <1>1, <1>2 DEF ModeInv, SendOpInv, Dispatched
<1>7. Accounted'
  <2>1. OnItsWay \subseteq OnItsWay'
    BY <1>1, <1>2 DEF OnItsWay, Dispatched
  <2> QED
    BY <1>1, <2>1, AccountedKept DEF QuietStep
<1> QED
  BY <1>3, <1>4, <1>5, <1>6, <1>7 DEF DisplayInv

(* The commands of InitScript: the twelfth sets the addressing mode, the   *)
(* last one leaves it alone, and none is rejected.                         *)
LEMMA ScriptCommands ==
    ASSUME NEW i \in 1..13
    PROVE  /\ Driver!InitScript(0)[i] # Driver!Rejected
           /\ i = 12 => Driver!InitScript(0)[i] = [reg |-> "mode", args |-> <<0>>]
           /\ i = 13 => Driver!InitScript(0)[i].reg = "display"
<1> USE DEF Driver!InitScript, Driver!Rejected, Driver!Command,
      Driver!SetMultiplexRatio, Driver!SetDisplayOffset, Driver!SetDisplayStartLine,
      Driver!SetSegmentRemap, Driver!SetScanDirection, Driver!SetComPins, Driver!SetContrast,
      Driver!SetPixels, Driver!SetInverted, Driver!SetDisplayClock, Driver!SetChargePump,
      Driver!SetAddressingMode, Driver!SetDisplay
<1>1. i \in {1, 2, 3, 4} => Driver!InitScript(0)[i].reg # "none"
  OBVIOUS
<1>2. i \in {5, 6, 7, 8} => Driver!InitScript(0)[i].reg # "none"
  OBVIOUS
<1>3. i \in {9, 10, 11, 12, 13} => Driver!InitScript(0)[i].reg # "none"
  OBVIOUS
<1>4. i \in {1, 2, 3, 4} \cup {5, 6, 7, 8} \cup {9, 10, 11, 12, 13}
  OBVIOUS
<1>5. i = 12 => Driver!InitScript(0)[i] = [reg |-> "mode", args |-> <<0>>]
  OBVIOUS
<1>6. i = 13 => Driver!InitScript(0)[i].reg = "display"
  OBVIOUS
<1>7. Driver!Rejected.reg = "none"
  OBVIOUS
<1> HIDE DEF Driver!InitScript, Driver!Rejected
<1> QED
  BY <1>1, <1>2, <1>3, <1>4, <1>5, <1>6, <1>7

LEMMA InitStepStep ==
    ASSUME DisplayInv, DriverRuns, Driver!RunInitStep
    PROVE  DisplayInv'
<1>1. /\ Dispatched("init") /\ QuietStep /\ FlagsInv /\ TaskInv /\ InitOpInv /\ Accounted
  BY DispatchFacts, RunQuiet DEF DisplayInv, Driver!RunInitStep
<1>2. operationStep \in 2..14 /\ addressingMode = 0
  BY <1>1 DEF Driver!RunInitStep, Driver!init_first_step, Driver!init_last_step, TaskInv, Dispatched
<1> DEFINE next == Driver!InitScript(0)[operationStep - 1]
<1>3. Driver!StepCommand(next)
  BY <1>2 DEF Driver!RunInitStep
<1>4. /\ next # Driver!Rejected
      /\ operationStep = 13 => next = [reg |-> "mode", args |-> <<0>>]
      /\ operationStep = 14 => next.reg = "display"
  <2>1. operationStep - 1 \in 1..13
    BY <1>2
  <2> QED
    BY <1>2, <2>1, ScriptCommands
<1> HIDE DEF next
<1>5. /\ operationStep' = operationStep + 1 /\ commandType' = "single" /\ command' = next
      /\ UNCHANGED <<state, graphicsData, result>>
  BY <1>3, <1>4 DEF Driver!StepCommand
<1>6. FlagsInv'
  BY <1>1, <1>5 DEF FlagsInv, Dispatched
<1>7. TaskInv'
  BY <1>1, <1>5, TaskKept
<1>8. InitOpInv'
  <2>1. operationStep' \in 3..15
    BY <1>2, <1>5
  <2>2. operationStep' = 14 => command' = [reg |-> "mode", args |-> <<0>>]
    BY <1>2, <1>4, <1>5
  <2>3. operationStep' = 15 => command'.reg = "display"
    BY <1>2, <1>4, <1>5
  <2>4. ~Over'
    BY <1>1 DEF Dispatched, Over
  <2>5. operationStep' = 15 => panel'.mode = 0 \/ Ruined'
    <3>1. operationStep' = 15 => operationStep = 14
      BY <1>2, <1>5
    <3>2. operationStep = 14 => commandType = "single" /\ Over
      BY <1>1 DEF InitOpInv, Dispatched, Over
    <3>3. operationStep = 14 => panel.mode = 0 \/ Ruined
      BY <1>1, <3>2 DEF InitOpInv, Dispatched
    <3> QED
      BY <1>1, <3>1, <3>3, RuinedKept DEF QuietStep
  <2> QED
    BY <1>5, <2>1, <2>2, <2>3, <2>4, <2>5 DEF InitOpInv
<1>9. ModeInv' /\ SendOpInv'
  BY <1>1, <1>5 DEF ModeInv, SendOpInv, Dispatched
<1>10. Accounted'
  <2>1. OnItsWay \subseteq OnItsWay'
    BY <1>1, <1>5 DEF OnItsWay, Dispatched
  <2> QED
    BY <1>1, <2>1, AccountedKept DEF QuietStep
<1> QED
  BY <1>6, <1>7, <1>8, <1>9, <1>10 DEF DisplayInv

LEMMA InitDoneStep ==
    ASSUME DisplayInv, DriverRuns, Driver!RunInitDone
    PROVE  DisplayInv'
<1>1. /\ Dispatched("init") /\ QuietStep /\ FlagsInv /\ TaskInv /\ InitOpInv /\ Accounted
  BY DispatchFacts, RunQuiet DEF DisplayInv, Driver!RunInitDone
<1>2. /\ operationStep = 15 /\ state' = "idle" /\ commandType' = "none"
      /\ result' = [result EXCEPT ![operationResult] = "ok"]
      /\ UNCHANGED <<operationStep, graphicsData>>
  BY DEF Driver!RunInitDone, Driver!init_done, Driver!OperationDone
<1>3. FlagsInv'
  BY <1>1, <1>2 DEF FlagsInv, Dispatched
<1>4. TaskInv'
  BY <1>1, <1>2 DEF TaskInv, Dispatched, QuietStep, bufferVars, graphicsVars
<1>5. InitOpInv' /\ SendOpInv'
  BY <1>2 DEF InitOpInv, SendOpInv
<1>6. ModeInv'
  <2>1. panel.mode = 0 \/ Ruined
    BY <1>1, <1>2 DEF InitOpInv, Dispatched
  <2> QED
    BY <1>1, <2>1, RuinedKept DEF ModeInv, QuietStep
<1>7. Accounted'
  <2>1. OnItsWay \subseteq OnItsWay'
    BY <1>1, <1>2 DEF OnItsWay, Dispatched
  <2> QED
    BY <1>1, <2>1, AccountedKept DEF QuietStep
<1> QED
  BY <1>3, <1>4, <1>5, <1>6, <1>7 DEF DisplayInv

(* The steps of a send: column, page, data, done.                          *)
LEMMA SendColumnStep ==
    ASSUME DisplayInv, DriverRuns, Driver!RunSendColumn
    PROVE  DisplayInv'
<1>1. /\ Dispatched("send") /\ QuietStep /\ FlagsInv /\ TaskInv /\ SendOpInv /\ ModeInv /\ Accounted
  BY DispatchFacts, RunQuiet DEF DisplayInv, Driver!RunSendColumn
<1>2. operationStep = 16 /\ addressingMode = 0 /\ column = Columns /\ state = "send"
  BY <1>1 DEF Driver!RunSendColumn, Driver!data_set_col_position_step, TaskInv, SendOpInv, Dispatched
<1>3. /\ operationStep' = 17 /\ commandType' = "single"
      /\ command' = [reg |-> "column", args |-> Columns]
      /\ UNCHANGED <<state, graphicsData, result, failed>>
  <2>1. Driver!WindowCommand(Driver!SetColumns(column)) = [reg |-> "column", args |-> Columns]
    BY <1>2 DEF Driver!WindowCommand, Driver!PageMode, Driver!SetColumns, Driver!Command
  <2>2. [reg |-> "column", args |-> Columns] # Driver!Rejected
    <3>1. [reg |-> "column", args |-> Columns].reg # Driver!Rejected.reg
      BY DEF Driver!Rejected, Driver!Command
    <3> QED
      BY <3>1
  <2> QED
    BY <1>2, <2>1, <2>2 DEF Driver!RunSendColumn, Driver!StepCommand, Driver!history
<1>4. FlagsInv'
  BY <1>1, <1>3 DEF FlagsInv, Dispatched
<1>5. TaskInv'
  BY <1>1, <1>3, TaskKept
<1>6. InitOpInv' /\ ModeInv'
  BY <1>1, <1>2, <1>3, RuinedKept DEF InitOpInv, ModeInv, QuietStep, graphicsVars
<1>7. SendOpInv'
  <2>1. overtaken \/ Ruined \/ WindowOK
    BY <1>1, <1>2 DEF SendOpInv
  <2>2. ASSUME WindowOK PROVE WindowOK'
    <3>1. ~Over' /\ Pages' = Pages /\ page' = page /\ panel' = panel /\ failed' = failed
      BY <1>1, <1>3 DEF Over, Dispatched, Pages, QuietStep
    <3>2. page = Pages /\ ~failed /\ panel.mode = 0
      BY <1>2, <2>2 DEF WindowOK
    <3> QED
      BY <1>3, <3>1, <3>2 DEF WindowOK
  <2>3. overtaken' \/ Ruined' \/ WindowOK'
    BY <1>1, <2>1, <2>2, RuinedKept DEF QuietStep
  <2> QED
    BY <1>1, <1>2, <1>3, <2>3 DEF SendOpInv, QuietStep, Columns
<1>8. Accounted'
  <2>1. OnItsWay \subseteq OnItsWay'
    BY <1>1, <1>2, <1>3 DEF OnItsWay, Dispatched, Segments
  <2> QED
    BY <1>1, <2>1, AccountedKept DEF QuietStep
<1> QED
  BY <1>4, <1>5, <1>6, <1>7, <1>8 DEF DisplayInv

LEMMA SendPageStep ==
    ASSUME DisplayInv, DriverRuns, Driver!RunSendPage
    PROVE  DisplayInv'
<1>1. /\ Dispatched("send") /\ QuietStep /\ FlagsInv /\ TaskInv /\ SendOpInv /\ ModeInv /\ Accounted
  BY DispatchFacts, RunQuiet DEF DisplayInv, Driver!RunSendPage
<1>2. operationStep = 17 /\ addressingMode = 0 /\ column = Columns /\ state = "send"
  BY <1>1 DEF Driver!RunSendPage, Driver!data_set_page_position_step, TaskInv, SendOpInv, Dispatched
<1>3. /\ operationStep' = 18 /\ commandType' = "single"
      /\ command' = [reg |-> "page", args |-> page]
      /\ UNCHANGED <<state, graphicsData, result, failed>>
  <2>1. Driver!WindowCommand(Driver!SetPages(page)) = [reg |-> "page", args |-> page]
    BY <1>2 DEF Driver!WindowCommand, Driver!PageMode, Driver!SetPages, Driver!Command
  <2>2. [reg |-> "page", args |-> page] # Driver!Rejected
    <3>1. [reg |-> "page", args |-> page].reg # Driver!Rejected.reg
      BY DEF Driver!Rejected, Driver!Command
    <3> QED
      BY <3>1
  <2> QED
    BY <1>2, <2>1, <2>2 DEF Driver!RunSendPage, Driver!StepCommand, Driver!history
<1>4. FlagsInv'
  BY <1>1, <1>3 DEF FlagsInv, Dispatched
<1>5. TaskInv'
  BY <1>1, <1>3, TaskKept
<1>6. InitOpInv' /\ ModeInv'
  BY <1>1, <1>2, <1>3, RuinedKept DEF InitOpInv, ModeInv, QuietStep, graphicsVars
<1>7. SendOpInv'
  <2>1. overtaken \/ Ruined \/ WindowOK
    BY <1>1, <1>2 DEF SendOpInv
  <2>2. ASSUME WindowOK PROVE WindowOK'
    <3>1. ~Over' /\ Pages' = Pages /\ page' = page /\ panel' = panel /\ failed' = failed
      BY <1>1, <1>3 DEF Over, Dispatched, Pages, QuietStep
    <3>2. Over
      BY <1>1, <1>2 DEF SendOpInv, Dispatched, Over
    <3>3. page = Pages /\ ~failed /\ panel.mode = 0 /\ panel.column = Columns
      BY <1>2, <2>2, <3>2 DEF WindowOK
    <3>4. panel'.mode = 0 /\ panel'.column = Columns' /\ ~failed' /\ command'.args = Pages'
      BY <1>3, <3>1, <3>3 DEF Columns
    <3> QED
      BY <1>3, <3>1, <3>4 DEF WindowOK
  <2>3. overtaken' \/ Ruined' \/ WindowOK'
    BY <1>1, <2>1, <2>2, RuinedKept DEF QuietStep
  <2> QED
    BY <1>1, <1>2, <1>3, <2>3 DEF SendOpInv, QuietStep, Columns
<1>8. Accounted'
  <2>1. OnItsWay \subseteq OnItsWay'
    BY <1>1, <1>2, <1>3 DEF OnItsWay, Dispatched, Segments
  <2> QED
    BY <1>1, <2>1, AccountedKept DEF QuietStep
<1> QED
  BY <1>4, <1>5, <1>6, <1>7, <1>8 DEF DisplayInv

LEMMA SendBufferStep ==
    ASSUME DisplayInv, DriverRuns, Driver!RunSendBuffer
    PROVE  DisplayInv'
<1>1. /\ Dispatched("send") /\ QuietStep /\ FlagsInv /\ TaskInv /\ SendOpInv /\ ModeInv /\ Accounted
  BY DispatchFacts, RunQuiet DEF DisplayInv, Driver!RunSendBuffer
<1>2. /\ operationStep = 18 /\ column = Columns /\ state = "send"
      /\ operationStep' = 19 /\ commandType' = "data"
      /\ UNCHANGED <<state, graphicsData, result, failed>>
  BY <1>1 DEF Driver!RunSendBuffer, Driver!data_send_graphics_data_step, Driver!data_send_done,
              SendOpInv, Dispatched, Driver!history
<1>3. FlagsInv'
  BY <1>1, <1>2 DEF FlagsInv, Dispatched
<1>4. TaskInv'
  BY <1>1, <1>2, TaskKept
<1>5. InitOpInv' /\ ModeInv'
  BY <1>1, <1>2, RuinedKept DEF InitOpInv, ModeInv, QuietStep, graphicsVars
<1>6. SendOpInv'
  <2>1. overtaken \/ Ruined \/ WindowOK
    BY <1>1, <1>2 DEF SendOpInv
  <2>2. ASSUME WindowOK PROVE WindowOK'
    <3>1. Pages' = Pages /\ panel' = panel /\ failed' = failed
      BY <1>1, <1>2 DEF Pages, QuietStep
    <3>2. Over
      BY <1>1, <1>2 DEF SendOpInv, Dispatched, Over
    <3>3. ~failed /\ panel.mode = 0 /\ panel.column = Columns /\ panel.page = Pages
      BY <1>2, <2>2, <3>2 DEF WindowOK
    <3>4. panel'.mode = 0 /\ panel'.column = Columns' /\ ~failed' /\ panel'.page = Pages'
      BY <3>1, <3>3 DEF Columns
    <3> QED
      BY <1>2, <3>4 DEF WindowOK
  <2>3. overtaken' \/ Ruined' \/ WindowOK'
    BY <1>1, <2>1, <2>2, RuinedKept DEF QuietStep
  <2> QED
    BY <1>1, <1>2, <2>3 DEF SendOpInv, QuietStep, Columns
<1>7. Accounted'
  <2>1. OnItsWay \subseteq OnItsWay'
    BY <1>1, <1>2 DEF OnItsWay, Dispatched, Segments
  <2> QED
    BY <1>1, <2>1, AccountedKept DEF QuietStep
<1> QED
  BY <1>3, <1>4, <1>5, <1>6, <1>7 DEF DisplayInv

LEMMA SendDoneStep ==
    ASSUME DisplayInv, DriverRuns, Driver!RunSendDone
    PROVE  DisplayInv'
<1>1. /\ Dispatched("send") /\ QuietStep /\ FlagsInv /\ TaskInv /\ SendOpInv /\ ModeInv /\ Accounted
  BY DispatchFacts, RunQuiet DEF DisplayInv, Driver!RunSendDone
<1>2. /\ operationStep = 19 /\ state' = "idle" /\ commandType' = "none"
      /\ result' = [result EXCEPT ![operationResult] = "ok"]
      /\ UNCHANGED <<operationStep, graphicsData>>
  BY DEF Driver!RunSendDone, Driver!data_send_done, Driver!OperationDone
<1>3. FlagsInv'
  BY <1>1, <1>2 DEF FlagsInv, Dispatched
<1>4. TaskInv'
  BY <1>1, <1>2 DEF TaskInv, Dispatched, QuietStep, bufferVars, graphicsVars
<1>5. InitOpInv' /\ SendOpInv'
  BY <1>2 DEF InitOpInv, SendOpInv
<1>6. ModeInv'
  BY <1>1, RuinedKept DEF ModeInv, TaskInv, Dispatched, QuietStep, graphicsVars
<1>7. Accounted'
  <2>1. OnItsWay \subseteq OnItsWay'
    BY <1>1, <1>2 DEF OnItsWay, Dispatched, SendOpInv
  <2> QED
    BY <1>1, <2>1, AccountedKept DEF QuietStep
<1> QED
  BY <1>3, <1>4, <1>5, <1>6, <1>7 DEF DisplayInv

(* An idle run, and a run while a transfer is in flight or refused.        *)
LEMMA IdleStep ==
    ASSUME DisplayInv, DriverRuns, Driver!RunIdle
    PROVE  DisplayInv'
<1>1. PICK s \in {"idle", "single"} : Driver!Dispatch(s)
  BY DEF Driver!RunIdle
<1>2. /\ Dispatched("idle") /\ QuietStep /\ FlagsInv /\ TaskInv /\ ModeInv /\ Accounted
  <2>1. Dispatched(s)
    BY <1>1, DispatchFacts DEF DisplayInv
  <2>2. s = "idle"
    BY <2>1 DEF Dispatched, DisplayInv, FlagsInv
  <2> QED
    BY <2>1, <2>2, RunQuiet DEF DisplayInv
<1>3. commandType' = "none" /\ UNCHANGED <<state, operationStep, graphicsData, result>>
  BY DEF Driver!RunIdle, Driver!request
<1>4. FlagsInv'
  BY <1>2, <1>3 DEF FlagsInv, Dispatched
<1>5. TaskInv'
  BY <1>2, <1>3, TaskKept
<1>6. InitOpInv' /\ SendOpInv' /\ ModeInv'
  BY <1>2, <1>3, RuinedKept DEF InitOpInv, SendOpInv, ModeInv, Dispatched, QuietStep, graphicsVars
<1>7. Accounted'
  <2>1. OnItsWay \subseteq OnItsWay'
    BY <1>2, <1>3 DEF OnItsWay, Dispatched
  <2> QED
    BY <1>2, <2>1, AccountedKept DEF QuietStep
<1> QED
  BY <1>4, <1>5, <1>6, <1>7 DEF DisplayInv

LEMMA StutterStep ==
    ASSUME DisplayInv, UNCHANGED vars
    PROVE  DisplayInv'
<1>1. UNCHANGED <<driverVars, bufferVars, graphicsVars, displayVars, overtaken>>
  BY DEF vars
<1>2. FlagsInv' /\ TaskInv'
  BY <1>1, Zenon DEF DisplayInv, FlagsInv, TaskInv, Segments, driverVars, bufferVars, graphicsVars,
                     displayVars
<1>3. InitOpInv' /\ ModeInv'
  BY <1>1, Zenon DEF DisplayInv, InitOpInv, ModeInv, Over, Ruined, driverVars, graphicsVars, displayVars
<1>4. SendOpInv'
  BY <1>1, Zenon DEF DisplayInv, SendOpInv, WindowOK, Over, Ruined, Pages, driverVars, displayVars
<1>5. Accounted'
  <2>1. OnItsWay' = OnItsWay
    BY <1>1, Zenon DEF OnItsWay, Segments, driverVars, displayVars
  <2> QED
    BY <1>1, <2>1, AccountedKept DEF DisplayInv, displayVars
<1> QED
  BY <1>2, <1>3, <1>4, <1>5 DEF DisplayInv

LEMMA WaitStep ==
    ASSUME DisplayInv, DriverRuns, Driver!RunWaits \/ Driver!RunRefused
    PROVE  DisplayInv'
<1>1. UNCHANGED driverVars
  BY DEF Driver!RunWaits, Driver!RunRefused, Driver!Refuse, Driver!vars, Driver!request,
         Driver!pending, Driver!settings, Driver!history, driverVars
<1>2. UNCHANGED vars
  BY <1>1 DEF DriverRuns, driverVars, displayVars, vars
<1> QED
  BY <1>2, StutterStep

LEMMA TransmitStep ==
    ASSUME DisplayInv, DriverRuns, Driver!RunTransmits
    PROVE  DisplayInv'
<1>1. QuietStep /\ FlagsInv /\ TaskInv /\ InitOpInv /\ ModeInv /\ SendOpInv /\ Accounted
  BY RunQuiet DEF DisplayInv
<1>2. /\ ~operationOngoing /\ commandType # "none" /\ bus = "free" /\ bus' = Me
      /\ operationOngoing' = TRUE /\ commandResult' = "processing"
      /\ UNCHANGED <<state, operationStep, commandType, command, graphicsData, result, failed>>
  BY DEF Driver!RunTransmits, Driver!Accept, Driver!request, Driver!history, Me
<1>3. inFlight = {}
  BY <1>1, <1>2 DEF FlagsInv, Me
<1>4. inFlight' = IF commandType = "data" THEN Segments(graphicsData) ELSE {}
  BY <1>2, <1>3 DEF DriverRuns, Me
<1>5. FlagsInv'
  <2>1. inFlight' # {} => commandType' = "data" /\ inFlight' \subseteq Segments(graphicsData)'
    BY <1>2, <1>4 DEF Segments
  <2> QED
    BY <1>1, <1>2, <2>1 DEF FlagsInv
<1>6. TaskInv'
  BY <1>1, <1>2, TaskKept
<1>7. ~Over' /\ (Ruined' <=> Ruined)
  BY <1>1, <1>2, RuinedKept DEF Over, QuietStep
<1>8. InitOpInv' /\ ModeInv'
  BY <1>1, <1>2, <1>7 DEF InitOpInv, ModeInv, QuietStep, graphicsVars
<1>9. SendOpInv'
  <2>1. Pages' = Pages /\ UNCHANGED <<overtaken, panel, page, column>>
    BY <1>1, <1>2 DEF Pages, QuietStep
  <2>2. WindowOK => WindowOK'
    BY <1>2, <1>7, <2>1 DEF WindowOK, Columns
  <2> QED
    BY <1>1, <1>2, <1>7, <2>1, <2>2 DEF SendOpInv, Columns
<1>10. Accounted'
  <2>1. OnItsWay \subseteq OnItsWay'
    BY <1>1, <1>2, <1>3, <1>4 DEF OnItsWay, SendOpInv, Segments
  <2> QED
    BY <1>1, <2>1, AccountedKept DEF QuietStep
<1> QED
  BY <1>5, <1>6, <1>8, <1>9, <1>10 DEF DisplayInv

LEMMA DriverStep ==
    ASSUME DisplayInv, DriverRuns
    PROVE  DisplayInv'
<1>1. Driver!Run
  BY DEF DriverRuns
<1> QED
  BY <1>1, WaitStep, TransmitStep, IdleStep, InitDelayStep, InitStepStep, InitDoneStep,
     SendColumnStep, SendPageStep, SendBufferStep, SendDoneStep DEF Driver!Run

-----------------------------------------------------------------------------
(* The end of a transfer, well or badly.                                   *)

(* The registers the display is modelled with.                             *)
PanelInv == panel = [on |-> panel.on, mode |-> panel.mode, column |-> panel.column, page |-> panel.page]

LEMMA PanelCommands ==
    ASSUME PanelInv
    PROVE  LET next == Driver!PanelAfter(command)
           IN  /\ next = [on |-> next.on, mode |-> next.mode, column |-> next.column, page |-> next.page]
               /\ command.reg = "mode" => next.mode = command.args[1]
               /\ command.reg # "mode" => next.mode = panel.mode
               /\ command.reg = "column" => next.column = command.args
               /\ command.reg # "column" => next.column = panel.column
               /\ command.reg = "page" => next.page = command.args
<1> DEFINE next == Driver!PanelAfter(command)
<1> SUFFICES /\ next = [on |-> next.on, mode |-> next.mode, column |-> next.column, page |-> next.page]
             /\ command.reg = "mode" => next.mode = command.args[1]
             /\ command.reg # "mode" => next.mode = panel.mode
             /\ command.reg = "column" => next.column = command.args
             /\ command.reg # "column" => next.column = panel.column
             /\ command.reg = "page" => next.page = command.args
  OBVIOUS
<1> USE DEF PanelInv
<1>1. CASE command.reg = "display"
  BY <1>1 DEF Driver!PanelAfter
<1>2. CASE command.reg = "mode"
  BY <1>2 DEF Driver!PanelAfter
<1>3. CASE command.reg = "column"
  BY <1>3 DEF Driver!PanelAfter
<1>4. CASE command.reg = "page"
  BY <1>4 DEF Driver!PanelAfter
<1>5. CASE command.reg \notin {"display", "mode", "column", "page"}
  <2>1. next = panel
    BY <1>5 DEF Driver!PanelAfter
  <2> HIDE DEF next
  <2> QED
    BY <1>5, <2>1
<1> HIDE DEF next
<1> QED
  BY <1>1, <1>2, <1>3, <1>4, <1>5

(* What ends with a transfer, and what does not.                           *)
EndStep ==
    /\ bus = Me /\ bus' = "free"
    /\ commandResult' \in {"ok", "error"}
    /\ inFlight' = {}
    /\ UNCHANGED <<state, operationStep, commandType, operationOngoing, command, graphicsData,
                   result, addressingMode, column, page, bufferVars, graphicsVars, overtaken>>

LEMMA EndsSame ==
    ASSUME TransferSucceeds \/ TransferFails
    PROVE  EndStep
<1>1. Driver!TransferEnds /\ commandResult' \in {"ok", "error"}
  BY DEF TransferSucceeds, TransferFails, Driver!TransferSucceeds, Driver!TransferFails
<1>2. /\ bus = Me /\ bus' = "free"
      /\ UNCHANGED <<state, operationStep, commandType, operationOngoing, command, graphicsData,
                     result, addressingMode, column, page>>
  BY <1>1 DEF Driver!TransferEnds, Driver!Finish, Driver!request, Driver!settings, Me
<1> QED
  BY <1>1, <1>2 DEF EndStep, TransferSucceeds, TransferFails

LEMMA EndFacts ==
    ASSUME FlagsInv, TaskInv, EndStep
    PROVE  /\ FlagsInv' /\ TaskInv' /\ Over' /\ operationOngoing
           /\ state \in {"init", "send"} /\ commandType \in {"single", "data"}
           /\ commandType = "data" => state = "send"
           /\ state = "init" => inFlight = {}
<1>1. /\ bus = Me /\ bus' # Me /\ operationOngoing /\ operationOngoing' = operationOngoing
      /\ inFlight' = {}
  BY DEF EndStep, FlagsInv, Me
<1>2. FlagsInv'
  BY <1>1 DEF EndStep, FlagsInv
<1>3. TaskInv'
  BY DEF EndStep, TaskInv, bufferVars, graphicsVars
<1> QED
  BY <1>1, <1>2, <1>3 DEF FlagsInv, Over

LEMMA TransferSucceedsStep ==
    ASSUME DisplayInv, PanelInv, TransferSucceeds
    PROVE  DisplayInv'
<1>1. EndStep /\ FlagsInv /\ TaskInv /\ InitOpInv /\ ModeInv /\ SendOpInv /\ Accounted
  BY EndsSame DEF DisplayInv
<1>2. /\ FlagsInv' /\ TaskInv' /\ Over' /\ operationOngoing
      /\ state \in {"init", "send"} /\ commandType \in {"single", "data"}
      /\ commandType = "data" => state = "send"
      /\ state = "init" => inFlight = {}
  BY <1>1, EndFacts
<1>3. /\ panel' = IF commandType = "single" THEN Driver!PanelAfter(command) ELSE panel
      /\ failed' = failed
  BY DEF TransferSucceeds, Driver!TransferSucceeds, Driver!Received
<1>4. UNCHANGED <<state, operationStep, commandType, command, graphicsData, column, page,
                  overtaken, changed, graphicsState>> /\ Refused' = Refused
  BY <1>1, RefusedKept DEF EndStep, bufferVars, graphicsVars
<1>5. CASE state = "init"
  <2>1. operationStep \in 3..15 /\ commandType = "single"
    BY <1>1, <1>2, <1>5 DEF InitOpInv
  <2>2. UNCHANGED <<stale, lost>>
    BY <2>1 DEF TransferSucceeds
  <2>3. operationStep \in {14, 15} => panel'.mode = 0 \/ Ruined'
    <3>1. operationStep = 14 => panel'.mode = 0
      BY <1>1, <1>3, <1>5, <2>1, PanelCommands DEF InitOpInv
    <3>2. operationStep = 15 => panel'.mode = panel.mode
      BY <1>1, <1>3, <1>5, <2>1, PanelCommands DEF InitOpInv
    <3> QED
      BY <1>1, <1>5, <2>2, <3>1, <3>2, RuinedKept DEF InitOpInv
  <2>4. InitOpInv'
    BY <1>1, <1>4, <1>5, <2>1, <2>3 DEF InitOpInv
  <2>5. ModeInv' /\ SendOpInv'
    BY <1>4, <1>5 DEF ModeInv, SendOpInv
  <2>6. Accounted'
    BY <1>1, <1>2, <1>4, <1>5, <2>2 DEF Accounted, OnItsWay
  <2> QED
    BY <1>2, <2>4, <2>5, <2>6 DEF DisplayInv
<1>6. CASE state = "send" /\ commandType = "single"
  <2>1. operationStep \in {17, 18} /\ column = Columns
    BY <1>1, <1>6 DEF SendOpInv
  <2>2. UNCHANGED <<stale, lost>>
    BY <1>6 DEF TransferSucceeds
  <2>3. operationStep = 17 => command.reg = "column" /\ command.args = Columns
    BY <1>1, <1>6 DEF SendOpInv
  <2>4. operationStep = 18 => command.reg = "page"
    BY <1>1, <1>6 DEF SendOpInv
  <2>5. /\ panel'.mode = panel.mode
        /\ operationStep = 17 => panel'.column = Columns
        /\ operationStep = 18 => panel'.page = command.args /\ panel'.column = panel.column
    BY <1>3, <1>6, <2>1, <2>3, <2>4, PanelCommands
  <2>6. WindowOK => WindowOK'
    BY <1>3, <1>4, <2>1, <2>5 DEF WindowOK, Pages, Columns
  <2>7. SendOpInv'
    BY <1>1, <1>4, <1>6, <2>2, <2>6, RuinedKept DEF SendOpInv, Columns
  <2>8. ModeInv'
    BY <1>1, <1>4, <2>2, <2>5, RuinedKept DEF ModeInv
  <2>9. Accounted'
    <3>1. OnItsWay = Segments(graphicsData) /\ OnItsWay' = Segments(graphicsData)
      BY <1>4, <1>6, <2>1 DEF OnItsWay, Segments
    <3> QED
      BY <1>1, <1>4, <2>2, <3>1 DEF Accounted
  <2>10. InitOpInv'
    BY <1>4, <1>6 DEF InitOpInv
  <2> QED
    BY <1>2, <2>7, <2>8, <2>9, <2>10 DEF DisplayInv
<1>7. CASE state = "send" /\ commandType = "data"
  <2>1. operationStep = 19 /\ column = Columns /\ panel' = panel /\ inFlight' = {}
    BY <1>1, <1>3, <1>7 DEF SendOpInv, EndStep
  <2>2. Lands <=> WindowOK /\ ~Runaway(graphicsData)
    BY <2>1 DEF WindowOK, Lands, Columns, Pages, Driver!Horizontal
  <2>3. WindowOK => WindowOK'
    BY <1>3, <1>4, <2>1 DEF WindowOK, Pages, Columns
  <2>4. ~Lands => /\ stale' = Buffer!Positions
                  /\ lost' = IF Runaway(graphicsData) THEN Buffer!Positions ELSE lost
    BY <1>7 DEF TransferSucceeds
  <2>5. Lands => stale' = stale \ inFlight /\ lost' = lost \ inFlight
    BY <1>7 DEF TransferSucceeds
  <2>6. ~Lands => overtaken \/ Ruined'
    <3>1. CASE Runaway(graphicsData)
      BY <2>4, <3>1, FixedPositions DEF Ruined
    <3>2. CASE ~Runaway(graphicsData)
      <4>1. ~Lands => overtaken \/ Ruined
        BY <1>1, <1>7, <2>2, <3>2 DEF SendOpInv
      <4> QED
        BY <2>4, <3>2, <4>1, RuinedKept
    <3> QED
      BY <3>1, <3>2
  <2>7. SendOpInv'
    BY <1>1, <1>4, <1>7, <2>1, <2>2, <2>3, <2>6 DEF SendOpInv, Columns
  <2>8. ModeInv'
    <3>1. Lands => panel'.mode = 0
      BY <2>1, <2>2 DEF WindowOK
    <3>2. ~Lands => panel'.mode = 0 \/ Ruined' \/ graphicsState' = "init"
      <4>1. Ruined => Ruined' \/ Lands
        BY <2>4, FixedPositions DEF Ruined
      <4> QED
        BY <1>1, <1>4, <1>7, <2>1, <4>1 DEF ModeInv
    <3> QED
      BY <3>1, <3>2 DEF ModeInv
  <2>9. Accounted'
    <3>1. OnItsWay = inFlight /\ OnItsWay' = {}
      BY <1>2, <1>4, <1>7, <2>1 DEF OnItsWay, EndStep, Over
    <3>2. Lands => Accounted'
      BY <1>1, <1>4, <2>5, <3>1 DEF Accounted
    <3>3. ~Lands => Accounted'
      BY <1>4, <2>4, <2>6, FixedPositions DEF Accounted, Ruined
    <3> QED
      BY <3>2, <3>3
  <2>10. InitOpInv'
    BY <1>4, <1>7 DEF InitOpInv
  <2> QED
    BY <1>2, <2>7, <2>8, <2>9, <2>10 DEF DisplayInv
<1> QED
  BY <1>2, <1>5, <1>6, <1>7

LEMMA TransferFailsStep ==
    ASSUME DisplayInv, TransferFails
    PROVE  DisplayInv'
<1>1. EndStep /\ FlagsInv /\ TaskInv /\ InitOpInv /\ SendOpInv
  BY EndsSame DEF DisplayInv
<1>2. FlagsInv' /\ TaskInv'
  BY <1>1, EndFacts
<1>3. Ruined' /\ stale' = Buffer!Positions /\ lost' = Buffer!Positions
  BY DEF TransferFails, Ruined
<1>4. UNCHANGED <<state, operationStep, commandType, command, graphicsData, column>>
  BY <1>1 DEF EndStep
<1>5. InitOpInv' /\ ModeInv' /\ SendOpInv'
  BY <1>1, <1>3, <1>4 DEF InitOpInv, ModeInv, SendOpInv, Columns
<1>6. Accounted'
  BY <1>3 DEF Accounted
<1> QED
  BY <1>2, <1>5, <1>6 DEF DisplayInv

LEMMA OtherUserStep ==
    ASSUME DisplayInv, OtherUser
    PROVE  DisplayInv'
<1>1. FlagsInv /\ TaskInv /\ InitOpInv /\ ModeInv /\ SendOpInv /\ Accounted
  BY DEF DisplayInv
<1>2. bus # Me /\ bus' # Me
  <2>1. PICK u \in Users \ {Me} : Driver!Accept(u) \/ Driver!Finish(u)
    BY DEF OtherUser, Driver!OtherUser, Me
  <2> QED
    BY <2>1 DEF Driver!Accept, Driver!Finish, Me
<1>3. /\ UNCHANGED <<state, operationStep, commandType, operationOngoing, commandResult, command,
                     graphicsData, result, addressingMode, column, page, panel, failed>>
      /\ UNCHANGED <<stale, inFlight, lost, overtaken, bufferVars, graphicsVars>>
  BY DEF OtherUser, Driver!OtherUser, Driver!request, Driver!pending, Driver!settings,
         Driver!history, displayVars
<1>4. (Over' <=> Over) /\ (Ruined' <=> Ruined) /\ Pages' = Pages
  BY <1>2, <1>3, RuinedKept DEF Over, Pages
<1>5. FlagsInv'
  BY <1>1, <1>2, <1>3 DEF FlagsInv
<1>6. TaskInv'
  BY <1>1, <1>3, TaskKept DEF QuietStep
<1>7. InitOpInv' /\ ModeInv'
  BY <1>1, <1>3, <1>4 DEF InitOpInv, ModeInv, graphicsVars
<1>8. SendOpInv'
  <2>1. WindowOK => WindowOK'
    BY <1>3, <1>4 DEF WindowOK, Columns
  <2> QED
    BY <1>1, <1>3, <1>4, <2>1 DEF SendOpInv, Columns
<1>9. Accounted'
  <2>1. OnItsWay \subseteq OnItsWay'
    BY <1>3 DEF OnItsWay, Segments
  <2> QED
    BY <1>1, <1>3, <2>1, AccountedKept
<1> QED
  BY <1>5, <1>6, <1>7, <1>8, <1>9 DEF DisplayInv

-----------------------------------------------------------------------------
(* The application, and the runs of the graphics task.                     *)

LEMMA DriverUntouched ==
    ASSUME DisplayInv, UNCHANGED <<driverVars, lost, overtaken>>, inFlight' \subseteq inFlight,
           graphicsState' # "init" => graphicsState # "init"
    PROVE  /\ FlagsInv' /\ InitOpInv' /\ ModeInv' /\ SendOpInv'
           /\ OnItsWay \ (inFlight \ inFlight') \subseteq OnItsWay'
<1>1. FlagsInv /\ InitOpInv /\ ModeInv /\ SendOpInv
  BY DEF DisplayInv
<1>2. UNCHANGED <<bus, state, operationStep, commandType, operationOngoing, commandResult, command,
                  graphicsData, column, page, panel, failed, lost, overtaken>>
  BY DEF driverVars
<1>3. (Over' <=> Over) /\ (Ruined' <=> Ruined) /\ Pages' = Pages
  BY <1>2, RuinedKept DEF Over, Pages
<1>4. FlagsInv'
  <2>1. inFlight' # {} => inFlight # {}
    OBVIOUS
  <2>2. Segments(graphicsData)' = Segments(graphicsData)
    BY <1>2 DEF Segments
  <2> QED
    BY <1>1, <1>2, <2>1, <2>2 DEF FlagsInv
<1>5. InitOpInv' /\ ModeInv'
  BY <1>1, <1>2, <1>3 DEF InitOpInv, ModeInv
<1>6. SendOpInv'
  <2>1. WindowOK => WindowOK'
    BY <1>2, <1>3 DEF WindowOK, Columns
  <2> QED
    BY <1>1, <1>2, <1>3, <2>1 DEF SendOpInv, Columns
<1>7. OnItsWay \ (inFlight \ inFlight') \subseteq OnItsWay'
  BY <1>2 DEF OnItsWay, Segments
<1> QED
  BY <1>4, <1>5, <1>6, <1>7

(* Drawing: the segments S are written, and updateDirtyArea is called with *)
(* the corners of what was drawn.                                          *)
LEMMA DrawnStep ==
    ASSUME DisplayInv, ShowInv, ~isLocked, NEW S, Touch(S), changed' = changed \cup S,
           NEW left, NEW top \in Nat, NEW right, NEW bottom,
           Buffer!UpdateDirtyArea(left, top, right, bottom)
    PROVE  DisplayInv'
<1>1. UNCHANGED <<driverVars, graphicsVars, lost, overtaken>>
  BY DEF Touch
<1>2. stale' = stale \cup S /\ inFlight' = inFlight \ S
  BY DEF Touch
<1>3. /\ FlagsInv' /\ InitOpInv' /\ ModeInv' /\ SendOpInv'
      /\ OnItsWay \ (inFlight \ inFlight') \subseteq OnItsWay'
  BY <1>1, <1>2, DriverUntouched DEF graphicsVars
<1>4. TaskInv'
  <2>1. ASSUME isDirty, y1 = 0 PROVE isDirty' /\ y1' = 0
    <3>1. Buffer!Least(0, top) = 0
      BY DEF Buffer!Least
    <3>2. CASE Buffer!Refused(right, bottom)
      BY <2>1, <3>2, Zenon DEF Buffer!UpdateDirtyArea, Buffer!area
    <3>3. CASE ~Buffer!Refused(right, bottom)
      BY <2>1, <3>1, <3>3, Zenon DEF Buffer!UpdateDirtyArea
    <3> QED
      BY <3>2, <3>3
  <2> QED
    BY <1>1, <2>1 DEF DisplayInv, TaskInv, driverVars, graphicsVars
<1>5. Refused = {} /\ Refused' = {}
  <2>1. ~showRequested /\ ~showRequested'
    BY <1>1 DEF ShowInv, graphicsVars
  <2> QED
    BY <2>1 DEF Refused
<1>6. Accounted'
  <2>1. Accounted
    BY DEF DisplayInv
  <2>2. OnItsWay \subseteq OnItsWay' \cup S
    BY <1>2, <1>3
  <2> QED
    BY <1>1, <1>2, <1>5, <2>1, <2>2 DEF Accounted
<1> QED
  BY <1>3, <1>4, <1>6 DEF DisplayInv

LEMMA PixelStep ==
    ASSUME DisplayInv, ShowInv, NEW xPos \in Nat, NEW yPos \in Nat, DrawPixel(xPos, yPos)
    PROVE  DisplayInv'
<1>1. /\ ~isLocked /\ Touch({Buffer!SegmentOf(xPos, yPos)})
      /\ changed' = changed \cup {Buffer!SegmentOf(xPos, yPos)}
      /\ Buffer!UpdateDirtyArea(xPos, yPos \div 8, xPos, yPos \div 8)
  BY DEF DrawPixel, Buffer!SetPixel
<1>2. yPos \div 8 \in Nat
  OBVIOUS
<1> QED
  BY <1>1, <1>2, DrawnStep

LEMMA ObjectStep ==
    ASSUME DisplayInv, ShowInv, NEW x \in -128..127, NEW y \in -128..127, NEW width, NEW height,
           DrawObject(x, y, width, height)
    PROVE  DisplayInv'
<1>1. /\ ~isLocked /\ ~Buffer!Outside(x, y) /\ Touch(Buffer!BlitArea(x, y, width, height))
      /\ changed' = changed \cup Buffer!BlitArea(x, y, width, height)
      /\ Buffer!UpdateDirtyArea(x, y \div 8, Buffer!LastBlitColumn(x, width) % 256,
                                Buffer!LastBlitRow(y, height) % 256)
  BY DEF DrawObject, Buffer!Blit
<1>2. y >= 0
  BY <1>1, SizeAssumption DEF Buffer!Outside, Buffer!AsUnsigned, Buffer!MAX_Y
<1>3. y \div 8 \in Nat
  BY <1>2
<1> QED
  BY <1>1, <1>3, DrawnStep

LEMMA ShowRequestStep ==
    ASSUME DisplayInv, Show
    PROVE  DisplayInv'
<1>1. UNCHANGED <<driverVars, graphicsState, graphicsOngoing, stale, inFlight, lost, overtaken>>
  BY DEF Show, displayVars
<1>2. UNCHANGED <<x1, y1, x2, y2, isDirty, changed>> /\ showRequested' = TRUE
  BY DEF Show, Buffer!Lock, Buffer!area
<1>3. FlagsInv' /\ InitOpInv' /\ ModeInv' /\ SendOpInv' /\ OnItsWay \subseteq OnItsWay'
  BY <1>1, DriverUntouched
<1>4. TaskInv'
  BY <1>1, <1>2 DEF DisplayInv, TaskInv, driverVars
<1>5. Accounted'
  <2>1. Refused \subseteq Refused'
    BY <1>1, <1>2 DEF Refused, Buffer!DirtyBuffer, Buffer!DirtyBufferLen,
                      Buffer!FirstSegment, Buffer!LastSegment
  <2>2. Accounted
    BY DEF DisplayInv
  <2> QED
    BY <1>1, <1>2, <1>3, <2>1, <2>2 DEF Accounted
<1> QED
  BY <1>3, <1>4, <1>5 DEF DisplayInv

LEMMA RunIdleStep ==
    ASSUME DisplayInv, RunIdle
    PROVE  DisplayInv'
<1>1. /\ UNCHANGED <<driverVars, bufferVars, graphicsState, showRequested, stale, inFlight, lost,
                     overtaken>>
      /\ graphicsState = "wait"
  BY DEF RunIdle, Resumes, displayVars
<1>2. FlagsInv' /\ InitOpInv' /\ ModeInv' /\ SendOpInv' /\ OnItsWay \subseteq OnItsWay'
  BY <1>1, DriverUntouched
<1>3. TaskInv'
  BY <1>1 DEF DisplayInv, TaskInv, driverVars
<1>4. Accounted'
  BY <1>1, <1>2, RefusedKept DEF DisplayInv, Accounted, bufferVars
<1> QED
  BY <1>2, <1>3, <1>4 DEF DisplayInv

LEMMA RunSentStep ==
    ASSUME DisplayInv, RunSent
    PROVE  DisplayInv'
<1>1. /\ UNCHANGED <<driverVars, changed, stale, inFlight, lost, overtaken>>
      /\ graphicsState = "sent" /\ graphicsState' = "wait" /\ ~showRequested'
  BY DEF RunSent, Resumes, Buffer!Unlock, displayVars
<1>2. FlagsInv' /\ InitOpInv' /\ ModeInv' /\ SendOpInv' /\ OnItsWay \subseteq OnItsWay'
  BY <1>1, DriverUntouched
<1>3. TaskInv'
  BY <1>1 DEF DisplayInv, TaskInv, driverVars
<1>4. Accounted'
  <2>1. Refused = {}
    BY <1>1 DEF Refused
  <2> QED
    BY <1>1, <1>2, <2>1 DEF DisplayInv, Accounted
<1> QED
  BY <1>2, <1>3, <1>4 DEF DisplayInv

LEMMA RunInitStep ==
    ASSUME DisplayInv, RunInit
    PROVE  DisplayInv'
<1>1. /\ FlagsInv /\ TaskInv /\ Accounted
      /\ Driver!AcceptInit(Graphics) /\ addressingMode' = 0
      /\ graphicsState = "init" /\ graphicsState' = "clear" /\ graphicsOngoing' = TRUE
      /\ UNCHANGED <<bufferVars, stale, inFlight, lost, overtaken>>
  BY DEF DisplayInv, RunInit, Resumes, Driver!Horizontal, displayVars
<1>2. /\ state = "idle" /\ state' = "init" /\ operationStep' = 1
      /\ result' = [result EXCEPT ![Graphics] = "processing"]
      /\ UNCHANGED <<bus, commandType, operationOngoing, commandResult, graphicsData>>
  BY <1>1 DEF Driver!AcceptInit, Driver!init_delay_step, Driver!pending
<1>3. commandType = "none"
  BY <1>1, <1>2 DEF FlagsInv
<1>4. FlagsInv'
  BY <1>1, <1>2, <1>3 DEF FlagsInv
<1>5. TaskInv'
  BY <1>1, <1>2 DEF TaskInv, bufferVars
<1>6. InitOpInv' /\ ModeInv' /\ SendOpInv'
  BY <1>2, <1>3 DEF InitOpInv, ModeInv, SendOpInv
<1>7. Accounted'
  <2>1. Refused = {} /\ Refused' = {}
    BY <1>1 DEF Refused
  <2>2. OnItsWay = inFlight /\ OnItsWay' = inFlight
    BY <1>1, <1>2 DEF OnItsWay
  <2> QED
    BY <1>1, <2>1, <2>2 DEF Accounted, bufferVars
<1> QED
  BY <1>4, <1>5, <1>6, <1>7 DEF DisplayInv

(* The window of a run, for the first row of the dirty area.               *)
LEMMA WindowValues ==
    ASSUME BufferProofs!IInv, NEW first \in Nat, first <= y1, SetWindow(first)
    PROVE  /\ column' = Columns
           /\ page' = <<first, LastPage>>
           /\ (y1 * Width) \div Width = y1
           /\ addressingMode' = addressingMode
<1>1. y1 \in 0..(Rows - 1)
  <2>1. y1 \in 0..BufferProofs!MAX_Y_SEG
    BY DEF BufferProofs!IInv, BufferProofs!TypeOK
  <2>2. BufferProofs!MAX_Y_SEG = Rows - 1
    BY SizeAssumption DEF BufferProofs!MAX_Y_SEG, BufferProofs!MAX_Y
  <2> QED
    BY <2>1, <2>2
<1>2. LastColumn \in 0..127 /\ LastPage \in 0..7 /\ first < 8
  BY <1>1, SizeAssumption, WindowAssumption
<1>3. column' = Columns
  BY <1>2 DEF SetWindow, Driver!Window, Columns
<1>4. page' = <<first, LastPage>>
  BY <1>2 DEF SetWindow, Driver!Window
<1>5. (y1 * Width) \div Width = y1
  <2>1. Width \in 1..255 /\ y1 \in Nat
    BY <1>1, SizeAssumption
  <2> QED
    BY <2>1, BufferProofs!Division, BufferSize, BlitAssumption
<1> QED
  BY <1>3, <1>4, <1>5 DEF SetWindow

(* The driver takes the dirty area: with its window, and on the display    *)
(* that was initialised.                                                   *)
LEMMA TakenStep ==
    ASSUME DisplayInv, BufferProofs!IInv, graphicsState \in {"clear", "wait"},
           Buffer!GetDirtyAreaBuffer, SetWindow(y1), NEW next \in {"wait", "sent"}, DriverAccepts(next),
           UNCHANGED <<showRequested, stale, inFlight, lost>>
    PROVE  DisplayInv'
<1>1. FlagsInv /\ TaskInv /\ ModeInv /\ SendOpInv /\ Accounted
  BY DEF DisplayInv
<1>2. /\ state = "idle" /\ state' = "send" /\ operationStep' = 16
      /\ graphicsData' = <<Buffer!FirstSegment, Buffer!DirtyBufferLen>>
      /\ failed' = FALSE
      /\ UNCHANGED <<bus, commandType, operationOngoing, commandResult, command, result, panel>>
  BY DEF DriverAccepts, Driver!AcceptSend, Driver!data_set_col_position_step, Driver!pending,
         Driver!NewHistory
<1>3. commandType = "none" /\ inFlight = {} /\ inFlight' = {} /\ graphicsState' = next
  BY <1>1, <1>2 DEF FlagsInv, DriverAccepts
<1>4. isDirty' = FALSE /\ changed' = changed \ Buffer!DirtyBuffer
  BY DEF Buffer!GetDirtyAreaBuffer
<1>5. y1 \in Nat
  BY SizeAssumption DEF BufferProofs!IInv, BufferProofs!TypeOK, BufferProofs!MAX_Y_SEG, BufferProofs!MAX_Y
<1>6. /\ column' = Columns /\ page' = <<y1, LastPage>> /\ (y1 * Width) \div Width = y1
      /\ addressingMode' = addressingMode
  BY <1>5, WindowValues
<1>7. overtaken => overtaken'
  BY DEF SetWindow
<1>8. FlagsInv'
  BY <1>1, <1>2, <1>3 DEF FlagsInv
<1>9. TaskInv'
  BY <1>1, <1>2, <1>3, <1>6 DEF TaskInv
<1>10. InitOpInv'
  BY <1>2 DEF InitOpInv
<1>11. panel.mode = 0 \/ Ruined
  BY <1>1, <1>2 DEF ModeInv
<1>12. ModeInv'
  BY <1>2, <1>11, RuinedKept DEF ModeInv
<1>13. SendOpInv'
  <2>1. panel.mode = 0 => WindowOK'
    <3>1. Pages' = page'
      BY <1>2, <1>6 DEF Pages, Buffer!FirstSegment
    <3> QED
      BY <1>2, <3>1 DEF WindowOK
  <2> QED
    BY <1>2, <1>3, <1>6, <1>11, <2>1, RuinedKept DEF SendOpInv, Columns
<1>14. Accounted'
  <2>1. OnItsWay' = Buffer!DirtyBuffer
    BY <1>2 DEF OnItsWay, Segments, Buffer!DirtyBuffer
  <2>2. OnItsWay = {}
    BY <1>2, <1>3 DEF OnItsWay
  <2>3. Refused \subseteq Buffer!DirtyBuffer
    BY DEF Refused
  <2> QED
    BY <1>1, <1>4, <1>7, <2>1, <2>2, <2>3 DEF Accounted
<1> QED
  BY <1>8, <1>9, <1>10, <1>12, <1>13, <1>14 DEF DisplayInv

LEMMA RunClearStep ==
    ASSUME DisplayInv, BufferProofs!IInv, RunClear
    PROVE  DisplayInv'
<1>1. graphicsState = "clear"
  BY DEF RunClear, Resumes
<1>2. state = "idle" /\ y1 = 0
  BY <1>1 DEF DisplayInv, TaskInv, RunClear, Resumes
<1>3. /\ Buffer!GetDirtyAreaBuffer /\ SetWindow(y1) /\ DriverAccepts("wait")
      /\ UNCHANGED <<showRequested, stale, inFlight, lost>>
  BY <1>2 DEF RunClear, DriverRefuses, displayVars
<1> QED
  BY <1>1, <1>3, TakenStep

(* The driver is busy: the request stays, and with it what was taken from  *)
(* the framebuffer; the window of the send in progress may be moved.       *)
LEMMA BusyStep ==
    ASSUME DisplayInv, BufferProofs!IInv, RunShow, DriverRefuses
    PROVE  DisplayInv'
<1>1. FlagsInv /\ TaskInv /\ ModeInv /\ SendOpInv /\ Accounted
  BY DEF DisplayInv
<1>2. /\ graphicsState = "wait" /\ showRequested /\ SetWindow(y1) /\ state # "idle"
      /\ UNCHANGED <<graphicsState, showRequested, stale, inFlight, lost>>
  BY DEF RunShow, Resumes, DriverRefuses, displayVars
<1>3. state = "send"
  BY <1>1, <1>2 DEF TaskInv
<1>4. UNCHANGED <<bus, state, operationStep, commandType, operationOngoing, commandResult, command,
                  graphicsData, result, panel, failed>>
  BY DEF DriverRefuses, Driver!Reconfigure, Driver!request, Driver!pending
<1>5. isDirty' = FALSE /\ changed' = changed \ Buffer!DirtyBuffer /\ UNCHANGED <<x1, y1, x2, y2>>
  BY DEF RunShow, Buffer!GetDirtyAreaBuffer, Buffer!area
<1>6. y1 \in Nat
  BY SizeAssumption DEF BufferProofs!IInv, BufferProofs!TypeOK, BufferProofs!MAX_Y_SEG, BufferProofs!MAX_Y
<1>7. column' = Columns /\ addressingMode' = addressingMode
  BY <1>2, <1>6, WindowValues
<1>8. overtaken \/ (page' # page /\ operationStep <= 17) => overtaken'
  <2>1. overtaken \/ (state = "send" /\ page' # page /\ operationStep <= 17) => overtaken'
    BY <1>2, Zenon DEF SetWindow, Driver!data_set_page_position_step
  <2> QED
    BY <1>3, <2>1, Zenon
<1>9. FlagsInv'
  BY <1>1, <1>2, <1>4 DEF FlagsInv, Segments
<1>10. TaskInv'
  BY <1>1, <1>2, <1>3, <1>4, <1>7 DEF TaskInv
<1>11. InitOpInv'
  BY <1>3, <1>4 DEF InitOpInv
<1>12. (Over' <=> Over) /\ (Ruined' <=> Ruined) /\ Pages' = Pages
  BY <1>2, <1>4, RuinedKept DEF Over, Pages
<1>13. ModeInv'
  BY <1>1, <1>2, <1>4, <1>12 DEF ModeInv
<1>14. SendOpInv'
  <2>1. operationStep \in 16..19
    BY <1>1, <1>3 DEF SendOpInv
  <2>2. ASSUME WindowOK, ~overtaken' PROVE WindowOK'
    <3>1. operationStep \in {16, 17} => page' = page
      <4>1. ~(page' # page /\ operationStep <= 17)
        BY <1>8, <2>2, Zenon
      <4> QED
        BY <4>1
    <3> QED
      BY <1>4, <1>12, <2>2, <3>1 DEF WindowOK, Columns
  <2>3. overtaken => overtaken'
    BY <1>8, Zenon
  <2>4. overtaken' \/ Ruined' \/ WindowOK'
    BY <1>1, <1>3, <1>12, <2>2, <2>3 DEF SendOpInv
  <2> QED
    BY <1>1, <1>3, <1>4, <1>7, <2>4 DEF SendOpInv, Columns
<1>15. Accounted'
  <2>1. OnItsWay' = OnItsWay
    BY <1>2, <1>4 DEF OnItsWay, Segments
  <2>2. Refused' = Buffer!DirtyBuffer
    BY <1>2, <1>5 DEF Refused, Buffer!DirtyBuffer, Buffer!DirtyBufferLen,
                      Buffer!FirstSegment, Buffer!LastSegment
  <2>3. Refused \subseteq Buffer!DirtyBuffer
    BY DEF Refused
  <2> QED
    BY <1>1, <1>2, <1>5, <1>8, <2>1, <2>2, <2>3 DEF Accounted
<1> QED
  BY <1>9, <1>10, <1>11, <1>13, <1>14, <1>15 DEF DisplayInv

LEMMA RunShowStep ==
    ASSUME DisplayInv, BufferProofs!IInv, RunShow
    PROVE  DisplayInv'
<1>1. /\ graphicsState = "wait" /\ Buffer!GetDirtyAreaBuffer /\ SetWindow(y1)
      /\ UNCHANGED <<showRequested, stale, inFlight, lost>>
  BY DEF RunShow, Resumes, displayVars
<1>2. CASE DriverAccepts("sent")
  BY <1>1, <1>2, TakenStep
<1>3. CASE DriverRefuses
  BY <1>3, BusyStep
<1> QED
  BY <1>2, <1>3 DEF RunShow

-----------------------------------------------------------------------------
(* What the display is modelled with stays a record of its registers.      *)
LEMMA PanelStep ==
    ASSUME PanelInv, [Next]_vars
    PROVE  PanelInv'
<1>1. ASSUME panel' = panel PROVE PanelInv'
  BY <1>1 DEF PanelInv
<1>2. CASE TransferSucceeds \/ TransferFails
  <2>1. panel' = panel \/ panel' = Driver!PanelAfter(command)
    BY <1>2 DEF TransferSucceeds, TransferFails, Driver!TransferSucceeds, Driver!TransferFails,
                Driver!Received
  <2> QED
    BY <1>1, <2>1, PanelCommands DEF PanelInv
<1>3. CASE Application \/ RunIdle \/ RunSent \/ RunWaits \/ UNCHANGED vars
  BY <1>1, <1>3 DEF Application, DrawPixel, DrawObject, Touch, Show, RunIdle, RunSent, RunWaits,
                    vars, driverVars
<1>4. CASE RunInit \/ RunClear \/ RunShow
  BY <1>1, <1>4 DEF RunInit, RunClear, RunShow, DriverAccepts, DriverRefuses, Driver!AcceptInit,
                    Driver!AcceptSend, Driver!Reconfigure
<1>5. CASE DriverRuns
  BY <1>1, <1>5, RunQuiet DEF QuietStep
<1>6. CASE OtherUser
  BY <1>1, <1>6 DEF OtherUser, Driver!OtherUser
<1> QED
  BY <1>2, <1>3, <1>4, <1>5, <1>6 DEF Next, Run

LEMMA DisplayInit == Init => PanelInv /\ DisplayInv
<1> SUFFICES ASSUME Init PROVE PanelInv /\ DisplayInv
  OBVIOUS
<1>1. /\ Driver!Init /\ Buffer!Init /\ result = [c \in {Graphics} |-> "ok"]
      /\ graphicsState = "init" /\ stale = Buffer!Positions /\ inFlight = {}
  BY DEF Init
<1>2. /\ bus = "free" /\ state = "idle" /\ commandType = "none" /\ ~operationOngoing
      /\ panel = Driver!PanelAtReset
  BY <1>1 DEF Driver!Init, Driver!BusInit
<1>3. isDirty /\ y1 = 0 /\ changed = Buffer!Positions
  BY <1>1 DEF Buffer!Init
<1>4. PanelInv
  BY <1>2 DEF PanelInv, Driver!PanelAtReset
<1>5. FlagsInv
  BY <1>1, <1>2 DEF FlagsInv, Me
<1>6. TaskInv
  BY <1>1, <1>2, <1>3 DEF TaskInv
<1>7. InitOpInv /\ ModeInv /\ SendOpInv
  BY <1>1, <1>2 DEF InitOpInv, ModeInv, SendOpInv
<1>8. Accounted
  BY <1>1, <1>3 DEF Accounted
<1> QED
  BY <1>4, <1>5, <1>6, <1>7, <1>8 DEF DisplayInv

LEMMA DisplayStep ==
    ASSUME GInv, PanelInv, DisplayInv, [Next]_vars
    PROVE  DisplayInv'
<1>1. BufferProofs!IInv /\ ShowInv
  BY DEF GInv
<1>2. CASE Application
  <2>1. ASSUME NEW xPos \in 0..(Width - 1), NEW yPos \in 0..(8 * Rows - 1), DrawPixel(xPos, yPos)
        PROVE  DisplayInv'
    BY <1>1, <2>1, PixelStep
  <2>2. ASSUME NEW place \in BlitPlaces, NEW size \in BlitSizes,
               DrawObject(place[1], place[2], size[1], size[2])
        PROVE  DisplayInv'
    <3>1. place[1] \in -128..127 /\ place[2] \in -128..127
      BY BlitAssumption
    <3> QED
      BY <1>1, <2>2, <3>1, ObjectStep, Zenon
  <2> QED
    BY <1>2, <2>1, <2>2, ShowRequestStep DEF Application
<1>3. CASE Run
  <2>1. CASE RunWaits
    BY <2>1, StutterStep DEF RunWaits
  <2> QED
    BY <1>1, <1>3, <2>1, RunInitStep, RunClearStep, RunShowStep, RunIdleStep, RunSentStep DEF Run
<1> QED
  BY <1>2, <1>3, DriverStep, TransferSucceedsStep, TransferFailsStep, OtherUserStep, StutterStep
     DEF Next

(* The invariant that explains why nothing is forgotten holds of every     *)
(* reachable state: the driver sends what it was given with the window     *)
(* that belongs to it, unless the window was moved or a transfer failed.   *)
THEOREM DisplayInvariant == Spec => []DisplayInv
<1> DEFINE I == GInv /\ PanelInv /\ DisplayInv
<1>1. Init => I
  BY InitInv, DisplayInit
<1>2. I /\ [Next]_vars => I'
  BY StepInv, PanelStep, DisplayStep
<1> QED
  BY <1>1, <1>2, PTL DEF Spec

(* What has been drawn is on the display, or dirty, or on its way, or      *)
(* about to be taken again - or a transfer failed or a window was moved,   *)
(* for every size of the framebuffer and every object drawn.               *)
THEOREM Remembered == Spec => []NothingForgotten
<1>1. DisplayInv => NothingForgotten
  <2> SUFFICES ASSUME DisplayInv PROVE NothingForgotten
    OBVIOUS
  <2>1. OnItsWay \subseteq InDriver
    BY DEF DisplayInv, FlagsInv, OnItsWay, InDriver
  <2> QED
    BY <2>1 DEF DisplayInv, Accounted, NothingForgotten
<1> QED
  BY <1>1, DisplayInvariant, PTL

-----------------------------------------------------------------------------
(* The variables keep their types.  The one that takes an argument is the  *)
(* buffer of the display driver: it lies in the framebuffer unless the     *)
(* rows of the dirty rectangle are crossed, and then its length wraps.     *)

(* What the driver holds was handed over with its window; graphicsData is  *)
(* kept when the send is over.                                             *)
WindowHanded ==
    /\ column = Columns
    /\ page \in (0..LastPage) \X {LastPage}
    /\ Segments(graphicsData) \subseteq Buffer!Positions \/ Runaway(graphicsData)

HandedInv == state = "send" \/ graphicsData # NULL => WindowHanded

DisplayTypeOK ==
    /\ graphicsState \in {"init", "clear", "wait", "sent"}
    /\ {showRequested, graphicsOngoing, overtaken} \subseteq BOOLEAN
    /\ stale \subseteq Buffer!Positions
    /\ lost \subseteq Buffer!Positions

LEMMA SamePositions == Buffer!Positions = BufferProofs!Positions
BY DEF Buffer!Positions, BufferProofs!Positions, Buffer!Size, BufferProofs!Size

LEMMA SameType == BufferProofs!TypeOK => Buffer!TypeOK
<1>1. Buffer!Size = BufferProofs!Size
  BY DEF Buffer!Size, BufferProofs!Size
<1> QED
  BY <1>1, SamePositions, SameLimits, Zenon DEF Buffer!TypeOK, BufferProofs!TypeOK

(* What is drawn lies in the framebuffer, as its own invariant says.       *)
LEMMA TouchStep ==
    ASSUME DisplayTypeOK, BufferProofs!IInv', NEW segments, changed' = changed \cup segments,
           Touch(segments)
    PROVE  DisplayTypeOK'
<1>1. changed' \subseteq Buffer!Positions
  BY SamePositions DEF BufferProofs!IInv, BufferProofs!TypeOK
<1>2. UNCHANGED <<graphicsState, showRequested, graphicsOngoing, overtaken, lost>>
  BY DEF Touch, graphicsVars
<1>3. stale' \subseteq Buffer!Positions
  BY <1>1 DEF Touch, DisplayTypeOK
<1> QED
  BY <1>2, <1>3 DEF DisplayTypeOK, Buffer!Positions, Buffer!Size

LEMMA DriverDisplayType ==
    ASSUME DisplayTypeOK, DriverRuns \/ TransferSucceeds \/ TransferFails \/ OtherUser
    PROVE  DisplayTypeOK'
<1>1. UNCHANGED <<graphicsState, showRequested, graphicsOngoing, overtaken>>
  BY DEF DriverRuns, TransferSucceeds, TransferFails, OtherUser, graphicsVars
<1>2. stale' \subseteq Buffer!Positions /\ lost' \subseteq Buffer!Positions
  <2>1. CASE DriverRuns
    BY <2>1 DEF DriverRuns, DisplayTypeOK
  <2>2. CASE TransferSucceeds
    BY <2>2 DEF TransferSucceeds, DisplayTypeOK
  <2>3. CASE TransferFails
    BY <2>3 DEF TransferFails, DisplayTypeOK
  <2>4. CASE OtherUser
    BY <2>4 DEF OtherUser, displayVars, DisplayTypeOK
  <2> QED
    BY <2>1, <2>2, <2>3, <2>4
<1> QED
  BY <1>1, <1>2 DEF DisplayTypeOK, Buffer!Positions, Buffer!Size

LEMMA TaskDisplayType ==
    ASSUME DisplayTypeOK, Show \/ Run \/ UNCHANGED vars
    PROVE  DisplayTypeOK'
<1>1. UNCHANGED <<stale, lost, inFlight>>
  BY DEF Show, Run, RunWaits, RunInit, RunClear, RunShow, RunIdle, RunSent, vars, displayVars
<1>2. graphicsState' \in {"init", "clear", "wait", "sent"}
  BY DEF DisplayTypeOK, Show, Run, RunWaits, RunInit, RunClear, RunShow, RunIdle, RunSent,
         DriverAccepts, DriverRefuses, vars, graphicsVars
<1>3. showRequested' \in BOOLEAN /\ graphicsOngoing' \in BOOLEAN
  BY DEF DisplayTypeOK, Show, Run, RunWaits, RunInit, RunClear, RunShow, RunIdle, RunSent,
         DriverAccepts, DriverRefuses, vars, graphicsVars
<1>4. overtaken' \in BOOLEAN
  <2>1. CASE UNCHANGED overtaken
    BY <2>1 DEF DisplayTypeOK
  <2>2. ASSUME NEW first, SetWindow(first) PROVE overtaken' \in BOOLEAN
    BY <2>2 DEF SetWindow
  <2>3. CASE Show \/ RunWaits \/ RunInit \/ RunIdle \/ RunSent \/ UNCHANGED vars
    BY <2>1, <2>3 DEF Show, RunWaits, RunInit, RunIdle, RunSent, vars
  <2>4. CASE RunClear \/ RunShow
    BY <2>2, <2>4 DEF RunClear, RunShow
  <2> QED
    BY <2>3, <2>4 DEF Run
<1> QED
  BY <1>1, <1>2, <1>3, <1>4 DEF DisplayTypeOK, Buffer!Positions, Buffer!Size

(* What graphics_run hands over: the dirty buffer, which leaves the        *)
(* framebuffer only when nothing was drawn.                                *)
LEMMA BufferGiven ==
    ASSUME BufferProofs!IInv,
           graphicsData' = <<Buffer!FirstSegment, Buffer!DirtyBufferLen>>
    PROVE  \/ Segments(graphicsData') \subseteq Buffer!Positions
           \/ changed = {} /\ y1 > y2 /\ Runaway(graphicsData')
<1>1. /\ BufferProofs!RectOK /\ BufferProofs!DirtyCovers
      /\ BufferProofs!CopyInv
  BY DEF BufferProofs!IInv, BufferProofs!TypeOK, BufferProofs!RectOK
<1>2. Segments(graphicsData') = BufferProofs!DirtyBuffer
  BY DEF Segments, BufferProofs!DirtyBuffer, BufferProofs!DirtyBufferLen, Buffer!DirtyBufferLen,
         Buffer!FirstSegment, BufferProofs!FirstSegment, Buffer!LastSegment, BufferProofs!LastSegment
<1>3. \/ BufferProofs!DirtyBuffer \subseteq BufferProofs!Positions
      \/ y1 > y2 /\ changed = {}
  BY <1>1, BufferProofs!BufferHandedOver, BufferSize, BlitAssumption
<1>4. ASSUME y1 > y2 PROVE BufferProofs!DirtyBuffer \subseteq {} \/ Runaway(graphicsData')
  <2>1. BufferProofs!DirtyBufferLen = 0 \/ BufferProofs!DirtyBufferLen > 65536 - Width
    BY <1>1, <1>4, BufferProofs!CrossedLength, BufferSize, BlitAssumption DEF BufferProofs!CopyInv
  <2>2. BufferProofs!FirstSegment \in Int
    BY <1>1, BufferProofs!FirstLast, BufferSize, BlitAssumption DEF BufferProofs!Positions
  <2>3. BufferProofs!DirtyBufferLen = Buffer!DirtyBufferLen
    BY DEF BufferProofs!DirtyBufferLen, Buffer!DirtyBufferLen, Buffer!FirstSegment,
           BufferProofs!FirstSegment, Buffer!LastSegment, BufferProofs!LastSegment
  <2>4. CASE BufferProofs!DirtyBufferLen = 0
    BY <2>2, <2>4 DEF BufferProofs!DirtyBuffer
  <2>5. CASE BufferProofs!DirtyBufferLen > 65536 - Width
    BY <2>3, <2>5 DEF Runaway
  <2> QED
    BY <2>1, <2>4, <2>5
<1> QED
  BY <1>2, <1>3, <1>4, SamePositions

LEMMA HandOverStep ==
    ASSUME BufferProofs!IInv, HandedInv, NEW first \in Nat, first <= y1, SetWindow(first),
           NEW next, DriverAccepts(next) \/ DriverRefuses
    PROVE  HandedInv'
<1>1. column' = Columns /\ page' = <<first, LastPage>>
  BY WindowValues
<1>2. page' \in (0..LastPage) \X {LastPage}
  <2>1. y1 \in 0..BufferProofs!MAX_Y_SEG /\ BufferProofs!MAX_Y_SEG = LastPage
    BY SizeAssumption, WindowAssumption
       DEF BufferProofs!IInv, BufferProofs!TypeOK, BufferProofs!MAX_Y_SEG, BufferProofs!MAX_Y
  <2>2. LastPage \in Nat
    BY SizeAssumption, WindowAssumption
  <2> QED
    BY <1>1, <2>1, <2>2
<1>3. CASE DriverAccepts(next)
  <2>1. graphicsData' = <<Buffer!FirstSegment, Buffer!DirtyBufferLen>>
    BY <1>3 DEF DriverAccepts, Driver!AcceptSend
  <2>2. Segments(graphicsData)' \subseteq Buffer!Positions \/ Runaway(graphicsData)'
    BY <2>1, BufferGiven DEF Segments, Runaway
  <2>3. WindowHanded'
    BY <1>1, <1>2, <2>2 DEF WindowHanded, Columns, Buffer!Positions, Buffer!Size
  <2> QED
    BY <2>3 DEF HandedInv
<1>4. CASE DriverRefuses
  <2>1. UNCHANGED <<state, graphicsData>>
    BY <1>4 DEF DriverRefuses, Driver!Reconfigure, Driver!request
  <2> QED
    BY <1>1, <1>2, <2>1 DEF HandedInv, WindowHanded, Columns, Segments, Runaway, Buffer!Positions, Buffer!Size
<1> QED
  BY <1>3, <1>4

(* No other step sets the window or the buffer, or begins a send.          *)
LEMMA BufferSet ==
    ASSUME [Next]_vars, ~RunClear, ~RunShow
    PROVE  UNCHANGED <<column, page, graphicsData>> /\ (state' = "send" => state = "send")
<1>1. CASE Application \/ RunWaits \/ RunIdle \/ RunSent \/ UNCHANGED vars
  BY <1>1 DEF Application, DrawPixel, DrawObject, Touch, Show, RunWaits, RunIdle, RunSent, vars, driverVars
<1>2. CASE RunInit
  BY <1>2 DEF RunInit, Driver!AcceptInit
<1>3. CASE DriverRuns
  <2>1. Driver!Run /\ UNCHANGED <<column, page>>
    BY <1>3, RunQuiet DEF DriverRuns, QuietStep
  <2> QED
    BY <2>1, Zenon
       DEF Driver!Run, Driver!RunWaits, Driver!RunTransmits, Driver!RunRefused, Driver!RunIdle,
           Driver!RunInitDelay, Driver!RunInitStep, Driver!RunInitDone, Driver!RunSendColumn,
           Driver!RunSendPage, Driver!RunSendBuffer, Driver!RunSendDone, Driver!StepCommand,
           Driver!OperationDone, Driver!request, Driver!vars
<1>4. CASE TransferSucceeds \/ TransferFails \/ OtherUser
  BY <1>4 DEF TransferSucceeds, TransferFails, OtherUser, Driver!TransferSucceeds,
              Driver!TransferFails, Driver!TransferEnds, Driver!OtherUser, Driver!settings, Driver!request
<1> QED
  BY <1>1, <1>2, <1>3, <1>4 DEF Next, Run

LEMMA HandedKept ==
    ASSUME [Next]_vars, ~RunClear, ~RunShow, HandedInv
    PROVE  HandedInv'
<1>1. UNCHANGED <<column, page, graphicsData>> /\ (state' = "send" => state = "send")
  BY BufferSet
<1>2. WindowHanded => WindowHanded'
  BY <1>1 DEF WindowHanded, Columns, Segments, Runaway, Buffer!Positions, Buffer!Size
<1> QED
  BY <1>1, <1>2, Zenon DEF HandedInv

LEMMA TypeInit == Init => DisplayTypeOK /\ HandedInv
<1> SUFFICES ASSUME Init PROVE DisplayTypeOK /\ HandedInv
  OBVIOUS
<1>1. DisplayTypeOK
  BY DEF Init, DisplayTypeOK
<1>2. state # "send" /\ graphicsData = NULL
  BY DEF Init, Driver!Init
<1> QED
  BY <1>1, <1>2 DEF HandedInv

LEMMA TypeStep ==
    ASSUME GInv, GInv', DisplayInv, DisplayTypeOK, HandedInv, [Next]_vars
    PROVE  DisplayTypeOK' /\ HandedInv'
<1>1. BufferProofs!IInv /\ BufferProofs!IInv' /\ FlagsInv
  BY DEF GInv, DisplayInv
<1>2. DisplayTypeOK'
  <2>1. CASE \E xPos \in 0..(Width - 1), yPos \in 0..(8 * Rows - 1) : DrawPixel(xPos, yPos)
    BY <1>1, <2>1, TouchStep DEF DrawPixel, Buffer!SetPixel
  <2>2. CASE \E place \in BlitPlaces, size \in BlitSizes :
                 DrawObject(place[1], place[2], size[1], size[2])
    BY <1>1, <2>2, TouchStep DEF DrawObject, Buffer!Blit
  <2> QED
    BY <1>1, <2>1, <2>2, DriverDisplayType, TaskDisplayType DEF Next, Application
<1>3. HandedInv'
  <2>1. CASE RunClear
    <3>1. 0 \in Nat /\ 0 <= y1
      BY <1>1, SizeAssumption DEF BufferProofs!IInv, BufferProofs!TypeOK, BufferProofs!MAX_Y_SEG,
                                  BufferProofs!MAX_Y
    <3>2. SetWindow(0) /\ (DriverAccepts("wait") \/ DriverRefuses)
      BY <2>1 DEF RunClear
    <3> QED
      BY <1>1, <3>1, <3>2, HandOverStep
  <2>2. CASE RunShow
    <3>1. y1 \in Nat /\ y1 <= y1
      BY <1>1, SizeAssumption DEF BufferProofs!IInv, BufferProofs!TypeOK, BufferProofs!MAX_Y_SEG,
                                  BufferProofs!MAX_Y
    <3>2. SetWindow(y1) /\ (DriverAccepts("sent") \/ DriverRefuses)
      BY <2>2 DEF RunShow
    <3> QED
      BY <1>1, <3>1, <3>2, HandOverStep
  <2> QED
    BY <2>1, <2>2, HandedKept
<1> QED
  BY <1>2, <1>3

(* Every variable keeps its type, whatever is drawn: the window the driver *)
(* holds is on the display, and the buffer in the framebuffer or one whose *)
(* length has wrapped.                                                     *)
THEOREM TypeCorrect == Spec => []TypeOK
<1> DEFINE I == GInv /\ PanelInv /\ DisplayInv /\ DisplayTypeOK /\ HandedInv
<1>1. Init => I
  BY InitInv, DisplayInit, TypeInit
<1>2. I /\ [Next]_vars => I'
  BY StepInv, PanelStep, DisplayStep, TypeStep
<1>3. I => TypeOK
  <2> SUFFICES ASSUME I PROVE TypeOK
    OBVIOUS
  <2>1. Buffer!TypeOK
    BY SameType DEF GInv, BufferProofs!IInv
  <2> QED
    BY <2>1 DEF TypeOK, HandedInv, WindowHanded, DisplayTypeOK, Columns, DisplayInv, FlagsInv
<1> QED
  BY <1>1, <1>2, <1>3, PTL DEF Spec

(* The display driver is only given a buffer that leaves the framebuffer   *)
(* when no segment was drawn since the last one was taken: whenever there  *)
(* is something to show, graphics_run hands over bytes of the framebuffer. *)
THEOREM HandedInside ==
    Spec => [][graphicsData' # graphicsData =>
                  \/ Segments(graphicsData') \subseteq Buffer!Positions
                  \/ changed = {} /\ y1 > y2 /\ Runaway(graphicsData')]_vars
<1>1. ASSUME GInv, [Next]_vars, graphicsData' # graphicsData
      PROVE  \/ Segments(graphicsData') \subseteq Buffer!Positions
             \/ changed = {} /\ y1 > y2 /\ Runaway(graphicsData')
  <2>1. RunClear \/ RunShow
    BY <1>1, BufferSet
  <2>2. PICK next : DriverAccepts(next)
    BY <1>1, <2>1 DEF RunClear, RunShow, DriverRefuses, Driver!Reconfigure, Driver!request
  <2>3. graphicsData' = <<Buffer!FirstSegment, Buffer!DirtyBufferLen>>
    BY <2>2 DEF DriverAccepts, Driver!AcceptSend
  <2> QED
    BY <1>1, <2>3, BufferGiven DEF GInv
<1> QED
  BY <1>1, Inductive, PTL DEF Spec

-----------------------------------------------------------------------------
(* What the library promises: every step is one of GraphicsLibrary, or     *)
(* changes nothing in it.                                                  *)

(* Until the display has been cleared nothing is taken; what differs or    *)
(* may be spoilt is a segment of the framebuffer.                          *)
LibraryInv ==
    /\ graphicsState \in {"init", "clear"} => changed = Buffer!Positions
    /\ overtaken \in BOOLEAN
    /\ stale \subseteq Buffer!Positions
    /\ lost \subseteq Buffer!Positions

LEMMA LibraryInit == Init => LibraryInv /\ Promised!Init
<1> SUFFICES ASSUME Init PROVE LibraryInv /\ Promised!Init
  OBVIOUS
<1>1. changed = Buffer!Positions /\ state = "idle"
  BY DEF Init, Buffer!Init, Driver!Init
<1>2. Due = {}
  <2>1. OnItsWay = {} /\ Refused = {}
    BY <1>1 DEF Init, OnItsWay, Refused
  <2> QED
    BY <2>1 DEF Due
<1>3. LibraryInv
  BY <1>1 DEF Init, LibraryInv
<1>4. Promised!Init
  BY <1>1, <1>2 DEF Init, Promised!Init
<1> QED
  BY <1>3, <1>4

(* What is due only depends on the two sets it is made of.                 *)
LEMMA DueKept ==
    ASSUME OnItsWay' = OnItsWay, Refused' = Refused
    PROVE  Due' = Due
BY FixedPositions DEF Due

Unseen == UNCHANGED <<showRequested, changed, Due, stale, lost, overtaken>>

LEMMA StutterPromised == Unseen => UNCHANGED Promised!vars
BY Zenon DEF Unseen, Promised!vars

(* The application.                                                        *)
LEMMA DrawPromised ==
    ASSUME ShowInv, ~isLocked, NEW S, Touch(S), changed' = changed \cup S,
           changed' \subseteq Buffer!Positions
    PROVE  Promised!Next
<1>1. ~showRequested /\ UNCHANGED <<showRequested, lost, overtaken, driverVars>>
  BY DEF ShowInv, Touch, graphicsVars
<1>2. stale' = stale \cup S /\ inFlight' = inFlight \ S
  BY DEF Touch
<1>3. Refused = {} /\ Refused' = {}
  BY <1>1 DEF Refused
<1>4. OnItsWay' \subseteq OnItsWay /\ OnItsWay \ S \subseteq OnItsWay'
  BY <1>1, <1>2 DEF OnItsWay, Segments, driverVars
<1>5. Due' \subseteq Due /\ Due \ S \subseteq Due'
  BY <1>3, <1>4, FixedPositions DEF Due
<1>6. Promised!Draw(S)
  BY <1>1, <1>2, <1>5 DEF Promised!Draw, Promised!Leave
<1>7. S \in SUBSET Buffer!Positions
  OBVIOUS
<1> QED
  BY <1>6, <1>7 DEF Promised!Next

LEMMA ShowPromised ==
    ASSUME Show
    PROVE  Promised!Show
<1>1. UNCHANGED <<driverVars, graphicsState, stale, inFlight, lost, overtaken>>
  BY DEF Show, displayVars
<1>2. UNCHANGED <<x1, y1, x2, y2, isDirty, changed>> /\ showRequested' = TRUE
  BY DEF Show, Buffer!Lock, Buffer!area
<1>3. OnItsWay' = OnItsWay
  BY <1>1 DEF OnItsWay, Segments, driverVars
<1>4. Refused \subseteq Refused'
  BY <1>1, <1>2 DEF Refused, Buffer!DirtyBuffer, Buffer!DirtyBufferLen,
                    Buffer!FirstSegment, Buffer!LastSegment
<1>5. Due \subseteq Due'
  BY <1>3, <1>4, FixedPositions DEF Due
<1> QED
  BY <1>1, <1>2, <1>5 DEF Promised!Show

LEMMA ApplicationPromised ==
    ASSUME GInv, GInv', Application
    PROVE  Promised!Next
<1>1. ShowInv /\ changed' \subseteq Buffer!Positions
  BY SamePositions DEF GInv, BufferProofs!IInv, BufferProofs!TypeOK
<1>2. ASSUME NEW xPos, NEW yPos, DrawPixel(xPos, yPos) PROVE Promised!Next
  BY <1>1, <1>2, DrawPromised DEF DrawPixel, Buffer!SetPixel
<1>3. ASSUME NEW x, NEW y, NEW width, NEW height, DrawObject(x, y, width, height)
      PROVE  Promised!Next
  BY <1>1, <1>3, DrawPromised DEF DrawObject, Buffer!Blit
<1> QED
  BY <1>2, <1>3, ShowPromised DEF Application, Promised!Next

(* Taking: the dirty rectangle held all that was drawn.                    *)
LEMMA TakesAll ==
    ASSUME BufferProofs!IInv, Buffer!GetDirtyAreaBuffer
    PROVE  changed \subseteq Buffer!DirtyBuffer /\ changed' = {}
<1>1. BufferProofs!RectOK
  BY DEF BufferProofs!IInv, BufferProofs!TypeOK, BufferProofs!RectOK
<1>2. changed \subseteq BufferProofs!DirtyBuffer
  <2>1. changed \subseteq BufferProofs!DirtyArea
    BY DEF BufferProofs!IInv, BufferProofs!DirtyCovers
  <2>2. CASE BufferProofs!Proper
    BY <1>1, <2>1, <2>2, BufferProofs!BufferCovers, BufferSize, BlitAssumption
  <2>3. CASE ~BufferProofs!Proper
    BY <1>1, <2>1, <2>3, BufferProofs!ImproperEmpty, BufferSize, BlitAssumption
  <2> QED
    BY <2>2, <2>3
<1>3. Buffer!DirtyBuffer = BufferProofs!DirtyBuffer
  BY SMT DEF Buffer!DirtyBuffer, BufferProofs!DirtyBuffer,
       Buffer!DirtyBufferLen, BufferProofs!DirtyBufferLen,
       Buffer!FirstSegment, BufferProofs!FirstSegment, Buffer!LastSegment, BufferProofs!LastSegment
<1> QED
  BY <1>2, <1>3 DEF Buffer!GetDirtyAreaBuffer

LEMMA TakePromised ==
    ASSUME GInv, DisplayInv, LibraryInv, RunClear \/ RunShow
    PROVE  Promised!Take
<1>1. BufferProofs!IInv /\ FlagsInv /\ TaskInv
  BY DEF GInv, DisplayInv
<1>2. /\ Buffer!GetDirtyAreaBuffer
      /\ UNCHANGED <<showRequested, stale, inFlight, lost, x1, y1, x2, y2>>
  BY DEF RunClear, RunShow, displayVars, Buffer!GetDirtyAreaBuffer, Buffer!area
<1>3. changed \subseteq Buffer!DirtyBuffer /\ changed' = {} /\ isDirty' = FALSE
  BY <1>1, <1>2, TakesAll DEF Buffer!GetDirtyAreaBuffer
<1>4. showRequested \/ changed = Buffer!Positions
  BY DEF RunClear, RunShow, Resumes, LibraryInv
<1>5. overtaken' \in {overtaken, TRUE}
  BY DEF RunClear, RunShow, SetWindow, LibraryInv
<1>6. Buffer!DirtyBuffer \subseteq OnItsWay' \cup Refused' /\ OnItsWay \subseteq OnItsWay'
  <2>1. CASE \E next : DriverAccepts(next)
    <3>1. /\ state = "idle" /\ state' = "send" /\ operationStep' = 16
          /\ graphicsData' = <<Buffer!FirstSegment, Buffer!DirtyBufferLen>>
      BY <2>1 DEF DriverAccepts, Driver!AcceptSend, Driver!data_set_col_position_step
    <3>2. OnItsWay' = Buffer!DirtyBuffer
      BY <3>1 DEF OnItsWay, Segments, Buffer!DirtyBuffer
    <3>3. OnItsWay = {}
      BY <1>1, <3>1 DEF OnItsWay, FlagsInv
    <3> QED
      BY <3>2, <3>3
  <2>2. CASE DriverRefuses
    <3>1. UNCHANGED <<state, operationStep, operationOngoing, graphicsData, graphicsState>>
          /\ state # "idle"
      BY <2>2 DEF DriverRefuses, Driver!Reconfigure, Driver!request, Driver!pending
    <3>2. OnItsWay' = OnItsWay
      BY <1>2, <3>1 DEF OnItsWay, Segments
    <3>3. graphicsState = "wait" /\ showRequested
      BY <1>1, <3>1 DEF RunClear, RunShow, Resumes, TaskInv
    <3>4. Refused' = Buffer!DirtyBuffer
      BY <1>2, <1>3, <3>1, <3>3 DEF Refused, Buffer!DirtyBuffer, Buffer!DirtyBufferLen,
                        Buffer!FirstSegment, Buffer!LastSegment
    <3> QED
      BY <3>2, <3>4
  <2> QED
    BY <2>1, <2>2 DEF RunClear, RunShow
<1>7. changed \cup Due \subseteq Due'
  <2>1. Refused \subseteq Buffer!DirtyBuffer
    BY DEF Refused
  <2>2. changed \subseteq Buffer!Positions
    BY <1>1, SamePositions DEF BufferProofs!IInv, BufferProofs!TypeOK
  <2> QED
    BY <1>3, <1>6, <2>1, <2>2, FixedPositions DEF Due
<1> QED
  BY <1>2, <1>3, <1>4, <1>5, <1>7, Zenon DEF Promised!Take

(* The end of a show, and the runs of the graphics task that change        *)
(* nothing in what is promised.                                            *)
LEMMA ShowOverPromised ==
    ASSUME GInv, RunSent
    PROVE  Promised!ShowOver
<1>1. /\ graphicsState = "sent" /\ graphicsState' = "wait" /\ showRequested' = FALSE
      /\ UNCHANGED <<driverVars, changed, stale, inFlight, lost, overtaken>>
  BY DEF RunSent, Resumes, Buffer!Unlock, displayVars
<1>2. changed = {}
  BY <1>1 DEF GInv, ShowInv, BufferProofs!IInv, BufferProofs!DirtyCovers
<1>3. OnItsWay' = OnItsWay
  BY <1>1 DEF OnItsWay, Segments, driverVars
<1>4. Refused = {} /\ Refused' = {}
  BY <1>1 DEF Refused
<1> QED
  BY <1>1, <1>2, <1>3, <1>4, DueKept DEF Promised!ShowOver

LEMMA RunInitUnseen ==
    ASSUME FlagsInv, RunInit
    PROVE  Unseen
<1>1. /\ Driver!AcceptInit(Graphics)
      /\ graphicsState = "init" /\ graphicsState' = "clear"
      /\ UNCHANGED <<bufferVars, showRequested, stale, inFlight, lost, overtaken>>
  BY DEF RunInit, Resumes, displayVars
<1>2. state = "idle" /\ state' = "init"
  BY <1>1 DEF Driver!AcceptInit
<1>3. OnItsWay' = OnItsWay /\ Refused = {} /\ Refused' = {}
  BY <1>1, <1>2 DEF OnItsWay, Refused
<1> QED
  BY <1>1, <1>3, DueKept DEF Unseen, bufferVars

(* Whatever leaves framebuffer, graphics task and display alone changes    *)
(* nothing if it leaves what is on its way alone.                          *)
LEMMA QuietUnseen ==
    ASSUME UNCHANGED <<bufferVars, graphicsState, showRequested, stale, lost, overtaken>>,
           OnItsWay' = OnItsWay
    PROVE  Unseen
<1>1. Refused' = Refused /\ changed' = changed
  BY RefusedKept DEF bufferVars
<1> QED
  BY <1>1, DueKept DEF Unseen

LEMMA RestUnseen ==
    ASSUME RunIdle \/ RunWaits \/ OtherUser \/ UNCHANGED vars
    PROVE  Unseen
<1>1. /\ UNCHANGED <<bufferVars, graphicsState, showRequested, stale, inFlight, lost, overtaken>>
      /\ UNCHANGED <<state, operationStep, operationOngoing, graphicsData>>
  <2>1. CASE RunIdle \/ RunWaits \/ UNCHANGED vars
    BY <2>1 DEF RunIdle, RunWaits, vars, driverVars, graphicsVars, displayVars
  <2>2. CASE OtherUser
    BY <2>2 DEF OtherUser, graphicsVars, displayVars, Driver!OtherUser, Driver!request, Driver!pending
  <2> QED
    BY <2>1, <2>2
<1>2. OnItsWay' = OnItsWay
  BY <1>1 DEF OnItsWay, Segments
<1> QED
  BY <1>1, <1>2, QuietUnseen

(* The driver goes through a send without anything leaving what is on its  *)
(* way: before the transfer of the data that is all of it, and afterwards  *)
(* what the transfer has not delivered is drawn again or lost.             *)
LEMMA DispatchWay ==
    ASSUME NEW s, Dispatched(s),
           \/ state # "send" /\ state' # "send"
           \/ state = "send" /\ operationStep # 19 /\ state' = "send" /\ graphicsData' = graphicsData
           \/ state = "send" /\ operationStep = 19 /\ operationOngoing /\ state' # "send"
    PROVE  OnItsWay' = OnItsWay
BY DEF Dispatched, OnItsWay, Segments

LEMMA TransmitWay ==
    ASSUME FlagsInv, SendOpInv, DriverRuns, Driver!RunTransmits
    PROVE  OnItsWay' = OnItsWay
<1>1. /\ ~operationOngoing /\ commandType # "none" /\ bus = "free" /\ bus' = Me
      /\ operationOngoing' = TRUE
      /\ UNCHANGED <<state, operationStep, commandType, graphicsData>>
  BY DEF Driver!RunTransmits, Driver!Accept, Driver!request, Me
<1>2. inFlight = {}
  BY <1>1 DEF FlagsInv, Me
<1>3. inFlight' = IF commandType = "data" THEN Segments(graphicsData) ELSE {}
  BY <1>1, <1>2 DEF DriverRuns, Me
<1>4. state = "send" => (commandType = "data" <=> operationStep = 19)
  BY <1>1 DEF SendOpInv
<1>5. state # "send" => commandType # "data"
  BY DEF FlagsInv
<1> QED
  BY <1>1, <1>2, <1>3, <1>4, <1>5 DEF OnItsWay, Segments

LEMMA DriverUnseen ==
    ASSUME DisplayInv, DriverRuns
    PROVE  Unseen
<1>1. Driver!Run /\ FlagsInv /\ SendOpInv
  BY DEF DriverRuns, DisplayInv
<1>2. UNCHANGED <<bufferVars, graphicsState, showRequested, stale, lost, overtaken>>
  BY DEF DriverRuns, graphicsVars
<1>3. OnItsWay' = OnItsWay
  <2>1. CASE Driver!RunWaits \/ Driver!RunRefused
    <3>1. UNCHANGED <<bus, state, operationStep, operationOngoing, graphicsData>>
      BY <2>1 DEF Driver!RunWaits, Driver!RunRefused, Driver!Refuse, Driver!vars,
                  Driver!request, Driver!pending
    <3>2. inFlight' = inFlight
      BY <3>1 DEF DriverRuns
    <3> QED
      BY <3>1, <3>2 DEF OnItsWay, Segments
  <2>2. CASE Driver!RunTransmits
    BY <1>1, <2>2, TransmitWay
  <2>3. CASE Driver!RunIdle
    <3>1. PICK s \in {"idle", "single"} : Driver!Dispatch(s)
      BY <2>3 DEF Driver!RunIdle
    <3>2. Dispatched(s) /\ state # "send" /\ state' # "send"
      BY <1>1, <2>3, <3>1, DispatchFacts DEF Driver!RunIdle, Driver!request, Dispatched
    <3> QED
      BY <3>2, DispatchWay
  <2>4. CASE Driver!RunInitDelay \/ Driver!RunInitStep \/ Driver!RunInitDone
    <3>1. Dispatched("init")
      BY <1>1, <2>4, DispatchFacts
         DEF Driver!RunInitDelay, Driver!RunInitStep, Driver!RunInitDone
    <3>2. state' \in {state, "idle"}
      BY <2>4, Zenon
         DEF Driver!RunInitDelay, Driver!RunInitStep, Driver!RunInitDone, Driver!StepCommand,
             Driver!OperationDone
    <3>3. state # "send" /\ state' # "send"
      BY <3>1, <3>2 DEF Dispatched
    <3> QED
      BY <3>1, <3>3, DispatchWay
  <2>5. CASE Driver!RunSendColumn \/ Driver!RunSendPage \/ Driver!RunSendBuffer
    <3>1. /\ Dispatched("send") /\ operationStep \in {16, 17, 18}
          /\ state' = state /\ graphicsData' = graphicsData
      BY <1>1, <2>5, DispatchFacts
         DEF Driver!RunSendColumn, Driver!RunSendPage, Driver!RunSendBuffer, Driver!StepCommand,
             Driver!data_set_col_position_step, Driver!data_set_page_position_step,
             Driver!data_send_graphics_data_step
    <3>2. state = "send" /\ state' = "send" /\ operationStep # 19
      BY <3>1 DEF Dispatched
    <3> QED
      BY <3>1, <3>2, DispatchWay
  <2>6. CASE Driver!RunSendDone
    <3>1. Dispatched("send") /\ operationStep = 19 /\ state' = "idle"
      BY <1>1, <2>6, DispatchFacts DEF Driver!RunSendDone, Driver!data_send_done, Driver!OperationDone
    <3>2. state = "send" /\ operationOngoing
      BY <1>1, <3>1 DEF Dispatched, SendOpInv
    <3> QED
      BY <3>1, <3>2, DispatchWay
  <2> QED
    BY <1>1, <2>1, <2>2, <2>3, <2>4, <2>5, <2>6 DEF Driver!Run
<1> QED
  BY <1>2, <1>3, QuietUnseen

(* The ends of transfers: only the data of a send that lands arrives.      *)
LEMMA SucceedsPromised ==
    ASSUME DisplayInv, LibraryInv, TransferSucceeds
    PROVE  [Promised!Next]_(Promised!vars)
<1>1. EndStep /\ FlagsInv /\ TaskInv /\ InitOpInv /\ SendOpInv
  BY EndsSame DEF DisplayInv
<1>2. /\ operationOngoing /\ state \in {"init", "send"} /\ commandType \in {"single", "data"}
      /\ commandType = "data" => state = "send"
      /\ state = "init" => inFlight = {}
  BY <1>1, EndFacts
<1>3. /\ UNCHANGED <<state, operationStep, operationOngoing, graphicsData, changed,
                     showRequested, overtaken>>
      /\ Refused' = Refused /\ inFlight' = {}
  BY <1>1, RefusedKept DEF EndStep, bufferVars, graphicsVars
<1>4. CASE commandType = "single"
  <2>1. UNCHANGED <<stale, lost>>
    BY <1>4 DEF TransferSucceeds
  <2>2. state = "send" => operationStep # 19
    BY <1>1, <1>4 DEF SendOpInv
  <2>3. OnItsWay' = OnItsWay
    BY <1>2, <1>3, <2>2 DEF OnItsWay, Segments
  <2>4. Unseen
    BY <1>3, <2>1, <2>3, DueKept DEF Unseen
  <2> QED
    BY <2>4, StutterPromised
<1>5. CASE commandType = "data"
  <2>1. state = "send" /\ operationStep = 19
    BY <1>1, <1>2, <1>5 DEF SendOpInv
  <2>2. OnItsWay = inFlight /\ OnItsWay' = {}
    BY <1>2, <1>3, <2>1 DEF OnItsWay
  <2>3. Due' \subseteq Due
    BY <1>3, <2>2, FixedPositions DEF Due
  <2>4. CASE Lands
    <3> DEFINE S == inFlight \cap Buffer!Positions
    <3>1. stale' = stale \ S /\ lost' = lost \ S
      BY <1>5, <2>4 DEF TransferSucceeds, LibraryInv
    <3>2. S \subseteq Due /\ Due \ S \subseteq Due'
      BY <1>3, <2>2, FixedPositions DEF Due
    <3>3. S \in SUBSET Buffer!Positions
      OBVIOUS
    <3> HIDE DEF S
    <3>4. Promised!Arrives(S)
      BY <1>3, <2>3, <3>1, <3>2 DEF Promised!Arrives, Promised!Leave
    <3> QED
      BY <3>3, <3>4 DEF Promised!Next
  <2>5. CASE ~Lands
    <3>1. /\ stale' = Buffer!Positions
          /\ lost' = IF Runaway(graphicsData) THEN Buffer!Positions ELSE lost
      BY <1>5, <2>5 DEF TransferSucceeds
    <3>2. CASE Runaway(graphicsData)
      BY <1>3, <2>3, <3>1, <3>2 DEF Promised!Fails, Promised!Next
    <3>3. CASE ~Runaway(graphicsData)
      <4>1. ~WindowOK
        BY <2>1, <2>5, <3>3 DEF WindowOK, Lands, Columns, Pages, Driver!Horizontal
      <4>2. overtaken \/ Ruined
        BY <1>1, <2>1, <4>1 DEF SendOpInv
      <4>3. CASE overtaken
        BY <1>3, <2>3, <3>1, <3>3, <4>3 DEF Promised!Misplaced, Promised!Next
      <4>4. CASE Ruined
        BY <1>3, <2>3, <3>1, <3>3, <4>4 DEF Ruined, Promised!Fails, Promised!Next
      <4> QED
        BY <4>2, <4>3, <4>4
    <3> QED
      BY <3>2, <3>3
  <2> QED
    BY <2>4, <2>5
<1> QED
  BY <1>2, <1>4, <1>5

LEMMA FailsPromised ==
    ASSUME DisplayInv, TransferFails
    PROVE  Promised!Fails
<1>1. EndStep /\ FlagsInv /\ SendOpInv
  BY EndsSame DEF DisplayInv
<1>2. /\ UNCHANGED <<state, operationStep, operationOngoing, graphicsData, changed,
                     showRequested, overtaken>>
      /\ Refused' = Refused /\ inFlight' = {}
  BY <1>1, RefusedKept DEF EndStep, bufferVars, graphicsVars
<1>3. OnItsWay' \subseteq OnItsWay
  BY <1>2 DEF OnItsWay, Segments
<1>4. Due' \subseteq Due
  BY <1>2, <1>3, FixedPositions DEF Due
<1> QED
  BY <1>2, <1>4 DEF TransferFails, Promised!Fails

LEMMA LibraryStep ==
    ASSUME GInv, GInv', DisplayInv, LibraryInv, [Next]_vars
    PROVE  LibraryInv' /\ [Promised!Next]_(Promised!vars)
<1>1. changed' \subseteq Buffer!Positions
  BY SamePositions DEF GInv, BufferProofs!IInv, BufferProofs!TypeOK
<1>2. [Promised!Next]_(Promised!vars)
  <2>1. CASE Application
    BY <2>1, ApplicationPromised
  <2>2. CASE Run
    <3>1. CASE RunClear \/ RunShow
      BY <3>1, TakePromised DEF Promised!Next
    <3>2. CASE RunSent
      BY <3>2, ShowOverPromised DEF Promised!Next
    <3>3. CASE RunInit
      BY <3>3, RunInitUnseen, StutterPromised DEF DisplayInv
    <3> QED
      BY <2>2, <3>1, <3>2, <3>3, RestUnseen, StutterPromised DEF Run
  <2>3. CASE DriverRuns
    BY <2>3, DriverUnseen, StutterPromised
  <2>4. CASE TransferSucceeds
    BY <2>4, SucceedsPromised
  <2>5. CASE TransferFails
    BY <2>5, FailsPromised DEF Promised!Next
  <2> QED
    BY <2>1, <2>2, <2>3, <2>4, <2>5, RestUnseen, StutterPromised DEF Next
<1>3. overtaken' \in BOOLEAN /\ stale' \subseteq Buffer!Positions /\ lost' \subseteq Buffer!Positions
  <2>1. CASE UNCHANGED Promised!vars
    BY <2>1 DEF Promised!vars, LibraryInv
  <2>2. ASSUME NEW S \in SUBSET Buffer!Positions, Promised!Draw(S) \/ Promised!Arrives(S)
        PROVE  overtaken' \in BOOLEAN /\ stale' \subseteq Buffer!Positions /\ lost' \subseteq Buffer!Positions
    BY <2>2 DEF Promised!Draw, Promised!Arrives, LibraryInv
  <2>3. CASE Promised!Show \/ Promised!Take \/ Promised!ShowOver \/ Promised!Fails \/ Promised!Misplaced
    BY <2>3 DEF Promised!Show, Promised!Take, Promised!ShowOver, Promised!Fails,
                Promised!Misplaced, LibraryInv
  <2> QED
    BY <1>2, <2>1, <2>2, <2>3 DEF Promised!Next
<1>4. ASSUME graphicsState' \in {"init", "clear"} PROVE changed' = Buffer!Positions
  <2>1. graphicsState \in {"init", "clear"} /\ changed \subseteq changed'
    <3>1. CASE Application
      BY <1>4, <3>1 DEF Application, DrawPixel, DrawObject, Touch, Show, graphicsVars,
           Buffer!SetPixel, Buffer!Blit, Buffer!Lock
    <3>2. CASE RunClear \/ RunShow
      <4>1. CASE \E next \in {"wait", "sent"} : DriverAccepts(next)
        BY <1>4, <4>1 DEF DriverAccepts
      <4>2. CASE DriverRefuses
        <5>1. graphicsState = "clear" /\ state # "idle"
          BY <1>4, <3>2, <4>2 DEF DriverRefuses, RunClear, RunShow, Resumes
        <5> QED
          BY <3>2, <5>1 DEF DisplayInv, TaskInv, RunClear, RunShow, Resumes
      <4> QED
        BY <3>2, <4>1, <4>2 DEF RunClear, RunShow
    <3>3. CASE RunInit \/ RunSent
      BY <1>4, <3>3 DEF RunInit, RunSent, Resumes, bufferVars
    <3>4. CASE RunIdle \/ RunWaits \/ DriverRuns \/ TransferSucceeds \/ TransferFails
               \/ OtherUser \/ UNCHANGED vars
      BY <1>4, <3>4 DEF RunIdle, RunWaits, DriverRuns, TransferSucceeds, TransferFails, OtherUser,
           vars, bufferVars, graphicsVars
    <3> QED
      BY <3>1, <3>2, <3>3, <3>4 DEF Next, Run
  <2> QED
    BY <1>1, <2>1 DEF LibraryInv
<1> QED
  BY <1>2, <1>3, <1>4, FixedPositions DEF LibraryInv

(* The graphics library implements GraphicsLibrary, for every size of the  *)
(* framebuffer and everything drawn: what is drawn is taken when a show    *)
(* was asked for and not before, what is taken arrives or is lost to a     *)
(* failed transfer or a moved window, and a show is over when nothing that *)
(* was drawn is left to take.                                              *)
THEOREM ShowsAsPromised == Spec => ImplementsGraphicsLibrary
<1> DEFINE I == GInv /\ PanelInv /\ DisplayInv /\ LibraryInv
<1>1. Init => I /\ Promised!Init
  BY InitInv, DisplayInit, LibraryInit
<1>2. I /\ [Next]_vars => I' /\ [Promised!Next]_(Promised!vars)
  BY StepInv, PanelStep, DisplayStep, LibraryStep
<1> QED
  BY <1>1, <1>2, PTL DEF Spec, ImplementsGraphicsLibrary, Promised!Spec
=============================================================================
