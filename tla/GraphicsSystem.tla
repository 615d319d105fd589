-------------------------- MODULE GraphicsSystem ---------------------------
(***************************************************************************)
(* The graphics library at work: the application draws in the framebuffer  *)
(* and asks for it to be shown, the graphics task (src/graphics/graphics.c) *)
(* takes the dirty area and hands it to the display driver, and the driver *)
(* sends it over the bus that another driver shares.  The framebuffer and  *)
(* the display driver are the modules Framebuffer and Ssd1306; this module *)
(* adds the graphics task and the memory of the display.                   *)
(*                                                                         *)
(* The data of a transfer is read from the framebuffer while the transfer  *)
(* is in flight, so what the application draws meanwhile may or may not    *)
(* be part of it.                                                          *)
(***************************************************************************)
EXTENDS Integers

CONSTANTS
    Users, NULL, InitDelay, DelayMod,       \* as in Ssd1306
    Width, Rows, BlitPlaces, BlitSizes,     \* as in Framebuffer
    LastColumn, LastPage    \* 127 and 7: the window graphics_run asks for

(* The framebuffer fills the window, and the display has no more than 128  *)
(* columns and 8 pages.                                                    *)
ASSUME WindowAssumption == LastColumn = Width - 1 /\ LastPage = Rows - 1
ASSUME SizeAssumption   == Width \in 1..128 /\ Rows \in 1..8
ASSUME BlitAssumption   == /\ BlitPlaces \subseteq (-128..127) \X (-128..127)
                           /\ BlitSizes \subseteq (0..255) \X (0..255)
ASSUME UsersAssumption  == "ssd1306" \in Users /\ "free" \notin Users
ASSUME DelayAssumption  == InitDelay \in Nat /\ DelayMod \in Nat /\ InitDelay < DelayMod

VARIABLES                       \* of the bus and the display driver
    bus, state, operationStep, commandType, operationOngoing, commandResult, command,
    delayTime, addressingMode, column, page, graphicsData, operationResult, result,
    panel, transfers, waited, failed, reconfigured

VARIABLES                       \* of the framebuffer
    x1, y1, x2, y2, dataPos, error, isLocked, isDirty, changed, copied

VARIABLES                       \* of the graphics task
    graphicsState,              \* "init", "clear", "wait" or "sent"
    showRequested,
    graphicsOngoing             \* operationOngoing of graphics_t

(* The memory of the display: the segments that may show something else    *)
(* than the framebuffer holds.                                             *)
VARIABLE stale

(* History variables *)
VARIABLES
    inFlight,       \* segments being sent, and not drawn to since the transfer began
    lost,           \* segments that a failed transfer, or one of memory
                    \* behind the framebuffer, may have spoilt
    overtaken       \* the window of a send was moved before its pages were set

Graphics == "graphics"

(* What sendGraphicsData is given: the first segment and their number, a   *)
(* uint16_t.                                                               *)
Buffers == (0..(Width * Rows)) \X (0..65535)

ASSUME NullAssumption == NULL \notin {Graphics} \cup Buffers

Driver == INSTANCE Ssd1306 WITH
    Me <- "ssd1306", Clients <- {Graphics}, Bytes <- {}, ColumnInputs <- {}, PageInputs <- {}

Buffer == INSTANCE Framebuffer WITH BufferLens <- {}

driverVars == <<bus, state, operationStep, commandType, operationOngoing, commandResult,
                command, delayTime, addressingMode, column, page, graphicsData,
                operationResult, result, panel, transfers, waited, failed, reconfigured>>
bufferVars == <<x1, y1, x2, y2, dataPos, error, isLocked, isDirty, changed, copied>>
graphicsVars == <<graphicsState, showRequested, graphicsOngoing>>
displayVars  == <<stale, inFlight, lost>>
vars == <<driverVars, bufferVars, graphicsVars, displayVars, overtaken>>

Segments(buffer) == buffer[1]..(buffer[1] + buffer[2] - 1)

(* The length of a rectangle whose rows are crossed is negative by less    *)
(* than a row, and wraps: such a buffer runs far out of the framebuffer.   *)
Runaway(buffer) == buffer[2] > 65536 - Width

Init ==
    /\ Driver!Init
    /\ result = [c \in {Graphics} |-> "ok"]
    /\ Buffer!Init
    /\ graphicsState = "init"
    /\ showRequested = FALSE
    /\ graphicsOngoing = FALSE
    /\ stale = Buffer!Positions
    /\ inFlight = {}
    /\ lost = {}
    /\ overtaken = FALSE

-----------------------------------------------------------------------------
(* The application, which draws while the framebuffer is not locked *)

(* What is drawn differs from what the display shows, also if it is being  *)
(* sent.                                                                   *)
Touch(segments) ==
    /\ stale' = stale \cup segments
    /\ inFlight' = inFlight \ segments
    /\ UNCHANGED <<lost, overtaken, driverVars, graphicsVars>>

DrawPixel(xPos, yPos) ==
    Buffer!SetPixel(xPos, yPos) /\ Touch({Buffer!SegmentOf(xPos, yPos)})

DrawObject(x, y, width, height) ==
    Buffer!Blit(x, y, width, height) /\ Touch(Buffer!BlitArea(x, y, width, height))

(* Mutant: the framebuffer is not locked. *)
Show_unlocked ==
    /\ showRequested' = TRUE
    /\ UNCHANGED <<driverVars, bufferVars, graphicsState, graphicsOngoing, displayVars, overtaken>>

(* graphics_show *)
Show ==
    /\ Buffer!Lock
    /\ showRequested' = TRUE
    /\ UNCHANGED <<driverVars, graphicsState, graphicsOngoing, displayVars, overtaken>>

-----------------------------------------------------------------------------
(* graphics_run *)

(* The run goes on to state s, unless the display works on a request. *)
Resumes(s) ==
    /\ graphicsOngoing => result[Graphics] # "processing"
    /\ graphicsState = s

RunWaits ==
    /\ graphicsOngoing
    /\ result[Graphics] = "processing"
    /\ UNCHANGED vars

(* Mutant: the addressing mode is left as it was. *)
RunInit_any_mode ==
    /\ Resumes("init")
    /\ Driver!AcceptInit(Graphics)
    /\ UNCHANGED <<addressingMode, column, page>>
    /\ graphicsOngoing' = TRUE
    /\ graphicsState' = "clear"
    /\ UNCHANGED <<bufferVars, showRequested, displayVars, overtaken>>

(* state_init: the addressing mode set here is sent by the initialisation  *)
(* itself.                                                                 *)
RunInit ==
    /\ Resumes("init")
    /\ Driver!AcceptInit(Graphics)
    /\ addressingMode' = Driver!Horizontal
    /\ UNCHANGED <<column, page>>
    /\ graphicsOngoing' = TRUE
    /\ graphicsState' = "clear"
    /\ UNCHANGED <<bufferVars, showRequested, displayVars, overtaken>>

(* The window is set whether or not the driver takes the data; the driver  *)
(* sends the pages as they are when it comes to them.                      *)
SetWindow(firstPage) ==
    /\ column' = Driver!Window(column, <<0, LastColumn>>, 128)
    /\ page' = Driver!Window(page, <<firstPage, LastPage>>, 8)
    /\ UNCHANGED addressingMode
    /\ overtaken' = \/ overtaken
                    \/ /\ state = "send" /\ page' # page
                       /\ operationStep <= Driver!data_set_page_position_step

(* Mutant: one segment too many. *)
DriverAccepts_one_more(next) ==
    /\ Driver!AcceptSend(Graphics, <<Buffer!FirstSegment, Buffer!DirtyBufferLen + 1>>)
    /\ graphicsOngoing' = TRUE
    /\ graphicsState' = next

DriverAccepts(next) ==
    /\ Driver!AcceptSend(Graphics, <<Buffer!FirstSegment, Buffer!DirtyBufferLen>>)
    /\ graphicsOngoing' = TRUE
    /\ graphicsState' = next

(* Mutant: the answer is not looked at. *)
DriverRefuses_unnoticed ==
    /\ state # "idle"
    /\ Driver!Reconfigure
    /\ graphicsOngoing' = TRUE
    /\ graphicsState' = "sent"

DriverRefuses ==
    /\ state # "idle"
    /\ Driver!Reconfigure
    /\ graphicsOngoing' = FALSE
    /\ UNCHANGED graphicsState

(* state_clear_display *)
RunClear ==
    /\ Resumes("clear")
    /\ Buffer!GetDirtyAreaBuffer
    /\ SetWindow(0)
    /\ DriverAccepts("wait") \/ DriverRefuses
    /\ UNCHANGED <<showRequested, displayVars>>

(* Mutant: the window of the whole display for a part of the framebuffer. *)
RunShow_from_top ==
    /\ Resumes("wait")
    /\ showRequested
    /\ Buffer!GetDirtyAreaBuffer
    /\ SetWindow(0)
    /\ DriverAccepts("sent") \/ DriverRefuses
    /\ UNCHANGED <<showRequested, displayVars>>

(* Mutant: it is not asked whether there is a request. *)
RunShow_unasked ==
    /\ Resumes("wait")
    /\ Buffer!GetDirtyAreaBuffer
    /\ SetWindow(y1)
    /\ DriverAccepts("sent") \/ DriverRefuses
    /\ UNCHANGED <<showRequested, displayVars>>

(* state_wait_for_show_request *)
RunShow ==
    /\ Resumes("wait")
    /\ showRequested
    /\ Buffer!GetDirtyAreaBuffer
    /\ SetWindow(y1)
    /\ DriverAccepts("sent") \/ DriverRefuses
    /\ UNCHANGED <<showRequested, displayVars>>

RunIdle ==
    /\ Resumes("wait")
    /\ ~showRequested
    /\ graphicsOngoing' = FALSE
    /\ UNCHANGED <<driverVars, bufferVars, graphicsState, showRequested, displayVars, overtaken>>

(* Mutant: the framebuffer stays locked. *)
RunSent_locked ==
    /\ Resumes("sent")
    /\ graphicsState' = "wait"
    /\ showRequested' = FALSE
    /\ graphicsOngoing' = FALSE
    /\ UNCHANGED <<driverVars, bufferVars, displayVars, overtaken>>

(* state_data_sent *)
RunSent ==
    /\ Resumes("sent")
    /\ Buffer!Unlock
    /\ graphicsState' = "wait"
    /\ showRequested' = FALSE
    /\ graphicsOngoing' = FALSE
    /\ UNCHANGED <<driverVars, displayVars, overtaken>>

Run == RunWaits \/ RunInit \/ RunClear \/ RunShow \/ RunIdle \/ RunSent

-----------------------------------------------------------------------------
(* The display driver, the bus, and the memory of the display *)

DriverRuns ==
    /\ Driver!Run
    /\ inFlight' = IF bus' # bus /\ commandType = "data" THEN Segments(graphicsData) ELSE inFlight
    /\ UNCHANGED <<bufferVars, graphicsVars, stale, lost, overtaken>>

(* The data arrives where it belongs: the window of the controller begins  *)
(* at the row of the first segment, its position was reset, and no more    *)
(* is sent than the framebuffer holds.                                     *)
Lands ==
    /\ ~failed
    /\ ~Runaway(graphicsData)
    /\ panel.mode = Driver!Horizontal
    /\ panel.column = <<0, LastColumn>>
    /\ panel.page = <<graphicsData[1] \div Width, LastPage>>

TransferSucceeds ==
    /\ Driver!TransferSucceeds
    /\ IF commandType # "data" THEN UNCHANGED <<stale, lost>>
       ELSE IF Lands THEN stale' = stale \ inFlight /\ lost' = lost \ inFlight
       ELSE /\ stale' = Buffer!Positions
            /\ lost' = IF Runaway(graphicsData) THEN Buffer!Positions ELSE lost
    /\ inFlight' = {}
    /\ UNCHANGED <<bufferVars, graphicsVars, overtaken>>

(* After a failure anything may be on the display. *)
TransferFails ==
    /\ Driver!TransferFails
    /\ stale' = Buffer!Positions
    /\ lost' = Buffer!Positions
    /\ inFlight' = {}
    /\ UNCHANGED <<bufferVars, graphicsVars, overtaken>>

OtherUser ==
    /\ Driver!OtherUser
    /\ UNCHANGED <<bufferVars, graphicsVars, displayVars, overtaken>>

-----------------------------------------------------------------------------
Application ==
    \/ \E xPos \in 0..(Width - 1), yPos \in 0..(8 * Rows - 1) : DrawPixel(xPos, yPos)
    \/ \E place \in BlitPlaces, size \in BlitSizes :
           DrawObject(place[1], place[2], size[1], size[2])
    \/ Show

Next ==
    \/ Application \/ Run
    \/ DriverRuns \/ TransferSucceeds \/ TransferFails \/ OtherUser

(* The scheduler runs the graphics task for ever, and the display driver   *)
(* as in Ssd1306.                                                          *)
Fairness == WF_vars(Run) /\ Driver!Fairness

Spec == Init /\ [][Next]_vars /\ Fairness

-----------------------------------------------------------------------------
(* Properties *)

(* The variables of the graphics task and the display, and those of the    *)
(* driver that the graphics task sets: the window stays on the display,    *)
(* and the buffer in the framebuffer unless its length has wrapped.        *)
TypeOK ==
    /\ column = <<0, LastColumn>> \/ graphicsData = NULL
    /\ page \in (0..LastPage) \X {LastPage} \/ graphicsData = NULL
    /\ graphicsData # NULL =>
          Segments(graphicsData) \subseteq Buffer!Positions \/ Runaway(graphicsData)
    /\ Buffer!TypeOK
    /\ graphicsState \in {"init", "clear", "wait", "sent"}
    /\ {showRequested, graphicsOngoing, overtaken} \subseteq BOOLEAN
    /\ stale \subseteq Buffer!Positions
    /\ lost \subseteq Buffer!Positions
    /\ inFlight # {} => inFlight \subseteq Segments(graphicsData)

(* The lock and the show request, kept by two components, always agree,    *)
(* and once the data is handed over nothing drawn waits in the             *)
(* framebuffer: the request that is then taken back has been served.       *)
ShowInv ==
    /\ showRequested <=> isLocked
    /\ graphicsState = "sent" => showRequested /\ ~isDirty

(* Segments handed to the driver and not yet acknowledged; segments taken  *)
(* from the framebuffer that the driver refused, to be taken again.        *)
InDriver == IF state = "send" THEN Segments(graphicsData) ELSE {}
Refused  == IF graphicsState = "wait" /\ showRequested /\ ~isDirty
              THEN Buffer!DirtyBuffer ELSE {}

(* Nothing drawn is forgotten between the framebuffer, the graphics task   *)
(* and the driver: a segment that is not on the display is dirty, or on    *)
(* its way, or about to be taken again, or a transfer failed or was of     *)
(* memory behind the framebuffer - unless the window of a send was moved   *)
(* before its pages were sent.                                             *)
NothingForgotten ==
    overtaken \/ stale \subseteq changed \cup InDriver \cup Refused \cup lost

(* Taking back a show request loses nothing: whatever had been drawn       *)
(* before has been handed over.                                            *)
ShowNotLost ==
    [][showRequested /\ ~showRequested' => ~isDirty /\ changed = {}]_vars

(* A locked framebuffer is unlocked again, though the driver may be busy   *)
(* with the last show and transfers may fail.                              *)
ShowEnds == isLocked ~> ~isLocked

(* What has been taken from the framebuffer gets to the display, unless it *)
(* is drawn again, a transfer fails or is of memory behind the             *)
(* framebuffer, or the window is moved.                                    *)
Displayed ==
    \A pos \in Buffer!Positions :
        pos \in stale \ changed ~> \/ pos \notin stale
                                   \/ pos \in changed
                                   \/ pos \in lost
                                   \/ overtaken

-----------------------------------------------------------------------------
(* The invariant behind NothingForgotten *)

Me == "ssd1306"

(* The flags of ssd1306_run, the bus and what is in flight.  Steps are     *)
(* numbered as in ssd1306_operation_step_t.                                *)
FlagsInv ==
    /\ state \in {"idle", "init", "send"}
    /\ commandType \in {"none", "single", "data"}
    /\ operationOngoing => commandType # "none"
    /\ bus = Me => operationOngoing /\ commandResult = "processing"
    /\ state = "idle" => commandType = "none"
    /\ commandType = "data" => state = "send"
    /\ inFlight # {} => bus = Me /\ commandType = "data" /\ inFlight \subseteq Segments(graphicsData)

(* The graphics task and the driver: the display is initialised first, and *)
(* until it has been cleared the framebuffer is dirty from its first row.  *)
TaskInv ==
    /\ result \in [{Graphics} -> {"ok", "processing"}]
    /\ graphicsState \in {"init", "clear", "wait", "sent"}
    /\ graphicsState = "init" => state = "idle"
    /\ graphicsState = "clear" => state \in {"idle", "init"}
    /\ graphicsState \in {"wait", "sent"} => state \in {"idle", "send"}
    /\ graphicsState # "init" => addressingMode = 0
    /\ state = "init" => graphicsOngoing /\ result[Graphics] = "processing"
    /\ graphicsState \in {"init", "clear"} => isDirty /\ y1 = 0

(* A transfer failed or was of memory behind the framebuffer, and what is  *)
(* on the display is anybody's guess.                                      *)
Ruined == lost = Buffer!Positions

(* The transfer that was prepared has ended.                               *)
Over == operationOngoing /\ bus # Me

(* The initialisation puts the display in horizontal mode.                 *)
InitOpInv ==
    state = "init" =>
        /\ operationStep \in 1..15
        /\ operationStep \in {1, 2} => commandType = "none"
        /\ operationStep \notin {1, 2} => commandType = "single"
        /\ operationStep = 14 => command = [reg |-> "mode", args |-> <<0>>]
        /\ operationStep = 15 => command.reg = "display"
        /\ operationStep = 15 \/ (operationStep = 14 /\ Over) => panel.mode = 0 \/ Ruined

ModeInv == graphicsState # "init" /\ state # "init" => panel.mode = 0 \/ Ruined

(* The window a send must have, the place of its first segment.            *)
Columns == <<0, LastColumn>>
Pages   == <<graphicsData[1] \div Width, LastPage>>

WindowOK ==
    /\ ~failed
    /\ panel.mode = 0
    /\ operationStep \in {16, 17} => page = Pages
    /\ operationStep = 18 => command.args = Pages
    /\ operationStep \in {18, 19} \/ (operationStep = 17 /\ Over) => panel.column = Columns
    /\ operationStep = 19 \/ (operationStep = 18 /\ Over) => panel.page = Pages

SendOpInv ==
    state = "send" =>
        /\ operationStep \in 16..19
        /\ column = Columns
        /\ operationStep = 16 => commandType = "none"
        /\ operationStep = 17 => commandType = "single" /\ command = [reg |-> "column", args |-> Columns]
        /\ operationStep = 18 => commandType = "single" /\ command.reg = "page"
        /\ operationStep = 19 => commandType = "data"
        /\ overtaken \/ Ruined \/ WindowOK

(* What the driver has still to put on the bus, or has put there.          *)
OnItsWay ==
    IF state = "send" /\ ~(operationStep = 19 /\ operationOngoing)
      THEN Segments(graphicsData) ELSE inFlight

Accounted == overtaken \/ stale \subseteq changed \cup OnItsWay \cup Refused \cup lost

(* Why nothing is forgotten: the conjuncts above hold together.             *)
DisplayInv ==
    FlagsInv /\ TaskInv /\ InitOpInv /\ ModeInv /\ SendOpInv /\ Accounted

-----------------------------------------------------------------------------
(* The segments that have been taken from the framebuffer and are to get   *)
(* to the display.                                                         *)
Due == (OnItsWay \cup Refused) \cap Buffer!Positions

(* The library implements GraphicsLibrary: whatever driver and bus do,     *)
(* every step takes, delivers or loses what that specification lets it,    *)
(* and the request of a show is not over before all is taken.              *)
Promised == INSTANCE GraphicsLibrary WITH
    Positions <- Buffer!Positions,
    showing   <- showRequested,
    drawn     <- changed,
    due       <- Due,
    wrong     <- stale,
    moved     <- overtaken

ImplementsGraphicsLibrary == Promised!Spec

-----------------------------------------------------------------------------
(* graphics.h:8-12, a show sends the framebuffer data to the display, and  *)
(* new data can be put in when the contents has been sent: what was drawn  *)
(* is on the display, or on its way, or dirty, or a transfer failed.       *)
NothingLeftOut == stale \subseteq changed \cup InDriver \cup Refused \cup lost
=============================================================================
