------------------------ MODULE GraphicsDriverProofs ------------------------
(***************************************************************************)
(* The display driver inside the whole system: what Ssd1306Proofs and      *)
(* Ssd1306RefinementProofs show of the driver also holds when its client   *)
(* is the graphics task, which sets the mode and the window in the same    *)
(* run in which it asks for an operation, and whether or not the driver    *)
(* takes it.  Every step of the system is a step of the driver as a part   *)
(* of some system (OpenNext), or leaves it alone.                          *)
(***************************************************************************)
EXTENDS GraphicsProofs

DriverProofs == INSTANCE Ssd1306RefinementProofs WITH
    Me <- "ssd1306", Clients <- {Graphics}, Bytes <- {}, ColumnInputs <- {}, PageInputs <- {}

(* The assumptions of the driver's modules. *)
LEMMA DriverAssumptions ==
    /\ "ssd1306" \in Users
    /\ "free" \notin Users
    /\ NULL \notin {Graphics} \cup Buffers
    /\ InitDelay \in Nat /\ DelayMod \in Nat /\ InitDelay < DelayMod
    /\ {} \subseteq 0..255 /\ {} \subseteq (0..255) \X (0..255)
BY UsersAssumption, NullAssumption, DelayAssumption

-----------------------------------------------------------------------------
(* The driver of the system is the one those modules are about. *)

LEMMA SameDriverInit == Driver!Init => DriverProofs!Init
BY DEF Driver!Init, DriverProofs!Init, Driver!BusInit, DriverProofs!BusInit,
       Driver!none_step, DriverProofs!none_step, Driver!Rejected, DriverProofs!Rejected,
       Driver!Command, DriverProofs!Command, Driver!PageMode, DriverProofs!PageMode,
       Driver!Results, DriverProofs!Results, Driver!PanelAtReset, DriverProofs!PanelAtReset

LEMMA SameVars == Driver!vars = DriverProofs!vars
BY DEF Driver!vars, DriverProofs!vars, Driver!request, DriverProofs!request,
       Driver!pending, DriverProofs!pending, Driver!settings, DriverProofs!settings,
       Driver!history, DriverProofs!history

LEMMA SameCalls ==
    /\ Driver!AcceptInit(Graphics) => DriverProofs!AcceptInit(Graphics)
    /\ \A b : Driver!AcceptSend(Graphics, b) => DriverProofs!AcceptSend(Graphics, b)
    /\ Driver!Reconfigure => DriverProofs!Reconfigure
<1>1. Driver!AcceptInit(Graphics) => DriverProofs!AcceptInit(Graphics)
  BY DEF Driver!AcceptInit, DriverProofs!AcceptInit, Driver!init_delay_step,
         DriverProofs!init_delay_step, Driver!NewHistory, DriverProofs!NewHistory,
         Driver!pending, DriverProofs!pending
<1>2. ASSUME NEW b, Driver!AcceptSend(Graphics, b) PROVE DriverProofs!AcceptSend(Graphics, b)
  BY <1>2 DEF Driver!AcceptSend, DriverProofs!AcceptSend, Driver!data_set_col_position_step,
         DriverProofs!data_set_col_position_step, Driver!NewHistory, DriverProofs!NewHistory,
         Driver!pending, DriverProofs!pending
<1>3. Driver!Reconfigure => DriverProofs!Reconfigure
  BY Zenon DEF Driver!Reconfigure, DriverProofs!Reconfigure, Driver!settings, DriverProofs!settings,
         Driver!request, DriverProofs!request, Driver!pending, DriverProofs!pending
<1> QED
  BY <1>1, <1>2, <1>3

(* The commands are the same. *)
LEMMA SameScript ==
    ASSUME NEW mode
    PROVE  Driver!InitScript(mode) = DriverProofs!InitScript(mode)
BY Zenon
   DEF Driver!InitScript, DriverProofs!InitScript, Driver!Command, DriverProofs!Command,
       Driver!Rejected, DriverProofs!Rejected, Driver!SetMultiplexRatio,
       DriverProofs!SetMultiplexRatio, Driver!SetDisplayOffset, DriverProofs!SetDisplayOffset,
       Driver!SetDisplayStartLine, DriverProofs!SetDisplayStartLine, Driver!SetSegmentRemap,
       DriverProofs!SetSegmentRemap, Driver!SetScanDirection, DriverProofs!SetScanDirection,
       Driver!SetComPins, DriverProofs!SetComPins, Driver!SetContrast, DriverProofs!SetContrast,
       Driver!SetPixels, DriverProofs!SetPixels, Driver!SetInverted, DriverProofs!SetInverted,
       Driver!SetDisplayClock, DriverProofs!SetDisplayClock, Driver!SetChargePump,
       DriverProofs!SetChargePump, Driver!SetAddressingMode, DriverProofs!SetAddressingMode,
       Driver!SetDisplay, DriverProofs!SetDisplay

LEMMA SameCommands ==
    /\ Driver!Rejected = DriverProofs!Rejected
    /\ \A c : Driver!WindowCommand(c) = DriverProofs!WindowCommand(c)
    /\ \A w : Driver!SetColumns(w) = DriverProofs!SetColumns(w)
    /\ \A w : Driver!SetPages(w) = DriverProofs!SetPages(w)
    /\ \A c : Driver!PanelAfter(c) = DriverProofs!PanelAfter(c)
    /\ Driver!Received = DriverProofs!Received
BY Zenon
   DEF Driver!Rejected, DriverProofs!Rejected, Driver!Command, DriverProofs!Command,
       Driver!WindowCommand, DriverProofs!WindowCommand, Driver!PageMode, DriverProofs!PageMode,
       Driver!SetColumns, DriverProofs!SetColumns, Driver!SetPages, DriverProofs!SetPages,
       Driver!PanelAfter, DriverProofs!PanelAfter, Driver!Received, DriverProofs!Received

(* So are the runs of the driver and the steps of the bus. *)
LEMMA SameDispatch ==
    /\ \A s : Driver!Dispatch(s) => DriverProofs!Dispatch(s)
    /\ \A c : Driver!StepCommand(c) => DriverProofs!StepCommand(c)
    /\ Driver!OperationDone => DriverProofs!OperationDone
<1>1. \A s : Driver!Dispatch(s) => DriverProofs!Dispatch(s)
  BY Zenon DEF Driver!Dispatch, DriverProofs!Dispatch, Driver!settings, DriverProofs!settings
<1>2. \A c : Driver!StepCommand(c) => DriverProofs!StepCommand(c)
  BY SameCommands, Zenon DEF Driver!StepCommand, DriverProofs!StepCommand, Driver!history,
                             DriverProofs!history
<1>3. Driver!OperationDone => DriverProofs!OperationDone
  BY Zenon DEF Driver!OperationDone, DriverProofs!OperationDone, Driver!NewHistory,
               DriverProofs!NewHistory
<1> QED
  BY <1>1, <1>2, <1>3

LEMMA SameRun == Driver!Run => DriverProofs!Run
<1>1. Driver!RunWaits => DriverProofs!RunWaits
  BY Zenon
     DEF Driver!RunWaits, DriverProofs!RunWaits,
         Driver!vars, DriverProofs!vars,
         Driver!request, DriverProofs!request, Driver!pending, DriverProofs!pending,
         Driver!settings, DriverProofs!settings, Driver!history, DriverProofs!history
<1>2. Driver!RunTransmits => DriverProofs!RunTransmits
  BY Zenon
     DEF Driver!RunTransmits, DriverProofs!RunTransmits, Driver!Accept, DriverProofs!Accept,
         Driver!request, DriverProofs!request, Driver!pending, DriverProofs!pending,
         Driver!settings, DriverProofs!settings, Driver!history, DriverProofs!history
<1>3. Driver!RunRefused => DriverProofs!RunRefused
  BY Zenon
     DEF Driver!RunRefused, DriverProofs!RunRefused, Driver!Refuse, DriverProofs!Refuse,
         Driver!request, DriverProofs!request, Driver!pending, DriverProofs!pending,
         Driver!settings, DriverProofs!settings, Driver!history, DriverProofs!history
<1>4. Driver!RunIdle => DriverProofs!RunIdle
  BY SameDispatch, Zenon
     DEF Driver!RunIdle, DriverProofs!RunIdle,
         Driver!request, DriverProofs!request, Driver!pending, DriverProofs!pending,
         Driver!settings, DriverProofs!settings, Driver!history, DriverProofs!history
<1>5. Driver!RunInitDelay => DriverProofs!RunInitDelay
  BY SameDispatch, Zenon
     DEF Driver!RunInitDelay, DriverProofs!RunInitDelay, Driver!init_delay_step,
         DriverProofs!init_delay_step, Driver!init_first_step, DriverProofs!init_first_step
<1>6. Driver!RunInitStep => DriverProofs!RunInitStep
  BY SameDispatch, SameScript, Zenon
     DEF Driver!RunInitStep, DriverProofs!RunInitStep, Driver!init_first_step,
         DriverProofs!init_first_step, Driver!init_last_step, DriverProofs!init_last_step
<1>7. Driver!RunInitDone => DriverProofs!RunInitDone
  BY SameDispatch, Zenon
     DEF Driver!RunInitDone, DriverProofs!RunInitDone, Driver!init_done, DriverProofs!init_done
<1>8. Driver!RunSendColumn => DriverProofs!RunSendColumn
  BY SameDispatch, SameCommands, Zenon
     DEF Driver!RunSendColumn, DriverProofs!RunSendColumn, Driver!data_set_col_position_step,
         DriverProofs!data_set_col_position_step
<1>9. Driver!RunSendPage => DriverProofs!RunSendPage
  BY SameDispatch, SameCommands, Zenon
     DEF Driver!RunSendPage, DriverProofs!RunSendPage, Driver!data_set_page_position_step,
         DriverProofs!data_set_page_position_step
<1>10. Driver!RunSendBuffer => DriverProofs!RunSendBuffer
  BY SameDispatch, Zenon
     DEF Driver!RunSendBuffer, DriverProofs!RunSendBuffer, Driver!data_send_graphics_data_step,
         DriverProofs!data_send_graphics_data_step, Driver!data_send_done,
         DriverProofs!data_send_done,
         Driver!request, DriverProofs!request, Driver!pending, DriverProofs!pending,
         Driver!settings, DriverProofs!settings, Driver!history, DriverProofs!history
<1>11. Driver!RunSendDone => DriverProofs!RunSendDone
  BY SameDispatch, Zenon
     DEF Driver!RunSendDone, DriverProofs!RunSendDone, Driver!data_send_done,
         DriverProofs!data_send_done
<1> QED
  BY <1>1, <1>2, <1>3, <1>4, <1>5, <1>6, <1>7, <1>8, <1>9, <1>10, <1>11 DEF Driver!Run, DriverProofs!Run

LEMMA SameBus ==
    /\ Driver!TransferSucceeds => DriverProofs!TransferSucceeds
    /\ Driver!TransferFails => DriverProofs!TransferFails
    /\ Driver!OtherUser => DriverProofs!OtherUser
<1>1. Driver!TransferEnds => DriverProofs!TransferEnds
  BY Zenon DEF Driver!TransferEnds, DriverProofs!TransferEnds, Driver!Finish,
                         DriverProofs!Finish,
                         Driver!request, DriverProofs!request, Driver!pending, DriverProofs!pending,
                         Driver!settings, DriverProofs!settings, Driver!history, DriverProofs!history
<1>2. Driver!TransferSucceeds => DriverProofs!TransferSucceeds
  BY <1>1, SameCommands, Zenon DEF Driver!TransferSucceeds, DriverProofs!TransferSucceeds
<1>3. Driver!TransferFails => DriverProofs!TransferFails
  BY <1>1, SameCommands, Zenon DEF Driver!TransferFails, DriverProofs!TransferFails
<1>4. Driver!OtherUser => DriverProofs!OtherUser
  BY Zenon DEF Driver!OtherUser, DriverProofs!OtherUser, Driver!Accept,
                         DriverProofs!Accept, Driver!Finish, DriverProofs!Finish,
                         Driver!request, DriverProofs!request, Driver!pending, DriverProofs!pending,
                         Driver!settings, DriverProofs!settings, Driver!history, DriverProofs!history
<1> QED
  BY <1>2, <1>3, <1>4
-----------------------------------------------------------------------------
(* Every step of the system is a step of the driver as a part of it. *)

(* Each run asks for modes and windows the controller has. *)
LEMMA InitSettings ==
    ASSUME DriverProofs!TypeOK, RunInit
    PROVE  DriverProofs!SettingsOK'
BY DEF DriverProofs!TypeOK, DriverProofs!DataTypeOK, DriverProofs!SettingsOK, RunInit,
       Driver!Horizontal, DriverProofs!Modes, DriverProofs!Horizontal

LEMMA WindowSettings ==
    ASSUME DriverProofs!TypeOK, BufferProofs!IInv, NEW first \in Nat, first <= y1, SetWindow(first)
    PROVE  DriverProofs!SettingsOK'
<1>1. column' = <<0, LastColumn>> /\ page' = <<first, LastPage>> /\ addressingMode' = addressingMode
  BY WindowValues DEF Columns
<1>2. LastColumn \in 0..127 /\ LastPage \in 0..7 /\ first \in 0..7
  <2>1. y1 \in 0..(Rows - 1)
    <3>1. BufferProofs!MAX_Y_SEG = Rows - 1
      BY BufferProofs!Limits, BufferSize, BlitAssumption
    <3>2. y1 \in 0..BufferProofs!MAX_Y_SEG
      BY DEF BufferProofs!IInv, BufferProofs!TypeOK
    <3> QED
      BY <3>1, <3>2
  <2> QED
    BY <2>1, SizeAssumption, WindowAssumption
<1> QED
  BY <1>1, <1>2 DEF DriverProofs!TypeOK, DriverProofs!DataTypeOK, DriverProofs!SettingsOK

(* The length of a buffer is a uint16_t. *)
Words == 0..65535

LEMMA WordRange ==
    ASSUME NEW n \in Int
    PROVE  n % 65536 \in Words
BY SMTT(30) DEF Words

(* What graphics_run hands over is a buffer the driver knows. *)
LEMMA HandedBuffer ==
    ASSUME BufferProofs!IInv
    PROVE  <<Buffer!FirstSegment, Buffer!DirtyBufferLen>> \in Buffers
<1>1. /\ y1 \in 0..(Rows - 1) /\ y2 \in 0..(Rows - 1)
      /\ x2 \in 0..(Width - 1) /\ Width \in 1..128 /\ Rows \in 1..8
  BY SizeAssumption DEF BufferProofs!IInv, BufferProofs!TypeOK, BufferProofs!MAX_Y_SEG,
                        BufferProofs!MAX_Y, BufferProofs!MAX_X
<1>2. Buffer!FirstSegment \in 0..(Width * Rows)
  BY <1>1 DEF Buffer!FirstSegment
<1> DEFINE firsts == 0..(Width * Rows)
           len    == Buffer!LastSegment - Buffer!FirstSegment + 1
<1>3. len \in Int
  <2>1. Width \in Int /\ y1 \in Int /\ y2 \in Int /\ x2 \in Int
    BY <1>1
  <2>2. Buffer!FirstSegment \in Int
    BY <2>1 DEF Buffer!FirstSegment
  <2>3. Buffer!LastSegment \in Int
    BY <2>1 DEF Buffer!LastSegment
  <2> QED
    BY <2>2, <2>3
<1>4. Buffer!DirtyBufferLen = len % 65536
  BY DEF Buffer!DirtyBufferLen
<1> HIDE DEF len
<1>5. Buffer!DirtyBufferLen \in Words
  BY <1>3, <1>4, WordRange
<1>6. Buffers = firsts \X Words
  BY DEF Buffers, Words
<1>7. Buffer!FirstSegment \in firsts
  BY <1>2, Zenon
<1> HIDE DEF firsts
<1> QED
  BY <1>5, <1>6, <1>7

LEMMA AskingStep ==
    ASSUME DriverProofs!TypeOK, BufferProofs!IInv, RunInit \/ RunClear \/ RunShow
    PROVE  DriverProofs!OpenCalls /\ DriverProofs!SettingsOK'
<1>1. CASE RunInit
  <2>1. DriverProofs!AcceptInit(Graphics)
    BY <1>1, SameCalls DEF RunInit
  <2> QED
    BY <1>1, <2>1, InitSettings DEF DriverProofs!OpenCalls
<1>2. ASSUME NEW next, DriverAccepts(next) \/ DriverRefuses
      PROVE  DriverProofs!OpenCalls
  <2>1. CASE DriverAccepts(next)
    <3>1. DriverProofs!AcceptSend(Graphics, <<Buffer!FirstSegment, Buffer!DirtyBufferLen>>)
      BY <2>1, SameCalls DEF DriverAccepts
    <3> QED
      BY <3>1, HandedBuffer DEF DriverProofs!OpenCalls
  <2>2. CASE DriverRefuses
    BY <2>2, SameCalls DEF DriverRefuses, DriverProofs!OpenCalls
  <2> QED
    BY <1>2, <2>1, <2>2
<1>3. y1 \in Nat
  BY SizeAssumption DEF BufferProofs!IInv, BufferProofs!TypeOK, BufferProofs!MAX_Y_SEG,
                        BufferProofs!MAX_Y
<1>4. CASE RunClear
  <2>1. 0 <= y1 /\ SetWindow(0) /\ (DriverAccepts("wait") \/ DriverRefuses)
    BY <1>3, <1>4 DEF RunClear
  <2> QED
    BY <1>2, <2>1, WindowSettings
<1>5. CASE RunShow
  <2>1. y1 <= y1 /\ SetWindow(y1) /\ (DriverAccepts("sent") \/ DriverRefuses)
    BY <1>3, <1>5 DEF RunShow
  <2> QED
    BY <1>2, <1>3, <2>1, WindowSettings
<1> QED
  BY <1>1, <1>4, <1>5

LEMMA OpenStep ==
    ASSUME DriverProofs!TypeOK, BufferProofs!IInv, [Next]_vars
    PROVE  [DriverProofs!OpenNext]_(DriverProofs!vars)
<1>1. CASE RunInit \/ RunClear \/ RunShow
  BY <1>1, AskingStep DEF DriverProofs!OpenNext
<1>2. CASE Application \/ RunWaits \/ RunIdle \/ RunSent \/ UNCHANGED vars
  <2>1. UNCHANGED driverVars
    BY <1>2 DEF Application, DrawPixel, DrawObject, Touch, Show, RunWaits, RunIdle, RunSent, vars
  <2>2. UNCHANGED DriverProofs!vars
    BY <2>1 DEF driverVars, DriverProofs!vars, DriverProofs!request, DriverProofs!pending,
                DriverProofs!settings, DriverProofs!history
  <2> QED
    BY <2>2
<1>3. CASE DriverRuns \/ TransferSucceeds \/ TransferFails \/ OtherUser
  BY <1>3, SameRun, SameBus
     DEF DriverRuns, TransferSucceeds, TransferFails, OtherUser, DriverProofs!OpenNext
<1> QED
  BY <1>1, <1>2, <1>3 DEF Next, Run

(* Every behaviour of the whole system is, seen from the driver, one of a  *)
(* driver in some system: it starts as ssd1306_init leaves it, and between *)
(* its own runs it only meets calls that it may meet.                      *)
THEOREM DriverInSystem == Spec => DriverProofs!OpenSpec
<1>1. Init => DriverProofs!TypeOK /\ DriverProofs!Init
  BY SameDriverInit, DriverProofs!TypeInit, DriverAssumptions DEF Init
<1>2. DriverProofs!TypeOK /\ GInv /\ [Next]_vars =>
          DriverProofs!TypeOK' /\ [DriverProofs!OpenNext]_(DriverProofs!vars)
  BY OpenStep, DriverProofs!TypeStep, DriverAssumptions DEF GInv
<1> QED
  BY <1>1, <1>2, Inductive, PTL DEF Spec, DriverProofs!OpenSpec

(* In the whole system, too: the flags of ssd1306_run agree with the bus,  *)
(* each operation stays within its steps, an idle driver has nothing on    *)
(* its way, the power-up delay is kept, and the graphics task does not     *)
(* read ok before the display is initialised.                              *)
THEOREM DriverStates ==
    Spec => [](/\ DriverProofs!TypeOK
               /\ DriverProofs!DriverInv
               /\ DriverProofs!IdleMeansQuiet
               /\ DriverProofs!TransferAccounting
               /\ DriverProofs!DelayRespected
               /\ DriverProofs!InitResultHonest)
BY DriverInSystem, DriverProofs!OpenTypeCorrect, DriverProofs!OpenInvariant,
   DriverProofs!OpenQuiet, DriverProofs!OpenAccounting, DriverProofs!OpenDelay,
   DriverProofs!OpenHonest, DriverAssumptions, PTL

(* No run of the graphics task, accepted or refused, touches what a        *)
(* transfer in flight reads; every transfer is the next one of the script  *)
(* of the operation that was asked for, an operation is over only after    *)
(* its last transfer, and the data lands in the window that was set - if   *)
(* the window was not moved during the send.                               *)
THEOREM DriverOperations ==
    Spec => /\ DriverProofs!BufferStable
            /\ DriverProofs!ScriptFollowed
            /\ DriverProofs!DoneMeansTransferred
            /\ DriverProofs!DataLandsInWindow
BY DriverInSystem, DriverProofs!OpenBuffers, DriverProofs!OpenScript, DriverProofs!OpenDone,
   DriverProofs!OpenWindow, DriverAssumptions

(* Towards the graphics task the driver keeps the promise of DisplayDriver:*)
(* every step of the whole system is a step of that specification or       *)
(* changes nothing in it.                                                  *)
THEOREM DriverPromise == Spec => DriverProofs!ImplementsDisplayDriver
BY DriverInSystem, DriverProofs!OpenRefinement, DriverAssumptions
=============================================================================
