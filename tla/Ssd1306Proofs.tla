--------------------------- MODULE Ssd1306Proofs ---------------------------
(***************************************************************************)
(* Proofs about the SSD1306 driver, for every set of clients, buffers and  *)
(* users of the bus and every InitDelay < DelayMod.                        *)
(***************************************************************************)
EXTENDS Ssd1306, TLAPS

-----------------------------------------------------------------------------
(* The vocabulary of commands *)

(* Each command of the init sequence is one the type invariant knows.      *)
LEMMA InitScriptCommands ==
    ASSUME NEW mode \in Modes, NEW i \in 1..13
    PROVE  InitScript(mode)[i] \in Commands /\ InitScript(mode)[i] # Rejected
<1>1. InitScript(mode)[i] \in Commands
  BY DEF Commands
<1>2. InitScript(mode)[i].reg # "none"
  BY DEF InitScript, Command, SetMultiplexRatio, SetDisplayOffset, SetDisplayStartLine,
         SetSegmentRemap, SetScanDirection, SetComPins, SetContrast, SetPixels, SetInverted,
         SetDisplayClock, SetChargePump, SetAddressingMode, SetDisplay
<1> QED
  BY <1>1, <1>2 DEF Rejected, Command

(* Only the addressing commands write the mode or the window, and with     *)
(* values the driver has checked.                                          *)
LEMMA CommandArgs ==
    ASSUME NEW c \in Commands
    PROVE  /\ c.reg = "mode"   => c.args[1] \in Modes
           /\ c.reg = "column" => c.args \in (0..127) \X (0..127)
           /\ c.reg = "page"   => c.args \in (0..7) \X (0..7)
<1>1. CASE c = Rejected
  BY <1>1 DEF Rejected, Command
<1>2. CASE c \in Requests
  <2>1. c.reg \notin {"mode", "column", "page"}
    BY <1>2 DEF Requests, Command, Rejected, SetMultiplexRatio, SetDisplayOffset,
         SetDisplayStartLine, SetSegmentRemap, SetScanDirection, SetComPins, SetContrast,
         SetPixels, SetInverted, SetDisplayClock, SetChargePump, SetDisplay
  <2> QED
    BY <2>1
<1>3. ASSUME NEW mode \in Modes, NEW i \in 1..13, c = InitScript(mode)[i]
      PROVE  /\ c.reg = "mode" => c.args[1] \in Modes
             /\ c.reg # "column" /\ c.reg # "page"
  BY <1>3 DEF InitScript, Command, SetMultiplexRatio, SetDisplayOffset, SetDisplayStartLine,
         SetSegmentRemap, SetScanDirection, SetComPins, SetContrast, SetPixels, SetInverted,
         SetDisplayClock, SetChargePump, SetAddressingMode, SetDisplay
<1>4. ASSUME NEW w \in (0..127) \X (0..127), c = SetColumns(w)
      PROVE  c.reg = "column" /\ c.args = w
  BY <1>4 DEF SetColumns, Command
<1>5. ASSUME NEW w \in (0..7) \X (0..7), c = SetPages(w)
      PROVE  c.reg = "page" /\ c.args = w
  BY <1>5 DEF SetPages, Command
<1> QED
  BY <1>1, <1>2, <1>3, <1>4, <1>5 DEF Commands

(* So the controller's registers keep their types. *)
LEMMA PanelAfterType ==
    ASSUME NEW c \in Commands, panel \in Panels
    PROVE  PanelAfter(c) \in Panels
BY CommandArgs DEF PanelAfter, Panels

-----------------------------------------------------------------------------
(* Type correctness *)

LEMMA TypeInit == Init => TypeOK
<1> SUFFICES ASSUME Init PROVE TypeOK
  OBVIOUS
<1>1. FlagTypeOK
  BY DEF Init, FlagTypeOK
<1>2. Rejected \in Commands
  BY DEF Commands
<1>3. panel \in Panels
  BY DEF Init, Panels, PanelAtReset, Modes, Horizontal, Vertical, PageMode
<1>4. DataTypeOK
  BY <1>2, <1>3, DelayAssumption
     DEF Init, DataTypeOK, BusInit, BusTypeOK, CommandType, Modes, PageMode,
         Results, none_step, data_send_done
<1> QED
  BY <1>1, <1>4 DEF TypeOK

(* The driver as a part of any larger system: a client may set the window  *)
(* and the mode in the same call with which it asks for an operation, as   *)
(* graphics_run does, and to whatever the driver accepts.                  *)
SettingsOK ==
    /\ addressingMode \in Modes
    /\ column \in (0..127) \X (0..127)
    /\ page \in (0..7) \X (0..7)

OpenCalls ==
    \/ \E c \in Clients :
          \/ AcceptInit(c)
          \/ \E cmd \in Requests : SingleCommand(c, cmd)
          \/ \E b \in Buffers : AcceptSend(c, b)
    \/ Reconfigure

OpenNext == (OpenCalls /\ SettingsOK') \/ Run \/ TransferSucceeds \/ TransferFails \/ OtherUser

OpenSpec == Init /\ [][OpenNext]_vars

(* No step takes a flag out of the Booleans. *)
LEMMA TypeFlags == TypeOK /\ OpenNext => FlagTypeOK'
<1> SUFFICES ASSUME TypeOK, OpenNext PROVE FlagTypeOK'
  OBVIOUS
<1> USE DEF TypeOK, FlagTypeOK, pending, settings, request, history
<1>1. CASE OpenCalls
  BY <1>1 DEF OpenCalls, AcceptInit, SingleCommand, AcceptSend, NewHistory, Reconfigure
<1>2. CASE Run
  BY <1>2 DEF Run, RunWaits, RunTransmits, RunRefused, RunIdle, Dispatch, RunInitDelay,
              RunInitStep, StepCommand, RunInitDone, OperationDone, NewHistory, RunSendColumn,
              RunSendPage, RunSendBuffer, RunSendDone, vars
<1>3. CASE TransferSucceeds \/ TransferFails
  BY <1>3 DEF TransferSucceeds, TransferFails, TransferEnds
<1>4. CASE OtherUser
  BY <1>4 DEF OtherUser
<1> QED
  BY <1>1, <1>2, <1>3, <1>4 DEF OpenNext

(* A client's call keeps the types. *)
LEMMA TypeCalls == TypeOK /\ OpenCalls /\ SettingsOK' => DataTypeOK'
<1> SUFFICES ASSUME DataTypeOK, OpenCalls, SettingsOK' PROVE DataTypeOK'
  BY DEF TypeOK
<1> USE DEF SettingsOK, DataTypeOK, BusTypeOK, pending, request
<1>1. ASSUME NEW c \in Clients, AcceptInit(c) PROVE DataTypeOK'
  BY <1>1, DelayAssumption
     DEF AcceptInit, NewHistory, Results, init_delay_step, none_step, data_send_done
<1>2. ASSUME NEW c \in Clients, NEW cmd \in Requests, SingleCommand(c, cmd) PROVE DataTypeOK'
  <2>1. command' \in Commands /\ commandType' \in CommandType
    BY <1>2 DEF SingleCommand, Prepare, Commands, CommandType
  <2> QED
    BY <1>2, <2>1, DelayAssumption DEF SingleCommand, NewHistory
<1>3. ASSUME NEW c \in Clients, NEW b \in Buffers, AcceptSend(c, b) PROVE DataTypeOK'
  BY <1>3, DelayAssumption
     DEF AcceptSend, NewHistory, data_set_col_position_step, none_step, data_send_done
<1>4. ASSUME Reconfigure PROVE DataTypeOK'
  BY <1>4 DEF Reconfigure
<1> QED
  BY <1>1, <1>2, <1>3, <1>4 DEF OpenCalls

(* A step of an operation prepares a command of the vocabulary. *)
LEMMA TypeStepCommand ==
    ASSUME DataTypeOK, NEW s, Dispatch(s), operationStep < data_send_done,
           NEW c \in Commands, StepCommand(c)
    PROVE  DataTypeOK'
BY DEF DataTypeOK, BusTypeOK, Dispatch, StepCommand, settings, history, CommandType,
       none_step, data_send_done

(* One poll of the scheduler keeps the types. *)
LEMMA TypeRun == TypeOK /\ Run => DataTypeOK'
<1> SUFFICES ASSUME DataTypeOK, Run PROVE DataTypeOK'
  BY DEF TypeOK
<1> USE DEF BusTypeOK, pending, settings, request, history
<1>1. CASE RunWaits
  BY <1>1 DEF RunWaits, vars, DataTypeOK
<1>2. CASE RunTransmits
  BY <1>2, MeAssumption DEF RunTransmits, Accept, DataTypeOK
<1>3. CASE RunRefused
  BY <1>3 DEF RunRefused, Refuse, DataTypeOK
<1>4. CASE RunIdle
  BY <1>4 DEF RunIdle, Dispatch, CommandType, DataTypeOK
<1>5. CASE RunInitDelay
  <2>1. delayTime' \in 0..(DelayMod - 1)
    BY <1>5, DelayAssumption DEF RunInitDelay, DataTypeOK
  <2>2. waited' \in 0..(InitDelay + 1)
    BY <1>5, DelayAssumption DEF RunInitDelay, DataTypeOK
  <2> QED
    BY <1>5, <2>1, <2>2 DEF RunInitDelay, Dispatch, CommandType, init_first_step,
                            none_step, data_send_done, DataTypeOK
<1>6. CASE RunInitStep
  <2>1. operationStep - 1 \in 1..13 /\ addressingMode \in Modes
    BY <1>6 DEF RunInitStep, init_first_step, init_last_step, DataTypeOK
  <2>2. InitScript(addressingMode)[operationStep - 1] \in Commands
    BY <2>1, InitScriptCommands
  <2> QED
    BY <1>6, <2>2, TypeStepCommand
       DEF RunInitStep, init_first_step, init_last_step, data_send_done
<1>7. CASE RunInitDone
  BY <1>7, DelayAssumption
     DEF RunInitDone, Dispatch, OperationDone, NewHistory, CommandType, Results, DataTypeOK
<1>8. CASE RunSendColumn
  <2>1. WindowCommand(SetColumns(column)) \in Commands
    BY DEF WindowCommand, Commands, DataTypeOK
  <2> QED
    BY <1>8, <2>1, TypeStepCommand
       DEF RunSendColumn, data_set_col_position_step, data_send_done
<1>9. CASE RunSendPage
  <2>1. WindowCommand(SetPages(page)) \in Commands
    BY DEF WindowCommand, Commands, DataTypeOK
  <2> QED
    BY <1>9, <2>1, TypeStepCommand
       DEF RunSendPage, data_set_page_position_step, data_send_done
<1>10. CASE RunSendBuffer
  BY <1>10 DEF RunSendBuffer, Dispatch, CommandType, none_step, data_send_done, DataTypeOK
<1>11. CASE RunSendDone
  BY <1>11, DelayAssumption
     DEF RunSendDone, Dispatch, OperationDone, NewHistory, CommandType, Results, DataTypeOK
<1> QED
  BY <1>1, <1>2, <1>3, <1>4, <1>5, <1>6, <1>7, <1>8, <1>9, <1>10, <1>11 DEF Run

(* The end of a transfer, and the other users of the bus, keep the types. *)
LEMMA TypeBus == TypeOK /\ (TransferSucceeds \/ TransferFails \/ OtherUser) => DataTypeOK'
<1> SUFFICES ASSUME DataTypeOK, TransferSucceeds \/ TransferFails \/ OtherUser
             PROVE  DataTypeOK'
  BY DEF TypeOK
<1> USE DEF DataTypeOK, BusTypeOK, pending, settings, request, history
<1>1. Received \in Panels
  BY PanelAfterType DEF Received
<1>2. CASE TransferSucceeds
  BY <1>1, <1>2 DEF TransferSucceeds, TransferEnds, Finish
<1>3. CASE TransferFails
  BY <1>1, <1>3 DEF TransferFails, TransferEnds, Finish
<1>4. CASE OtherUser
  BY <1>4 DEF OtherUser, Accept, Finish
<1> QED
  BY <1>2, <1>3, <1>4

(* Type correctness: in every reachable state every variable has its type. *)
LEMMA TypeStep == TypeOK /\ [OpenNext]_vars => TypeOK'
<1>1. TypeOK /\ UNCHANGED vars => TypeOK'
  BY DEF TypeOK, DataTypeOK, FlagTypeOK, BusTypeOK, vars, request, pending, settings, history
<1>2. TypeOK /\ OpenNext => TypeOK'
  BY TypeFlags, TypeCalls, TypeRun, TypeBus DEF OpenNext, TypeOK
<1> QED
  BY <1>1, <1>2

LEMMA OpenTypeCorrect == OpenSpec => []TypeOK
BY TypeInit, TypeStep, PTL DEF OpenSpec

(* The driver of Ssd1306 is such a part: its setters let nothing else in.  *)
LEMMA CallsOpen == TypeOK /\ Calls => OpenCalls /\ SettingsOK'
<1> SUFFICES ASSUME DataTypeOK, Calls PROVE OpenCalls /\ SettingsOK'
  BY DEF TypeOK
<1> USE DEF SettingsOK, OpenCalls, DataTypeOK, settings
<1>1. ASSUME NEW c \in Clients, InitDisplay(c) PROVE OpenCalls /\ SettingsOK'
  BY <1>1 DEF InitDisplay
<1>2. ASSUME NEW c \in Clients, NEW cmd \in Requests, SingleCommand(c, cmd)
      PROVE  OpenCalls /\ SettingsOK'
  BY <1>2 DEF SingleCommand
<1>3. ASSUME NEW c \in Clients, NEW b \in Buffers, SendGraphicsData(c, b)
      PROVE  OpenCalls /\ SettingsOK'
  BY <1>3 DEF SendGraphicsData
<1>4. ASSUME NEW mode \in 0..3, SetMemoryAddressingMode(mode) PROVE OpenCalls /\ SettingsOK'
  BY <1>4 DEF SetMemoryAddressingMode
<1>5. ASSUME NEW input \in ColumnInputs, SetColumnAddress(input) PROVE OpenCalls /\ SettingsOK'
  <2>1. column' \in (0..127) \X (0..127)
    BY <1>5, InputAssumption DEF SetColumnAddress, Window
  <2> QED
    BY <1>5, <2>1 DEF SetColumnAddress
<1>6. ASSUME NEW input \in PageInputs, SetPageAddress(input) PROVE OpenCalls /\ SettingsOK'
  <2>1. page' \in (0..7) \X (0..7)
    BY <1>6, InputAssumption DEF SetPageAddress, Window
  <2> QED
    BY <1>6, <2>1 DEF SetPageAddress
<1> QED
  BY <1>1, <1>2, <1>3, <1>4, <1>5, <1>6 DEF Calls

LEMMA Opened == Spec => OpenSpec
<1>1. TypeOK /\ [Next]_vars => [OpenNext]_vars
  BY CallsOpen DEF Next, OpenNext
<1>2. TypeOK /\ [Next]_vars => TypeOK'
  BY <1>1, TypeStep
<1> QED
  BY <1>1, <1>2, TypeInit, PTL DEF Spec, OpenSpec

-----------------------------------------------------------------------------
(* The flags, the bus and the outstanding command *)

(* The flags of ssd1306_run agree with the bus after every step.           *)
LEMMA FlagsStep == TypeOK /\ FlagsInv /\ OpenNext => FlagsInv'
<1> SUFFICES ASSUME TypeOK, FlagsInv, OpenNext PROVE FlagsInv'
  OBVIOUS
<1> USE MeAssumption, UsersAssumption
        DEF FlagsInv, TransferAccounting, pending, request
<1>0. operationOngoing \in BOOLEAN /\ Me # "free"
  BY DEF TypeOK, FlagTypeOK
<1>1. ASSUME NEW c \in Clients, AcceptInit(c) PROVE FlagsInv'
  BY <1>1 DEF AcceptInit
<1>2. ASSUME NEW c \in Clients, NEW cmd \in Requests, SingleCommand(c, cmd) PROVE FlagsInv'
  BY <1>0, <1>2 DEF SingleCommand, Prepare
<1>3. ASSUME NEW c \in Clients, NEW b \in Buffers, AcceptSend(c, b) PROVE FlagsInv'
  BY <1>3 DEF AcceptSend
<1>4. ASSUME Reconfigure PROVE FlagsInv'
  BY <1>4 DEF Reconfigure
<1>5. CASE RunWaits
  BY <1>5 DEF RunWaits, vars
<1>6. CASE RunTransmits
  BY <1>0, <1>6 DEF RunTransmits, Accept
<1>7. CASE RunRefused
  BY <1>7 DEF RunRefused, Refuse
<1>8. ASSUME NEW s, Dispatch(s), state' = "idle" => commandType' = "none" PROVE FlagsInv'
  BY <1>0, <1>8 DEF Dispatch
<1>9. CASE RunIdle
  BY <1>8, <1>9 DEF RunIdle
<1>10. CASE RunInitDelay \/ RunInitStep \/ RunInitDone
  BY <1>8, <1>10 DEF RunInitDelay, RunInitStep, RunInitDone, StepCommand, Dispatch
<1>11. CASE RunSendColumn \/ RunSendPage \/ RunSendBuffer \/ RunSendDone
  BY <1>8, <1>11 DEF RunSendColumn, RunSendPage, RunSendBuffer, RunSendDone, StepCommand, Dispatch
<1>12. CASE TransferSucceeds \/ TransferFails
  BY <1>0, <1>12 DEF TransferSucceeds, TransferFails, TransferEnds, Finish
<1>13. CASE OtherUser
  BY <1>0, <1>13 DEF OtherUser, Accept, Finish
<1> QED
  BY <1>1, <1>2, <1>3, <1>4, <1>5, <1>6, <1>7, <1>9, <1>10, <1>11, <1>12, <1>13
     DEF OpenNext, OpenCalls, Run, Reconfigure

(* What the steps do to the outstanding command: a dispatching run starts  *)
(* with none, a call finds none, offering it to the bus keeps it, the end  *)
(* of its transfer settles it.                                             *)
LEMMA OutstandingDispatch ==
    ASSUME FlagTypeOK, NEW s, Dispatch(s)
    PROVE  Outstanding = 0 /\ Outstanding' = IF commandType' # "none" THEN 1 ELSE 0
BY DEF FlagTypeOK, Dispatch, Outstanding

LEMMA OutstandingIdle ==
    ASSUME FlagsInv, state = "idle"
    PROVE  Outstanding = 0 /\ ~operationOngoing /\ commandType = "none"
BY DEF FlagsInv, Outstanding

LEMMA OutstandingUnchanged ==
    ASSUME UNCHANGED pending
    PROVE  UNCHANGED <<Outstanding, commandType, command>>
BY DEF pending, Outstanding

LEMMA OutstandingTransmit ==
    ASSUME FlagTypeOK, RunTransmits
    PROVE  UNCHANGED <<Outstanding, commandType, command, request, settings, panel, history,
                       delayTime, result>>
BY DEF FlagTypeOK, RunTransmits, Outstanding

LEMMA OutstandingEnds ==
    ASSUME FlagTypeOK, FlagsInv, TransferSucceeds \/ TransferFails
    PROVE  /\ Outstanding = 1 /\ Outstanding' = 0 /\ transfers' = transfers + 1
           /\ bus = Me /\ commandType # "none"
           /\ UNCHANGED <<request, commandType, command, settings, result, delayTime,
                          waited, reconfigured>>
BY DEF FlagTypeOK, FlagsInv, TransferAccounting, TransferSucceeds, TransferFails, TransferEnds,
       Finish, Outstanding

-----------------------------------------------------------------------------
(* The operations *)

(* The init sequence: one command per step, none lost while it waits.      *)
LEMMA InitOpStep == TypeOK /\ FlagsInv /\ InitOpInv /\ OpenNext => InitOpInv'
<1> SUFFICES ASSUME TypeOK, FlagsInv, InitOpInv, OpenNext, state' = "init" PROVE InitOpInv'
  BY DEF InitOpInv
<1> USE DEF InitOpInv, init_delay_step, init_first_step, init_last_step, init_done
<1>0. FlagTypeOK /\ DataTypeOK
  BY DEF TypeOK
<1>1. ASSUME NEW c \in Clients, AcceptInit(c) PROVE InitOpInv'
  BY <1>1, OutstandingIdle DEF AcceptInit, NewHistory, pending
<1>2. CASE /\ UNCHANGED <<state, operationStep, commandType, command, transfers>>
           /\ UNCHANGED Outstanding
  BY <1>2
<1>3. CASE UNCHANGED pending /\ UNCHANGED <<state, operationStep, transfers>>
  BY <1>2, <1>3, OutstandingUnchanged
<1>4. CASE RunTransmits
  BY <1>0, <1>2, <1>4, OutstandingTransmit DEF request, history
<1>5. CASE RunInitDelay
  <2>1. Outstanding' = 0 /\ commandType' = "none" /\ transfers' = 0
    BY <1>0, <1>5, OutstandingDispatch DEF RunInitDelay, Dispatch
  <2> QED
    BY <2>1, <1>5 DEF RunInitDelay, Dispatch
<1>6. CASE RunInitStep
  <2>1. operationStep \in 2..14 /\ addressingMode \in Modes /\ state = "init"
    BY <1>6, <1>0 DEF RunInitStep, Dispatch, DataTypeOK
  <2>2. InitScript(addressingMode)[operationStep - 1] # Rejected
    BY <2>1, InitScriptCommands
  <2>3. /\ commandType' = "single" /\ transfers' = transfers
        /\ operationStep' = operationStep + 1
        /\ command' = InitScript(addressingMode)[operationStep - 1]
    BY <1>6, <2>2 DEF RunInitStep, StepCommand, history
  <2>4. Outstanding = 0 /\ Outstanding' = 1
    BY <1>0, <1>6, <2>3, OutstandingDispatch DEF RunInitStep
  <2>5. transfers = operationStep - 2
    BY <2>1, <2>4, <1>0 DEF DataTypeOK
  <2>6. operationStep' - 2 = operationStep - 1
    BY <2>1, <2>3
  <2>7. \E mode \in Modes : command' = InitScript(mode)[operationStep' - 2]
    BY <2>1, <2>3, <2>6
  <2> QED
    BY <2>1, <2>3, <2>4, <2>5, <2>7
<1>7. CASE TransferSucceeds \/ TransferFails
  <2>1. /\ Outstanding = 1 /\ Outstanding' = 0 /\ transfers' = transfers + 1
        /\ commandType # "none"
        /\ UNCHANGED <<state, operationStep, commandType, command>>
    BY <1>0, <1>7, OutstandingEnds DEF request
  <2> QED
    BY <2>1, <1>0 DEF DataTypeOK
<1>8. ASSUME Reconfigure PROVE InitOpInv'
  BY <1>3, <1>8 DEF Reconfigure, request
<1>9. CASE OpenCalls
  BY <1>1, <1>8, <1>9 DEF OpenCalls, SingleCommand, AcceptSend, Reconfigure
<1>10. CASE RunWaits \/ RunRefused \/ OtherUser
  BY <1>3, <1>10 DEF RunWaits, RunRefused, OtherUser, vars, request, history
<1>11. CASE RunIdle \/ RunInitDone \/ RunSendColumn \/ RunSendPage \/ RunSendBuffer \/ RunSendDone
  BY <1>11 DEF RunIdle, RunInitDone, RunSendColumn, RunSendPage, RunSendBuffer, RunSendDone,
               Dispatch, OperationDone, StepCommand, request
<1> QED
  BY <1>4, <1>5, <1>6, <1>7, <1>9, <1>10, <1>11 DEF OpenNext, Run

(* The send: window, then data, as configured when nobody reconfigures.    *)
LEMMA SendOpStep == TypeOK /\ FlagsInv /\ SendOpInv /\ OpenNext => SendOpInv'
<1> SUFFICES ASSUME TypeOK, FlagsInv, SendOpInv, OpenNext, state' = "send" PROVE SendOpInv'
  BY DEF SendOpInv
<1> USE DEF SendOpInv, data_set_col_position_step, data_set_page_position_step,
            data_send_graphics_data_step, data_send_done
<1>0. FlagTypeOK /\ DataTypeOK
  BY DEF TypeOK
<1>1. ASSUME NEW c \in Clients, NEW b \in Buffers, AcceptSend(c, b) PROVE SendOpInv'
  <2>1. Outstanding' = 0 /\ commandType' = "none"
    BY <1>1, OutstandingIdle, OutstandingUnchanged DEF AcceptSend
  <2> QED
    BY <1>1, <2>1 DEF AcceptSend, NewHistory
<1>2. CASE /\ UNCHANGED <<state, operationStep, commandType, command, transfers>>
           /\ UNCHANGED <<Outstanding, settings, reconfigured>>
  BY <1>2 DEF settings
<1>3. CASE UNCHANGED pending /\ UNCHANGED <<state, operationStep, transfers, settings, reconfigured>>
  BY <1>2, <1>3, OutstandingUnchanged
<1>4. CASE RunTransmits
  BY <1>0, <1>2, <1>4, OutstandingTransmit DEF request, history
<1>5. ASSUME Reconfigure PROVE SendOpInv'
  <2>1. CASE settings' = settings
    <3>1. reconfigured' = reconfigured
      BY <1>0, <1>5, <2>1 DEF Reconfigure, FlagTypeOK
    <3> QED
      BY <1>3, <1>5, <2>1, <3>1 DEF Reconfigure, request
  <2>2. CASE settings' # settings
    BY <1>5, <2>2 DEF Reconfigure, request
  <2> QED
    BY <2>1, <2>2
<1>6. CASE OpenCalls
  BY <1>1, <1>5, <1>6 DEF OpenCalls, AcceptInit, SingleCommand, Reconfigure
<1>7. ASSUME NEW c \in {SetColumns(column), SetPages(page)} PROVE c # Rejected
  BY <1>7 DEF SetColumns, SetPages, Rejected, Command
<1>8. CASE RunSendColumn
  <2>1. /\ operationStep = 16 /\ operationStep' = 17 /\ state = "send"
        /\ UNCHANGED <<addressingMode, column, page, transfers, reconfigured>>
        /\ IF addressingMode = PageMode
             THEN commandType' = "none"
             ELSE commandType' = "single" /\ command' = SetColumns(column)
    BY <1>7, <1>8 DEF RunSendColumn, Dispatch, StepCommand, WindowCommand, settings, history
  <2>2. Outstanding = 0 /\ Outstanding' = IF commandType' # "none" THEN 1 ELSE 0
    BY <1>0, <1>8, OutstandingDispatch DEF RunSendColumn
  <2> QED
    BY <2>1, <2>2, <1>0 DEF DataTypeOK
<1>9. CASE RunSendPage
  <2>1. /\ operationStep = 17 /\ operationStep' = 18 /\ state = "send"
        /\ UNCHANGED <<addressingMode, column, page, transfers, reconfigured>>
        /\ IF addressingMode = PageMode
             THEN commandType' = "none"
             ELSE commandType' = "single" /\ command' = SetPages(page)
    BY <1>7, <1>9 DEF RunSendPage, Dispatch, StepCommand, WindowCommand, settings, history
  <2>2. Outstanding = 0 /\ Outstanding' = IF commandType' # "none" THEN 1 ELSE 0
    BY <1>0, <1>9, OutstandingDispatch DEF RunSendPage
  <2> QED
    BY <2>1, <2>2, <1>0 DEF DataTypeOK
<1>10. CASE RunSendBuffer
  <2>1. /\ operationStep = 18 /\ operationStep' = 19 /\ state = "send"
        /\ UNCHANGED <<addressingMode, column, page, transfers, reconfigured>>
        /\ commandType' = "data"
    BY <1>10 DEF RunSendBuffer, Dispatch, settings, history
  <2>2. Outstanding = 0 /\ Outstanding' = 1
    BY <1>0, <1>10, <2>1, OutstandingDispatch DEF RunSendBuffer
  <2> QED
    BY <2>1, <2>2, <1>0 DEF DataTypeOK
<1>11. CASE TransferSucceeds \/ TransferFails
  <2>1. /\ Outstanding = 1 /\ Outstanding' = 0 /\ transfers' = transfers + 1
        /\ UNCHANGED <<state, operationStep, commandType, command, addressingMode, column, page,
                       reconfigured>>
    BY <1>0, <1>11, OutstandingEnds DEF request, settings
  <2> QED
    BY <2>1, <1>0 DEF DataTypeOK
<1>12. CASE RunWaits \/ RunRefused \/ OtherUser
  BY <1>3, <1>12 DEF RunWaits, RunRefused, OtherUser, vars, request, history
<1>13. CASE RunIdle \/ RunInitDelay \/ RunInitStep \/ RunInitDone \/ RunSendDone
  BY <1>13 DEF RunIdle, RunInitDelay, RunInitStep, RunInitDone, RunSendDone, Dispatch,
               OperationDone, StepCommand, request
<1> QED
  BY <1>4, <1>6, <1>8, <1>9, <1>10, <1>11, <1>12, <1>13 DEF OpenNext, Run

(* However it is reconfigured, a send makes at most one transfer per step, *)
(* and the data is always transferred.                                     *)
LEMMA SendLimitStep == TypeOK /\ FlagsInv /\ SendOpInv /\ SendLimitInv /\ OpenNext => SendLimitInv'
<1> SUFFICES ASSUME TypeOK, FlagsInv, SendOpInv, SendLimitInv, OpenNext, state' = "send"
             PROVE  SendLimitInv'
  BY DEF SendLimitInv
<1> USE DEF SendLimitInv, data_set_col_position_step, data_send_done
<1>0. FlagTypeOK /\ transfers \in Nat
  BY DEF TypeOK, DataTypeOK
<1>1. ASSUME NEW c \in Clients, NEW b \in Buffers, AcceptSend(c, b) PROVE SendLimitInv'
  <2>1. Outstanding' = 0
    BY <1>1, OutstandingIdle, OutstandingUnchanged DEF AcceptSend
  <2> QED
    BY <1>1, <2>1 DEF AcceptSend, NewHistory
<1>2. CASE UNCHANGED <<state, operationStep, transfers, Outstanding>>
  BY <1>2
<1>3. CASE UNCHANGED pending /\ UNCHANGED <<state, operationStep, transfers>>
  BY <1>2, <1>3, OutstandingUnchanged
<1>4. CASE RunTransmits
  BY <1>0, <1>2, <1>4, OutstandingTransmit DEF request, history
<1>5. CASE OpenCalls
  BY <1>1, <1>3, <1>5 DEF OpenCalls, AcceptInit, SingleCommand, Reconfigure, request
<1>6. CASE RunSendColumn \/ RunSendPage \/ RunSendBuffer
  <2>1. /\ operationStep \in 16..18 /\ operationStep' = operationStep + 1
        /\ state = "send" /\ transfers' = transfers
        /\ operationStep = 18 => commandType' = "data"
    BY <1>6 DEF RunSendColumn, RunSendPage, RunSendBuffer, StepCommand, Dispatch, history,
                data_set_page_position_step, data_send_graphics_data_step
  <2>2. Outstanding = 0 /\ Outstanding' = IF commandType' # "none" THEN 1 ELSE 0
    BY <1>0, <1>6, OutstandingDispatch DEF RunSendColumn, RunSendPage, RunSendBuffer
  <2>3. transfers <= operationStep - 16
    BY <1>0, <2>1, <2>2
  <2> QED
    BY <1>0, <2>1, <2>2, <2>3
<1>7. CASE TransferSucceeds \/ TransferFails
  <2>1. /\ Outstanding = 1 /\ Outstanding' = 0 /\ transfers' = transfers + 1
        /\ UNCHANGED <<state, operationStep>>
    BY <1>0, <1>7, OutstandingEnds DEF request
  <2> QED
    BY <2>1, <1>0
<1>8. CASE RunWaits \/ RunRefused \/ OtherUser
  BY <1>3, <1>8 DEF RunWaits, RunRefused, OtherUser, vars, request, history
<1>9. CASE RunIdle \/ RunInitDelay \/ RunInitStep \/ RunInitDone \/ RunSendDone
  BY <1>9 DEF RunIdle, RunInitDelay, RunInitStep, RunInitDone, RunSendDone, Dispatch,
              OperationDone, StepCommand, request
<1> QED
  BY <1>4, <1>5, <1>6, <1>7, <1>8, <1>9 DEF OpenNext, Run

(* A single command is sent at most once.                                  *)
LEMMA SingleOpStep == TypeOK /\ FlagsInv /\ SingleOpInv /\ OpenNext => SingleOpInv'
<1> SUFFICES ASSUME TypeOK, FlagsInv, SingleOpInv, OpenNext, state' = "single" PROVE SingleOpInv'
  BY DEF SingleOpInv
<1> USE DEF SingleOpInv
<1>0. FlagTypeOK /\ transfers \in Nat
  BY DEF TypeOK, DataTypeOK
<1>1. ASSUME NEW c \in Clients, NEW cmd \in Requests, SingleCommand(c, cmd) PROVE SingleOpInv'
  <2>1. commandType' \in {"none", "single"} /\ transfers' = 0
    BY <1>1, OutstandingIdle DEF SingleCommand, Prepare, NewHistory
  <2>2. Outstanding' = 0 \/ Outstanding' = 1
    BY DEF Outstanding
  <2>3. transfers' + Outstanding' <= 1
    BY <2>1, <2>2
  <2> QED
    BY <2>1, <2>3
<1>2. CASE UNCHANGED <<state, commandType, transfers, Outstanding>>
  BY <1>2
<1>3. CASE UNCHANGED pending /\ UNCHANGED <<state, transfers>>
  BY <1>2, <1>3, OutstandingUnchanged
<1>4. CASE RunTransmits
  BY <1>0, <1>2, <1>4, OutstandingTransmit DEF request, history
<1>5. CASE RunIdle
  <2>1. Outstanding = 0 /\ Outstanding' = 0
    BY <1>0, <1>5, OutstandingDispatch DEF RunIdle
  <2> QED
    BY <1>5, <2>1 DEF RunIdle, Dispatch, request, history
<1>6. CASE TransferSucceeds \/ TransferFails
  <2>1. /\ Outstanding = 1 /\ Outstanding' = 0 /\ transfers' = transfers + 1
        /\ UNCHANGED <<state, commandType>>
    BY <1>0, <1>6, OutstandingEnds DEF request
  <2> QED
    BY <1>0, <2>1
<1>7. CASE OpenCalls
  BY <1>1, <1>3, <1>7 DEF OpenCalls, AcceptInit, AcceptSend, Reconfigure, request
<1>8. CASE RunWaits \/ RunRefused \/ OtherUser
  BY <1>3, <1>8 DEF RunWaits, RunRefused, OtherUser, vars, request, history
<1>9. CASE \/ RunInitDelay \/ RunInitStep \/ RunInitDone
           \/ RunSendColumn \/ RunSendPage \/ RunSendBuffer \/ RunSendDone
  BY <1>9 DEF RunInitDelay, RunInitStep, RunInitDone, RunSendColumn, RunSendPage,
              RunSendBuffer, RunSendDone, Dispatch, OperationDone, StepCommand, request
<1> QED
  BY <1>4, <1>5, <1>6, <1>7, <1>8, <1>9 DEF OpenNext, Run

(* The delay, for every InitDelay and every width of the counter.          *)
LEMMA DelayStep == TypeOK /\ DelayInv /\ OpenNext => DelayInv'
<1> SUFFICES ASSUME DataTypeOK, DelayInv, OpenNext PROVE DelayInv'
  BY DEF TypeOK
<1> USE DelayAssumption
    DEF DelayInv, DelayRespected, init_delay_step, init_first_step, init_last_step
<1>1. delayTime \in Nat /\ waited \in Nat
  BY DEF DataTypeOK
<1>2. CASE UNCHANGED <<state, operationStep, delayTime, waited>>
  BY <1>2
<1>3. ASSUME NEW c \in Clients, AcceptInit(c) PROVE DelayInv'
  BY <1>3 DEF AcceptInit, NewHistory
<1>4. CASE state' # "init" /\ delayTime' = delayTime /\ (state = "init" => operationStep # 1)
  BY <1>1, <1>4
<1>5. CASE OpenCalls
  BY <1>2, <1>3, <1>4, <1>5
     DEF OpenCalls, SingleCommand, AcceptSend, Reconfigure, request
<1>6. CASE RunInitDelay
  <2>1. delayTime \in 0..(DelayMod - 1) /\ waited \in 0..(InitDelay + 1)
    BY DEF DataTypeOK
  <2>2. /\ state = "init" /\ operationStep = 1 /\ state' = "init"
        /\ delayTime' = (delayTime + 1) % DelayMod
        /\ operationStep' = IF delayTime = InitDelay THEN 2 ELSE 1
        /\ waited' = IF waited <= InitDelay THEN waited + 1 ELSE waited
    BY <1>6 DEF RunInitDelay, Dispatch
  <2>3. delayTime' = IF delayTime + 1 = DelayMod THEN 0 ELSE delayTime + 1
    BY <2>1, <2>2
  <2> QED
    BY <2>1, <2>2, <2>3
<1>7. CASE RunInitStep
  <2>1. /\ operationStep \in 2..14 /\ operationStep' = operationStep + 1 /\ state = "init"
        /\ UNCHANGED <<state, delayTime, waited>>
    BY <1>7 DEF RunInitStep, StepCommand, Dispatch, history
  <2> QED
    BY <1>1, <2>1
<1>8. CASE RunInitDone \/ RunSendDone
  BY <1>4, <1>8 DEF RunInitDone, RunSendDone, Dispatch, OperationDone, init_done
<1>9. CASE RunSendColumn \/ RunSendPage \/ RunSendBuffer
  BY <1>4, <1>9 DEF RunSendColumn, RunSendPage, RunSendBuffer, Dispatch, StepCommand
<1>10. CASE RunWaits \/ RunTransmits \/ RunRefused \/ RunIdle
  BY <1>2, <1>10 DEF RunWaits, RunTransmits, RunRefused, RunIdle, vars, request, history
<1>11. CASE TransferSucceeds \/ TransferFails \/ OtherUser
  BY <1>2, <1>11 DEF TransferSucceeds, TransferFails, TransferEnds, OtherUser, request, history
<1> QED
  BY <1>5, <1>6, <1>7, <1>8, <1>9, <1>10, <1>11 DEF OpenNext, Run

(* The result of an init operation is processing until it is done.         *)
LEMMA ResultStep == TypeOK /\ InitResultHonest /\ OpenNext => InitResultHonest'
<1> SUFFICES ASSUME DataTypeOK, InitResultHonest, OpenNext, state' = "init"
             PROVE  result'[operationResult'] = "processing"
  BY DEF TypeOK, InitResultHonest
<1>1. CASE UNCHANGED <<state, operationResult, result>>
  BY <1>1 DEF InitResultHonest
<1>2. ASSUME NEW c \in Clients, AcceptInit(c) PROVE result'[operationResult'] = "processing"
  BY <1>2 DEF AcceptInit, DataTypeOK
<1>3. CASE OpenCalls
  BY <1>1, <1>2, <1>3
     DEF OpenCalls, SingleCommand, AcceptSend, Reconfigure, request
<1>4. CASE Run
  BY <1>1, <1>4 DEF Run, RunWaits, RunTransmits, RunRefused, RunIdle, RunInitDelay, RunInitStep,
                    RunInitDone, RunSendColumn, RunSendPage, RunSendBuffer, RunSendDone,
                    Dispatch, StepCommand, OperationDone, vars, request
<1>5. CASE TransferSucceeds \/ TransferFails \/ OtherUser
  BY <1>1, <1>5 DEF TransferSucceeds, TransferFails, TransferEnds, OtherUser, request
<1> QED
  BY <1>3, <1>4, <1>5 DEF OpenNext

-----------------------------------------------------------------------------
(* The controller's window *)

(* What a command to the controller leaves in its window registers.        *)
LEMMA PanelWindow ==
    ASSUME panel \in Panels
    PROVE  /\ \A w : /\ PanelAfter(SetColumns(w)).column = w
                     /\ PanelAfter(SetPages(w)).page = w
                     /\ PanelAfter(SetPages(w)).column = panel.column
<1> SUFFICES ASSUME NEW w
             PROVE  /\ PanelAfter(SetColumns(w)).column = w
                    /\ PanelAfter(SetPages(w)).page = w
                    /\ PanelAfter(SetPages(w)).column = panel.column
  OBVIOUS
<1>1. PanelAfter(SetColumns(w)) = [panel EXCEPT !.column = w]
  BY DEF PanelAfter, SetColumns, Command
<1>2. PanelAfter(SetPages(w)) = [panel EXCEPT !.page = w]
  BY DEF PanelAfter, SetPages, Command
<1> QED
  BY <1>1, <1>2 DEF Panels

(* As the send goes on without failure, the controller's window becomes    *)
(* the configured one.                                                     *)
LEMMA WindowStep == TypeOK /\ FlagsInv /\ SendOpInv /\ WindowInv /\ OpenNext => WindowInv'
<1> SUFFICES ASSUME TypeOK, FlagsInv, SendOpInv, WindowInv, OpenNext, state' = "send",
                    addressingMode' # PageMode, ~failed', ~reconfigured'
             PROVE  /\ transfers' >= 1 => panel'.column = column'
                    /\ transfers' >= 2 => panel'.page = page'
  BY DEF WindowInv
<1> DEFINE Goal == /\ transfers' >= 1 => panel'.column = column'
                   /\ transfers' >= 2 => panel'.page = page'
<1>0. FlagTypeOK /\ DataTypeOK
  BY DEF TypeOK
<1>1. ASSUME NEW c \in Clients, NEW b \in Buffers, AcceptSend(c, b) PROVE Goal
  BY <1>1 DEF AcceptSend, NewHistory
<1>2. CASE UNCHANGED <<state, panel, transfers, settings, failed, reconfigured>>
  BY <1>2 DEF WindowInv, settings
<1>3. ASSUME Reconfigure PROVE Goal
  <2>1. ~reconfigured /\ (state = "send" => settings' = settings)
    BY <1>0, <1>3 DEF Reconfigure, FlagTypeOK
  <2>2. state = "send" /\ UNCHANGED <<state, panel, transfers, failed>>
    BY <1>3 DEF Reconfigure, request
  <2> QED
    BY <2>1, <2>2 DEF WindowInv, settings
<1>4. CASE OpenCalls
  BY <1>1, <1>3, <1>4 DEF OpenCalls, AcceptInit, SingleCommand, Reconfigure
<1>5. CASE Run
  BY <1>2, <1>5 DEF Run, RunWaits, RunTransmits, RunRefused, RunIdle, RunInitDelay, RunInitStep,
                    RunInitDone, RunSendColumn, RunSendPage, RunSendBuffer, RunSendDone,
                    Dispatch, StepCommand, OperationDone, vars, request, history
<1>6. CASE TransferSucceeds
  <2>1. /\ Outstanding = 1 /\ transfers' = transfers + 1 /\ commandType # "none"
        /\ state = "send" /\ ~reconfigured /\ addressingMode # PageMode
        /\ column' = column /\ page' = page /\ panel' = Received /\ ~failed
    BY <1>0, <1>6, OutstandingEnds DEF request, settings, TransferSucceeds
  <2>2. transfers \in Nat /\ operationStep \in 16..19 /\ transfers + 1 = operationStep - 16
    BY <1>0, <2>1 DEF DataTypeOK, SendOpInv, data_set_col_position_step, data_send_done
  <2>3. /\ transfers >= 1 => panel.column = column
        /\ transfers >= 2 => panel.page = page
    BY <2>1 DEF WindowInv
  <2>4. panel \in Panels
    BY <1>0 DEF DataTypeOK
  <2>5. /\ transfers = 0 => commandType = "single" /\ command = SetColumns(column)
        /\ transfers = 1 => commandType = "single" /\ command = SetPages(page)
        /\ transfers >= 2 => commandType = "data"
    BY <2>1, <2>2 DEF SendOpInv, data_set_col_position_step, data_set_page_position_step,
                      data_send_graphics_data_step, data_send_done
  <2>6. CASE transfers = 0
    BY <2>1, <2>4, <2>5, <2>6, PanelWindow DEF Received
  <2>7. CASE transfers = 1
    BY <2>1, <2>3, <2>4, <2>5, <2>7, PanelWindow DEF Received
  <2>8. CASE transfers >= 2
    BY <2>1, <2>2, <2>3, <2>5, <2>8 DEF Received
  <2> QED
    BY <2>2, <2>6, <2>7, <2>8
<1>7. CASE TransferFails
  BY <1>7 DEF TransferFails
<1>8. CASE OtherUser
  BY <1>2, <1>8 DEF OtherUser, request, history
<1> QED
  BY <1>4, <1>5, <1>6, <1>7, <1>8 DEF OpenNext

-----------------------------------------------------------------------------
(* The inductive invariant and the safety properties *)

LEMMA DriverInit == Init => DriverInv
BY MeAssumption, UsersAssumption
   DEF Init, BusInit, DriverInv, FlagsInv, TransferAccounting, InitOpInv, SendOpInv, SendLimitInv,
       SingleOpInv, DelayInv, DelayRespected, InitResultHonest, WindowInv

LEMMA DriverStep == TypeOK /\ DriverInv /\ [OpenNext]_vars => DriverInv'
<1> SUFFICES ASSUME TypeOK, DriverInv, [OpenNext]_vars PROVE DriverInv'
  OBVIOUS
<1>1. CASE OpenNext
  BY <1>1, FlagsStep, InitOpStep, SendOpStep, SendLimitStep, SingleOpStep,
     DelayStep, ResultStep, WindowStep
     DEF DriverInv
<1>2. CASE UNCHANGED vars
  BY <1>2 DEF vars, request, pending, settings, history, DriverInv, FlagsInv, TransferAccounting,
       InitOpInv, SendOpInv, SendLimitInv, SingleOpInv, DelayInv, DelayRespected,
       InitResultHonest, WindowInv, Outstanding
<1> QED
  BY <1>1, <1>2

(* The inductive invariant holds in every reachable state.                 *)
LEMMA OpenInvariant == OpenSpec => []DriverInv
<1> QED
  BY OpenTypeCorrect, DriverInit, DriverStep, PTL DEF OpenSpec

(* An idle driver has nothing on the bus and nothing waiting for it.       *)
LEMMA OpenQuiet == OpenSpec => []IdleMeansQuiet
<1>1. TypeOK /\ DriverInv => IdleMeansQuiet
  BY DEF TypeOK, FlagTypeOK, DriverInv, FlagsInv, TransferAccounting, IdleMeansQuiet
<1> QED
  BY <1>1, OpenTypeCorrect, OpenInvariant, PTL

(* Every initDisplay waits more than InitDelay runs before its first       *)
(* command, for every width of the counter.                                *)
LEMMA OpenDelay == OpenSpec => []DelayRespected
<1>1. DriverInv => DelayRespected
  BY DEF DriverInv, DelayInv
<1> QED
  BY <1>1, OpenInvariant, PTL

(* The driver waits exactly while a transfer of its own is in flight.      *)
LEMMA OpenAccounting == OpenSpec => []TransferAccounting
<1>1. DriverInv => TransferAccounting
  BY DEF DriverInv, FlagsInv
<1> QED
  BY <1>1, OpenInvariant, PTL

(* A client of initDisplay reads processing until the driver is done.      *)
LEMMA OpenHonest == OpenSpec => []InitResultHonest
<1>1. DriverInv => InitResultHonest
  BY DEF DriverInv
<1> QED
  BY <1>1, OpenInvariant, PTL

(* No call and no run touches what a transfer in flight reads.             *)
LEMMA OpenBuffers == OpenSpec => BufferStable
<1>1. ASSUME TypeOK, DriverInv, [OpenNext]_vars, bus = Me
      PROVE  UNCHANGED <<commandType, command, graphicsData>>
  <2>0. operationOngoing /\ commandResult = "processing" /\ state # "idle"
    BY <1>1 DEF TypeOK, FlagTypeOK, DriverInv, FlagsInv, TransferAccounting
  <2>1. CASE OpenCalls
    BY <2>0, <2>1 DEF OpenCalls, AcceptInit, SingleCommand, AcceptSend, Reconfigure,
                      request, pending
  <2>2. CASE Run
    BY <2>0, <2>2 DEF Run, RunWaits, RunTransmits, RunRefused, RunIdle, RunInitDelay,
                      RunInitStep, RunInitDone, RunSendColumn, RunSendPage, RunSendBuffer,
                      RunSendDone, Dispatch, vars, request, pending
  <2>3. CASE TransferSucceeds \/ TransferFails \/ OtherUser \/ UNCHANGED vars
    BY <2>3 DEF TransferSucceeds, TransferFails, TransferEnds, OtherUser, vars, request, pending
  <2> QED
    BY <1>1, <2>1, <2>2, <2>3 DEF OpenNext
<1> QED
  BY <1>1, OpenTypeCorrect, OpenInvariant, PTL DEF OpenSpec, BufferStable

(* The bus is given back by the end of a transfer only.                    *)
LEMMA BusReleased ==
    ASSUME TypeOK, DriverInv, OpenNext, bus = Me, bus' = "free"
    PROVE  TransferSucceeds \/ TransferFails
<1> USE MeAssumption, UsersAssumption
<1>1. Me # "free"
  OBVIOUS
<1>2. ~OpenCalls
  BY <1>1 DEF OpenCalls, AcceptInit, SingleCommand, AcceptSend, Reconfigure
<1>3. ~Run
  BY <1>1 DEF Run, RunWaits, RunTransmits, RunRefused, RunIdle, RunInitDelay, RunInitStep,
              RunInitDone, RunSendColumn, RunSendPage, RunSendBuffer, RunSendDone, Dispatch,
              Accept, Refuse, vars
<1>4. ~OtherUser
  BY <1>1 DEF OtherUser, Accept, Finish
<1> QED
  BY <1>2, <1>3, <1>4 DEF OpenNext

(* Every transfer is the next one of the script of its operation.          *)
LEMMA OpenScript == OpenSpec => ScriptFollowed
<1> DEFINE Expected == \/ state = "init" /\ commandType = "single" /\ transfers < 13 /\ ExpectedInit
                       \/ state = "send" /\ (reconfigured \/ ExpectedSend)
                       \/ state = "single" /\ commandType = "single" /\ transfers = 0
<1>1. ASSUME TypeOK, DriverInv, OpenNext, bus = Me, bus' = "free"
      PROVE  Expected
  <2>0. /\ Outstanding = 1 /\ commandType \in {"single", "data"}
        /\ transfers \in Nat /\ addressingMode \in Modes
        /\ state \in {"idle", "single", "init", "send"}
    BY <1>1, BusReleased, OutstandingEnds DEF TypeOK, DataTypeOK, CommandType, DriverInv
  <2>1. CASE state = "init"
    <3>1. /\ operationStep \in 1..15 /\ commandType = "single"
          /\ operationStep # 1 /\ transfers + 1 = operationStep - 2
          /\ \E mode \in Modes : command = InitScript(mode)[operationStep - 2]
      BY <1>1, <2>0, <2>1 DEF DriverInv, InitOpInv, init_delay_step, init_done
    <3>2. transfers + 1 = operationStep - 2 /\ transfers < 13
      BY <2>0, <3>1
    <3>3. ExpectedInit
      BY <3>1, <3>2 DEF ExpectedInit
    <3> QED
      BY <2>1, <3>1, <3>2, <3>3
  <2>2. CASE state = "send" /\ ~reconfigured
    <3>1. /\ operationStep \in 16..19
          /\ transfers + 1 = IF addressingMode # PageMode THEN operationStep - 16
                             ELSE IF operationStep = 19 THEN 1 ELSE 0
          /\ operationStep = 17 => commandType = "single" /\ command = SetColumns(column)
          /\ operationStep = 18 => commandType = "single" /\ command = SetPages(page)
          /\ operationStep = 19 => commandType = "data"
      BY <1>1, <2>0, <2>2 DEF DriverInv, SendOpInv, data_set_col_position_step,
           data_set_page_position_step, data_send_graphics_data_step, data_send_done
    <3>2. CASE addressingMode = PageMode
      <4>1. transfers + 1 = IF operationStep = 19 THEN 1 ELSE 0
        BY <3>1, <3>2
      <4>2. transfers + 1 = 1 /\ operationStep = 19
        BY <2>0, <4>1
      <4>3. transfers + 1 = SendLength
        BY <3>2, <4>2 DEF SendLength
      <4> QED
        BY <2>2, <3>1, <4>2, <4>3 DEF ExpectedSend
    <3>3. CASE addressingMode # PageMode
      <4>1. SendLength = 3 /\ transfers + 1 = operationStep - 16
        BY <3>1, <3>3 DEF SendLength
      <4>2. \/ operationStep = 17 /\ transfers = 0
            \/ operationStep = 18 /\ transfers = 1
            \/ operationStep = 19 /\ transfers = 2
        BY <2>0, <3>1, <4>1
      <4> QED
        BY <2>2, <3>1, <4>1, <4>2 DEF ExpectedSend
    <3> QED
      BY <3>2, <3>3
  <2>3. CASE state = "single"
    BY <1>1, <2>0, <2>3 DEF DriverInv, SingleOpInv
  <2>4. CASE state = "idle"
    BY <1>1, <2>0, <2>4 DEF DriverInv, FlagsInv
  <2>5. CASE state = "send" /\ reconfigured
    BY <2>5
  <2> QED
    BY <2>0, <2>1, <2>2, <2>3, <2>4, <2>5
<1>2. ASSUME TypeOK, UNCHANGED vars, bus = Me, bus' = "free" PROVE FALSE
  BY <1>2, MeAssumption, UsersAssumption DEF vars
<1>3. TypeOK /\ DriverInv /\ [OpenNext]_vars => (bus = Me /\ bus' = "free" => Expected)
  BY <1>1, <1>2
<1> QED
  BY <1>3, OpenTypeCorrect, OpenInvariant, PTL DEF OpenSpec, ScriptFollowed

(* An operation is reported done only when its whole script was sent.      *)
LEMMA OpenDone == OpenSpec => DoneMeansTransferred
<1> DEFINE Complete == \/ state = "init" /\ transfers = 13
                       \/ state = "send" /\ (reconfigured \/ transfers = SendLength)
<1>1. ASSUME TypeOK, DriverInv, [OpenNext]_vars, state # "idle", state' = "idle"
      PROVE  Complete
  <2>0. transfers \in Nat /\ FlagTypeOK /\ addressingMode \in Modes
    BY <1>1 DEF TypeOK, DataTypeOK
  <2>1. RunInitDone \/ RunSendDone
    BY <1>1 DEF OpenNext, OpenCalls, AcceptInit, SingleCommand, AcceptSend, Reconfigure, Run, RunWaits, RunTransmits,
         RunRefused, RunIdle, RunInitDelay, RunInitStep, RunSendColumn, RunSendPage,
         RunSendBuffer, Dispatch, StepCommand, TransferSucceeds, TransferFails, TransferEnds,
         OtherUser, vars, request
  <2>2. CASE RunInitDone
    <3>1. state = "init" /\ operationStep = 15 /\ Outstanding = 0
      BY <2>0, <2>2, OutstandingDispatch DEF RunInitDone, Dispatch, init_done
    <3> QED
      BY <1>1, <2>0, <3>1 DEF DriverInv, InitOpInv, init_delay_step
  <2>3. CASE RunSendDone
    <3>1. state = "send" /\ operationStep = 19 /\ Outstanding = 0
      BY <2>0, <2>3, OutstandingDispatch DEF RunSendDone, Dispatch, data_send_done
    <3>2. ~reconfigured => transfers + Outstanding = IF addressingMode # PageMode THEN 3 ELSE 1
      BY <1>1, <3>1 DEF DriverInv, SendOpInv, data_set_col_position_step, data_send_done
    <3> QED
      BY <2>0, <3>1, <3>2 DEF SendLength
  <2> QED
    BY <2>1, <2>2, <2>3
<1> QED
  BY <1>1, OpenTypeCorrect, OpenInvariant, PTL DEF OpenSpec, DoneMeansTransferred

(* Data lands in the configured window.                                    *)
LEMMA OpenWindow == OpenSpec => DataLandsInWindow
<1>1. ASSUME TypeOK, DriverInv, [OpenNext]_vars, bus = Me, bus' = "free", commandType = "data",
             addressingMode # PageMode, ~failed, ~reconfigured
      PROVE  panel.column = column /\ panel.page = page
  <2>0. OpenNext
    BY <1>1, MeAssumption, UsersAssumption DEF vars
  <2>1. Outstanding = 1 /\ transfers \in Nat /\ state \in {"idle", "single", "init", "send"}
    BY <1>1, <2>0, BusReleased, OutstandingEnds DEF TypeOK, DataTypeOK, DriverInv
  <2>2. state = "send"
    BY <1>1, <2>1 DEF DriverInv, FlagsInv, InitOpInv, SingleOpInv
  <2>3. /\ operationStep \in 16..19 /\ transfers + 1 = operationStep - 16
        /\ operationStep # 17 /\ operationStep # 18
    BY <1>1, <2>1, <2>2 DEF DriverInv, SendOpInv, data_set_col_position_step,
         data_set_page_position_step, data_send_graphics_data_step, data_send_done
  <2>4. transfers >= 2
    BY <2>1, <2>3
  <2> QED
    BY <1>1, <2>1, <2>2, <2>4 DEF DriverInv, WindowInv
<1> QED
  BY <1>1, OpenTypeCorrect, OpenInvariant, PTL DEF OpenSpec, DataLandsInWindow

-----------------------------------------------------------------------------
(* The driver alone, with its clients *)

(* Type correctness: in every reachable state every variable has its type. *)
THEOREM TypeCorrect == Spec => []TypeOK
BY Opened, OpenTypeCorrect

(* The inductive invariant holds in every reachable state.                 *)
THEOREM DriverInvariant == Spec => []DriverInv
BY Opened, OpenInvariant

(* An idle driver has nothing on the bus and nothing waiting for it.       *)
THEOREM IdleQuiet == Spec => []IdleMeansQuiet
BY Opened, OpenQuiet

(* Every initDisplay waits more than InitDelay runs before its first       *)
(* command, for every width of the counter.                                *)
THEOREM DelayKept == Spec => []DelayRespected
BY Opened, OpenDelay

(* The driver waits exactly while a transfer of its own is in flight.      *)
THEOREM Accounting == Spec => []TransferAccounting
BY Opened, OpenAccounting

(* A client of initDisplay reads processing until the driver is done.      *)
THEOREM InitHonest == Spec => []InitResultHonest
BY Opened, OpenHonest

(* No call and no run touches what a transfer in flight reads.             *)
THEOREM BuffersKept == Spec => BufferStable
BY Opened, OpenBuffers

(* Every transfer is the next one of the script of its operation.          *)
THEOREM ScriptKept == Spec => ScriptFollowed
BY Opened, OpenScript

(* An operation is reported done only when its whole script was sent.      *)
THEOREM DoneKept == Spec => DoneMeansTransferred
BY Opened, OpenDone

(* Data lands in the configured window.                                    *)
THEOREM WindowKept == Spec => DataLandsInWindow
BY Opened, OpenWindow
=============================================================================
