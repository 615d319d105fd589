------------------------------ MODULE Ssd1306 ------------------------------
(***************************************************************************)
(* The asynchronous SSD1306 OLED driver (src/ssd1306/ssd1306.c): a         *)
(* singleton that clients call and that a cooperative scheduler polls      *)
(* through ssd1306_run.  A client call only records a request; the runs    *)
(* that follow turn it into I2C transfers, one at a time, and the I2C      *)
(* master finishes each of them between two runs.                          *)
(*                                                                         *)
(* A function call is one action: the scheduler is cooperative and neither *)
(* a client nor the I2C task can interrupt ssd1306_run.                    *)
(***************************************************************************)
EXTENDS I2cMaster, Naturals, Sequences

CONSTANTS
    Me,             \* the name of this driver among the users of the I2C master
    Clients,        \* callers; each owns one result variable
    NULL,           \* the null pointer
    Buffers,        \* graphics buffers the clients may send
    InitDelay,      \* INIT_DELAY_TIME (100): runs skipped before the first command
    DelayMod,       \* 2^8: delayTime is a uint8_t
    Bytes,          \* argument bytes the clients try
    ColumnInputs,   \* <<start, end>> arguments of ssd1306_setColumnAddress
    PageInputs      \* <<start, end>> arguments of ssd1306_setPageAddress

ASSUME MeAssumption == Me \in Users
ASSUME NullAssumption == NULL \notin Clients \cup Buffers
ASSUME DelayAssumption == InitDelay \in Nat /\ DelayMod \in Nat /\ InitDelay < DelayMod
ASSUME InputAssumption == /\ Bytes \subseteq 0..255
                          /\ ColumnInputs \subseteq (0..255) \X (0..255)
                          /\ PageInputs \subseteq (0..255) \X (0..255)

VARIABLES
    state,              \* "idle", "single", "init" or "send"
    operationStep,      \* the step of the operation, numbered as in the enum
    commandType,        \* what waits for the bus or is on it: "none", "single", "data"
    operationOngoing,   \* the I2C master has accepted the command
    commandResult,      \* result variable of the I2C master
    command,            \* contents of commandBuffer
    delayTime,          \* runs counted by the delay step; never reset
    addressingMode,     \* 0 horizontal, 1 vertical, 2 page
    column, page,       \* <<start, end>> of the window
    graphicsData,       \* the buffer handed over by sendGraphicsData
    operationResult,    \* the client whose result variable is published to
    result,             \* the result variables of the clients
    panel               \* what the display controller has received

(* History variables: they record the operation in progress and feed back  *)
(* into nothing.                                                           *)
VARIABLES
    transfers,          \* transfers finished for this operation
    waited,             \* runs of the delay step, counted up to InitDelay + 1
    failed,             \* a transfer of this operation failed
    reconfigured        \* a setter changed the window or mode during this send

request   == <<state, operationStep, operationResult, graphicsData>>
pending   == <<commandType, operationOngoing, commandResult, command>>
settings  == <<addressingMode, column, page>>
history   == <<transfers, waited, failed, reconfigured>>
vars      == <<bus, request, pending, delayTime, settings, result, panel, history>>

-----------------------------------------------------------------------------
(* ssd1306_operation_step_t *)
none_step        == 0
init_delay_step  == 1
init_first_step  == 2       \* set_mux_ratio
init_last_step   == 14      \* display_on
init_done        == 15
data_set_col_position_step  == 16
data_set_page_position_step == 17
data_send_graphics_data_step == 18
data_send_done   == 19

Horizontal == 0
Vertical   == 1
PageMode   == 2
Modes      == {Horizontal, Vertical, PageMode}

(* A command is the register of the controller it writes and the bytes     *)
(* that follow the command byte; opcodes that differ in their low bits     *)
(* only (display on and sleep, segment remap 0 and 127) write one register.*)
Command(reg, args) == [reg |-> reg, args |-> args]

(* What prepare... leaves behind when it refuses its argument: no command. *)
Rejected == Command("none", <<>>)

SetContrast(level)        == Command("contrast", <<level>>)
SetPixels(fromRam)        == Command("pixels", <<IF fromRam THEN 0 ELSE 1>>)
SetInverted(inverted)     == Command("inversion", <<IF inverted THEN 1 ELSE 0>>)
SetDisplay(on)            == Command("display", <<IF on THEN 1 ELSE 0>>)
SetAddressingMode(mode)   == Command("mode", <<mode>>)
SetColumns(window)        == Command("column", window)
SetPages(window)          == Command("page", window)
SetSegmentRemap(remapped) == Command("segment", <<IF remapped THEN 1 ELSE 0>>)
SetScanDirection(remapped) == Command("scan", <<IF remapped THEN 8 ELSE 0>>)
SetChargePump(enable)     == Command("chargePump", <<IF enable THEN 20 ELSE 16>>)

SetDisplayStartLine(line) ==
    IF line <= 63 THEN Command("startLine", <<line>>) ELSE Rejected

SetMultiplexRatio(ratio) ==
    IF ratio \in 16..64 THEN Command("muxRatio", <<ratio - 1>>) ELSE Rejected

SetDisplayOffset(offset) ==
    IF offset <= 63 THEN Command("offset", <<offset>>) ELSE Rejected

SetComPins(alternative, leftRightRemap) ==
    Command("comPins", <<2 + (IF alternative THEN 16 ELSE 0)
                           + (IF leftRightRemap THEN 32 ELSE 0)>>)

SetDisplayClock(divideRatio, frequency) ==
    IF divideRatio \in 1..16 /\ frequency <= 15
      THEN Command("clock", <<(divideRatio - 1) + 16 * frequency>>)
      ELSE Rejected

(* The commands of initDisplay, in the order of its steps, with the values *)
(* of ssd1306_config.h.                                                    *)
InitScript(mode) == <<
    SetMultiplexRatio(63), SetDisplayOffset(0), SetDisplayStartLine(0),
    SetSegmentRemap(TRUE), SetScanDirection(TRUE), SetComPins(TRUE, FALSE),
    SetContrast(127), SetPixels(TRUE), SetInverted(FALSE), SetDisplayClock(1, 8),
    SetChargePump(TRUE), SetAddressingMode(mode), SetDisplay(TRUE) >>

(* The single commands a client may ask for. *)
Requests ==
    UNION ({ {SetContrast(b), SetDisplayStartLine(b), SetMultiplexRatio(b),
              SetDisplayOffset(b)} : b \in Bytes }
           \cup { {SetDisplayClock(d, f)} : d, f \in Bytes }
           \cup { {SetComPins(a, r)} : a, r \in BOOLEAN }
           \cup { {SetPixels(b), SetInverted(b), SetDisplay(b), SetSegmentRemap(b),
                   SetScanDirection(b), SetChargePump(b)} : b \in BOOLEAN })

CommandType == {"none", "single", "data"}
Results     == {"ok", "processing"}

(* Registers the properties tell apart; the controller powers up asleep,   *)
(* in page mode and with the whole display as its window.                  *)
PanelAtReset == [on |-> FALSE, mode |-> PageMode, column |-> <<0, 127>>, page |-> <<0, 7>>]

PanelAfter(c) ==
    CASE c.reg = "display" -> [panel EXCEPT !.on = (c.args[1] = 1)]
      [] c.reg = "mode"    -> [panel EXCEPT !.mode = c.args[1]]
      [] c.reg = "column"  -> [panel EXCEPT !.column = c.args]
      [] c.reg = "page"    -> [panel EXCEPT !.page = c.args]
      [] OTHER             -> panel

Init ==
    /\ BusInit
    /\ state = "idle"
    /\ operationStep = none_step
    /\ commandType = "none"
    /\ operationOngoing = FALSE
    /\ commandResult = "ok"
    /\ command = Rejected
    /\ delayTime = 0
    /\ addressingMode = PageMode
    /\ column = <<0, 127>>
    /\ page = <<0, 7>>
    /\ graphicsData = NULL
    /\ operationResult = NULL
    /\ result \in [Clients -> Results]
    /\ panel = PanelAtReset
    /\ transfers = 0
    /\ waited = 0
    /\ failed = FALSE
    /\ reconfigured = FALSE

-----------------------------------------------------------------------------
(* Helpers of the driver *)

(* createSingleCommand, behind the range check of its caller. *)
Prepare(c) ==
    IF c = Rejected
      THEN UNCHANGED <<commandType, command>>
      ELSE commandType' = "single" /\ command' = c

(* The history is that of one operation. *)
NewHistory ==
    /\ transfers' = 0
    /\ waited' = 0
    /\ failed' = FALSE
    /\ reconfigured' = FALSE

(* A handler whose operation is over publishes to its client. *)
OperationDone ==
    /\ state' = "idle"
    /\ result' = [result EXCEPT ![operationResult] = "ok"]
    /\ NewHistory
    /\ UNCHANGED <<operationStep, operationResult, graphicsData>>

-----------------------------------------------------------------------------
(* Calls of the clients *)

(* Mutant: the result is not set to processing. *)
InitDisplay_stale(c) ==
    /\ state = "idle"
    /\ state' = "init"
    /\ operationStep' = init_delay_step
    /\ operationResult' = c
    /\ NewHistory
    /\ UNCHANGED <<bus, pending, delayTime, settings, graphicsData, result, panel>>

(* ssd1306_initDisplay, when it accepts the request. *)
AcceptInit(c) ==
    /\ state = "idle"
    /\ state' = "init"
    /\ operationStep' = init_delay_step
    /\ operationResult' = c
    /\ result' = [result EXCEPT ![c] = "processing"]
    /\ NewHistory
    /\ UNCHANGED <<bus, pending, delayTime, graphicsData, panel>>

InitDisplay(c) == AcceptInit(c) /\ UNCHANGED settings

(* Mutant: the request is not checked against the state. *)
SingleCommand_unguarded(c, cmd) ==
    /\ Prepare(cmd)
    /\ state' = "single"
    /\ operationResult' = c
    /\ NewHistory
    /\ UNCHANGED <<bus, operationStep, operationOngoing, commandResult, delayTime,
                   settings, graphicsData, result, panel>>

(* The fundamental, hardware configuration, timing and charge pump commands: *)
(* the request is accepted even when the argument is not.                    *)
SingleCommand(c, cmd) ==
    /\ state = "idle"
    /\ Prepare(cmd)
    /\ state' = "single"
    /\ operationResult' = c
    /\ NewHistory
    /\ UNCHANGED <<bus, operationStep, operationOngoing, commandResult, delayTime,
                   settings, graphicsData, result, panel>>

(* ssd1306_sendGraphicsData, when it accepts the request. *)
AcceptSend(c, buffer) ==
    /\ state = "idle"
    /\ graphicsData' = buffer
    /\ state' = "send"
    /\ operationResult' = c
    /\ operationStep' = data_set_col_position_step
    /\ NewHistory
    /\ UNCHANGED <<bus, pending, delayTime, result, panel>>

SendGraphicsData(c, buffer) == AcceptSend(c, buffer) /\ UNCHANGED settings

(* The setters are not guarded by the state; one that changes a value      *)
(* while data is being sent is remembered.                                 *)
Reconfigure ==
    /\ reconfigured' = (reconfigured \/ (state = "send" /\ settings' # settings))
    /\ UNCHANGED <<bus, request, pending, delayTime, result, panel, transfers, waited, failed>>

(* ssd1306_setMemoryAddressingMode *)
SetMemoryAddressingMode(mode) ==
    /\ addressingMode' = IF mode \in Modes THEN mode ELSE addressingMode
    /\ UNCHANGED <<column, page>>
    /\ Reconfigure

(* Mutant: the end of the window is checked by the start. *)
Window_wrong_end(old, input, size) ==
    <<IF input[1] < size THEN input[1] ELSE old[1],
      IF input[1] < size THEN input[2] ELSE old[2]>>

(* Each end of a window is taken if it is on the display. *)
Window(old, input, size) ==
    <<IF input[1] < size THEN input[1] ELSE old[1],
      IF input[2] < size THEN input[2] ELSE old[2]>>

(* ssd1306_setColumnAddress *)
SetColumnAddress(input) ==
    /\ column' = Window(column, input, 128)
    /\ UNCHANGED <<addressingMode, page>>
    /\ Reconfigure

(* ssd1306_setPageAddress *)
SetPageAddress(input) ==
    /\ page' = Window(page, input, 8)
    /\ UNCHANGED <<addressingMode, column>>
    /\ Reconfigure

-----------------------------------------------------------------------------
(* ssd1306_run, one action per way through it *)

(* The transfer is in flight: wait. *)
RunWaits ==
    /\ operationOngoing
    /\ commandResult = "processing"
    /\ UNCHANGED vars

(* Mutant: the accepted transfer is not remembered. *)
RunTransmits_forgotten ==
    /\ ~operationOngoing
    /\ commandType # "none"
    /\ Accept(Me)
    /\ commandResult' = "processing"
    /\ UNCHANGED <<request, commandType, operationOngoing, command, delayTime, settings,
                   result, panel, history>>

(* A command waits for the bus: offer it, and offer it again at the next   *)
(* run if it is refused.                                                   *)
RunTransmits ==
    /\ ~operationOngoing
    /\ commandType # "none"
    /\ Accept(Me)
    /\ operationOngoing' = TRUE
    /\ commandResult' = "processing"
    /\ UNCHANGED <<request, commandType, command, delayTime, settings, result, panel, history>>

(* Mutant: a refused command is given up. *)
RunRefused_dropped ==
    /\ ~operationOngoing
    /\ commandType # "none"
    /\ Refuse
    /\ commandType' = "none"
    /\ UNCHANGED <<request, operationOngoing, commandResult, command, delayTime, settings,
                   result, panel, history>>

RunRefused ==
    /\ ~operationOngoing
    /\ commandType # "none"
    /\ Refuse
    /\ UNCHANGED <<request, pending, delayTime, settings, result, panel, history>>

(* Mutants: the run does not wait for the transfer; it waits for ok only. *)
Dispatch_impatient(s) ==
    /\ operationOngoing \/ commandType = "none"
    /\ operationOngoing' = FALSE
    /\ state = s
    /\ UNCHANGED <<bus, commandResult, settings, panel>>

Dispatch_ok_only(s) ==
    /\ IF operationOngoing THEN commandResult = "ok" ELSE commandType = "none"
    /\ operationOngoing' = FALSE
    /\ state = s
    /\ UNCHANGED <<bus, commandResult, settings, panel>>

(* Otherwise the run goes on to the operation: the command, if there was   *)
(* one, is over, well or badly.                                            *)
Dispatch(s) ==
    /\ IF operationOngoing THEN commandResult # "processing" ELSE commandType = "none"
    /\ operationOngoing' = FALSE
    /\ state = s
    /\ UNCHANGED <<bus, commandResult, settings, panel>>

(* Nothing more to do for a single command. *)
RunIdle ==
    /\ \E s \in {"idle", "single"} : Dispatch(s)
    /\ commandType' = "none"
    /\ UNCHANGED <<request, command, delayTime, result, history>>

(* What the next step of an operation asks for, if anything. *)
StepCommand(c) ==
    /\ commandType' = IF c = Rejected THEN "none" ELSE "single"
    /\ command' = IF c = Rejected THEN command ELSE c
    /\ operationStep' = operationStep + 1
    /\ UNCHANGED <<state, operationResult, graphicsData, delayTime, result, history>>

(* Mutants: the delay is compared with >=; the counter saturates. *)
RunInitDelay_at_least ==
    /\ Dispatch("init")
    /\ operationStep = init_delay_step
    /\ delayTime' = (delayTime + 1) % DelayMod
    /\ operationStep' = IF delayTime >= InitDelay THEN init_first_step ELSE operationStep
    /\ waited' = IF waited <= InitDelay THEN waited + 1 ELSE waited
    /\ commandType' = "none"
    /\ UNCHANGED <<state, operationResult, graphicsData, command, result,
                   transfers, failed, reconfigured>>

RunInitDelay_saturating ==
    /\ Dispatch("init")
    /\ operationStep = init_delay_step
    /\ delayTime' = IF delayTime + 1 < DelayMod THEN delayTime + 1 ELSE delayTime
    /\ operationStep' = IF delayTime = InitDelay THEN init_first_step ELSE operationStep
    /\ waited' = IF waited <= InitDelay THEN waited + 1 ELSE waited
    /\ commandType' = "none"
    /\ UNCHANGED <<state, operationResult, graphicsData, command, result,
                   transfers, failed, reconfigured>>

RunInitDelay ==
    /\ Dispatch("init")
    /\ operationStep = init_delay_step
    /\ delayTime' = (delayTime + 1) % DelayMod
    /\ operationStep' = IF delayTime = InitDelay THEN init_first_step ELSE operationStep
    /\ waited' = IF waited <= InitDelay THEN waited + 1 ELSE waited
    /\ commandType' = "none"
    /\ UNCHANGED <<state, operationResult, graphicsData, command, result,
                   transfers, failed, reconfigured>>

RunInitStep ==
    /\ Dispatch("init")
    /\ operationStep \in init_first_step..init_last_step
    /\ StepCommand(InitScript(addressingMode)[operationStep - 1])

RunInitDone ==
    /\ Dispatch("init")
    /\ operationStep = init_done
    /\ commandType' = "none"
    /\ OperationDone
    /\ UNCHANGED <<command, delayTime>>

(* Mutant: the window is sent in horizontal mode only. *)
WindowCommand_horizontal(c) == IF addressingMode # Horizontal THEN Rejected ELSE c

(* prepareSetColumnAddress, prepareSetPageAddress: nothing in page mode. *)
WindowCommand(c) == IF addressingMode = PageMode THEN Rejected ELSE c

RunSendColumn ==
    /\ Dispatch("send")
    /\ operationStep = data_set_col_position_step
    /\ StepCommand(WindowCommand(SetColumns(column)))

RunSendPage ==
    /\ Dispatch("send")
    /\ operationStep = data_set_page_position_step
    /\ StepCommand(WindowCommand(SetPages(page)))

RunSendBuffer ==
    /\ Dispatch("send")
    /\ operationStep = data_send_graphics_data_step
    /\ commandType' = "data"
    /\ operationStep' = data_send_done
    /\ UNCHANGED <<state, operationResult, graphicsData, command, delayTime, result, history>>

RunSendDone ==
    /\ Dispatch("send")
    /\ operationStep = data_send_done
    /\ commandType' = "none"
    /\ OperationDone
    /\ UNCHANGED <<command, delayTime>>

Run ==
    \/ RunWaits \/ RunTransmits \/ RunRefused \/ RunIdle
    \/ RunInitDelay \/ RunInitStep \/ RunInitDone
    \/ RunSendColumn \/ RunSendPage \/ RunSendBuffer \/ RunSendDone

-----------------------------------------------------------------------------
(* The I2C master and the other driver on the bus (external) *)

(* What the controller has received when the transfer succeeds. *)
Received == IF commandType = "single" THEN PanelAfter(command) ELSE panel

TransferEnds ==
    /\ Finish(Me)
    /\ transfers' = transfers + 1
    /\ UNCHANGED <<request, commandType, operationOngoing, command, delayTime,
                   settings, result, waited, reconfigured>>

TransferSucceeds ==
    /\ TransferEnds
    /\ commandResult' = "ok"
    /\ panel' = Received
    /\ UNCHANGED failed

(* A transfer that fails may or may not have reached the controller. *)
TransferFails ==
    /\ TransferEnds
    /\ commandResult' = "error"
    /\ panel' \in {panel, Received}
    /\ failed' = TRUE

OtherUser ==
    /\ \E u \in Users \ {Me} : Accept(u) \/ Finish(u)
    /\ UNCHANGED <<request, pending, delayTime, settings, result, panel, history>>

-----------------------------------------------------------------------------
Calls ==
    \/ \E c \in Clients :
          \/ InitDisplay(c)
          \/ \E cmd \in Requests : SingleCommand(c, cmd)
          \/ \E b \in Buffers : SendGraphicsData(c, b)
    \/ \E mode \in 0..3 : SetMemoryAddressingMode(mode)
    \/ \E input \in ColumnInputs : SetColumnAddress(input)
    \/ \E input \in PageInputs : SetPageAddress(input)

Next == Calls \/ Run \/ TransferSucceeds \/ TransferFails \/ OtherUser

(* The scheduler polls the driver for ever, a transfer in flight ends, and *)
(* the driver is not refused for ever: whenever the bus is free at one of  *)
(* its runs again and again, one of those runs finds it free.              *)
Fairness ==
    /\ WF_vars(Run)
    /\ SF_vars(RunTransmits)
    /\ WF_vars(TransferSucceeds \/ TransferFails)
    /\ \A u \in Users \ {Me} : WF_vars(Finish(u) /\ OtherUser)

Spec == Init /\ [][Next]_vars /\ Fairness

-----------------------------------------------------------------------------
(* Properties *)

Commands ==
    {Rejected} \cup Requests
    \cup { InitScript(mode)[i] : mode \in Modes, i \in 1..13 }
    \cup { SetColumns(w) : w \in (0..127) \X (0..127) }
    \cup { SetPages(w) : w \in (0..7) \X (0..7) }

Panels == [on : BOOLEAN, mode : Modes,
           column : (0..127) \X (0..127), page : (0..7) \X (0..7)]

DataTypeOK ==
    /\ BusTypeOK
    /\ state \in {"idle", "single", "init", "send"}
    /\ operationStep \in none_step..data_send_done
    /\ commandType \in CommandType
    /\ commandResult \in {"ok", "processing", "error"}
    /\ command \in Commands
    /\ delayTime \in 0..(DelayMod - 1)
    /\ addressingMode \in Modes
    /\ column \in (0..127) \X (0..127)
    /\ page \in (0..7) \X (0..7)
    /\ graphicsData \in Buffers \cup {NULL}
    /\ operationResult \in Clients \cup {NULL}
    /\ state # "idle" => operationResult \in Clients
    /\ result \in [Clients -> Results]
    /\ panel \in Panels
    /\ transfers \in Nat
    /\ waited \in 0..(InitDelay + 1)

FlagTypeOK ==
    /\ operationOngoing \in BOOLEAN
    /\ failed \in BOOLEAN
    /\ reconfigured \in BOOLEAN

(* The values every variable of the driver may take. *)
TypeOK == DataTypeOK /\ FlagTypeOK

(* The driver never offers itself to a client (state idle) while one of    *)
(* its commands still waits for the bus or is on it: the only guard that   *)
(* keeps commandBuffer from being rewritten under a transfer is the state. *)
IdleMeansQuiet ==
    state = "idle" => commandType = "none" /\ ~operationOngoing /\ bus # Me

(* The driver's two flags agree with the bus: it waits exactly when a      *)
(* transfer of its own is in flight, so no completion is missed and none   *)
(* is awaited that cannot come.                                            *)
TransferAccounting ==
    (operationOngoing /\ commandResult = "processing") <=> bus = Me

(* While a transfer is in flight the bytes it reads through the pointers   *)
(* (commandBuffer or the graphics buffer) are not touched by any call.     *)
BufferStable ==
    [][bus = Me => UNCHANGED <<commandType, command, graphicsData>>]_vars

(* Number of transfers of a send: the two window commands only outside     *)
(* page mode.                                                              *)
SendLength == IF addressingMode = PageMode THEN 1 ELSE 3

(* What the transfers-th transfer of the operation in progress has to be.  *)
ExpectedInit == \E mode \in Modes : command = InitScript(mode)[transfers + 1]
ExpectedSend ==
    \/ commandType = "data"   /\ transfers + 1 = SendLength
    \/ commandType = "single" /\ transfers = 0 /\ SendLength = 3 /\ command = SetColumns(column)
    \/ commandType = "single" /\ transfers = 1 /\ SendLength = 3 /\ command = SetPages(page)

(* The transfers of an operation are those of its script, in its order,    *)
(* none skipped, repeated or left over from an earlier operation, whatever *)
(* the number of refusals and failures: the init sequence for initDisplay, *)
(* column, page and data for a send, one command for a single command, and *)
(* nothing when the driver is idle.                                        *)
ScriptFollowed ==
    [][bus = Me /\ bus' = "free" =>
          \/ state = "init" /\ commandType = "single" /\ transfers < 13 /\ ExpectedInit
          \/ state = "send" /\ (reconfigured \/ ExpectedSend)
          \/ state = "single" /\ commandType = "single" /\ transfers = 0]_vars

(* An operation is only reported as done after all of its transfers have   *)
(* ended.                                                                  *)
DoneMeansTransferred ==
    [][state # "idle" /\ state' = "idle" =>
          \/ state = "init" /\ transfers = 13
          \/ state = "send" /\ (reconfigured \/ transfers = SendLength)]_vars

(* The power-up delay: every initDisplay, the second one too (delayTime is *)
(* not reset and has to wrap), waits more than InitDelay runs before the   *)
(* first command.                                                          *)
DelayRespected ==
    state = "init" /\ operationStep # init_delay_step => waited > InitDelay

(* A client that asked for initDisplay reads "processing" until the driver *)
(* is idle again, with other clients calling in between.                   *)
InitResultHonest ==
    state = "init" => result[operationResult] = "processing"

(* Graphics data reaches a controller whose window is the configured one,  *)
(* unless a transfer of the send failed, or a setter ran during it.        *)
DataLandsInWindow ==
    [][bus = Me /\ bus' = "free" /\ commandType = "data" /\ addressingMode # PageMode
          /\ ~failed /\ ~reconfigured
        => panel.column = column /\ panel.page = page]_vars

(* An accepted initDisplay ends, with its client told so, although the bus *)
(* is shared and every transfer may fail.                                  *)
InitCompletes ==
    \A c \in Clients : state = "init" /\ operationResult = c ~> state = "idle" /\ result[c] = "ok"

(* So does an accepted sendGraphicsData. *)
SendCompletes ==
    \A c \in Clients : state = "send" /\ operationResult = c ~> state = "idle" /\ result[c] = "ok"

-----------------------------------------------------------------------------
(* The inductive invariant behind the safety properties *)

(* 1 while a command is prepared and its transfer has not ended. *)
Outstanding ==
    IF commandType # "none" /\ ~(operationOngoing /\ commandResult # "processing")
      THEN 1 ELSE 0

(* The flags of ssd1306_run, the bus and the state agree. *)
FlagsInv ==
    /\ TransferAccounting
    /\ operationOngoing => commandType # "none"
    /\ state = "idle" => commandType = "none"

(* Each operation stays within its steps, and the command on its way is    *)
(* the one of the step before.                                             *)
InitOpInv ==
    state = "init" =>
      /\ operationStep \in init_delay_step..init_done
      /\ operationStep = init_delay_step => commandType = "none" /\ transfers = 0
      /\ operationStep # init_delay_step => transfers + Outstanding = operationStep - 2
      /\ commandType # "none" =>
            /\ commandType = "single"
            /\ \E mode \in Modes : command = InitScript(mode)[operationStep - 2]

SendOpInv ==
    state = "send" =>
      /\ operationStep \in data_set_col_position_step..data_send_done
      /\ ~reconfigured =>
            /\ transfers + Outstanding =
                  IF addressingMode # PageMode THEN operationStep - data_set_col_position_step
                  ELSE IF operationStep = data_send_done THEN 1 ELSE 0
            /\ commandType # "none" =>
                 CASE operationStep = data_set_page_position_step ->
                        commandType = "single" /\ command = SetColumns(column)
                   [] operationStep = data_send_graphics_data_step ->
                        commandType = "single" /\ command = SetPages(page)
                   [] operationStep = data_send_done -> commandType = "data"
                   [] OTHER -> FALSE

(* Also a send that is reconfigured has at most three transfers, and the   *)
(* data is one of them.                                                    *)
SendLimitInv ==
    state = "send" =>
      /\ transfers + Outstanding <= operationStep - data_set_col_position_step
      /\ operationStep = data_send_done => transfers + Outstanding >= 1

SingleOpInv ==
    state = "single" => commandType # "data" /\ transfers + Outstanding <= 1

(* The delay counter runs behind the runs waited, or has passed the value  *)
(* it is compared with and must wrap first.                                *)
DelayInv ==
    /\ delayTime = 0 \/ delayTime > InitDelay
         \/ (state = "init" /\ operationStep = init_delay_step /\ delayTime <= waited)
    /\ DelayRespected

(* What the controller knows of the window, as far as the send has come.   *)
WindowInv ==
    state = "send" /\ addressingMode # PageMode /\ ~failed /\ ~reconfigured =>
      /\ transfers >= 1 => panel.column = column
      /\ transfers >= 2 => panel.page = page

DriverInv ==
    /\ FlagsInv
    /\ InitOpInv
    /\ SendOpInv
    /\ SendLimitInv
    /\ SingleOpInv
    /\ DelayInv
    /\ InitResultHonest
    /\ WindowInv

-----------------------------------------------------------------------------
(* What the documentation says and the code does not do. *)

(* ssd1306.h:20-23, every accepted request is processed and its result     *)
(* published: an accepted single command brings the driver back to idle.   *)
SingleCommandCompletes == state = "single" ~> state = "idle"

(* ssd1306.h:101, the addressing mode "will be used when data is sent to   *)
(* the display": on a display that is on, and without failures, data is    *)
(* received in the configured mode.                                        *)
DataUsesConfiguredMode ==
    [][bus = Me /\ bus' = "free" /\ commandType = "data" /\ panel.on
          /\ ~failed /\ ~reconfigured
        => panel.mode = addressingMode]_vars

(* ssd1306.h:211-213, the buffer belongs to the driver "until the result   *)
(* output parameter is set to ssd1306_result_ok": a client whose data is   *)
(* still to be sent does not read ok.                                      *)
SendResultHonest ==
    state = "send" => result[operationResult] = "processing"
=============================================================================
