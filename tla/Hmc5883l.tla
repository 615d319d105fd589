------------------------------ MODULE Hmc5883l ------------------------------
(***************************************************************************)
(* The HMC5883L compass driver (src/hmc5883l/hmc5883l.c): a singleton that *)
(* turns a request for one measurement into four I2C transfers (register   *)
(* CRA, register CRB, the mode register, and the read of the six data      *)
(* registers), one step per call of hmc_task_run.                          *)
(*                                                                         *)
(* The driver does not check its state when a measurement is started:      *)
(* hmc5883l.h asks the application to wait until the driver is ready.  The *)
(* model's clients do, as far as they can tell: nobody starts a            *)
(* measurement while a result reads processing.  The configuration         *)
(* registers may be set at any time.                                       *)
(***************************************************************************)
EXTENDS I2cMaster, Naturals, Sequences

CONSTANTS
    Me,             \* the name of this driver among the users of the I2C master
    Clients,        \* callers; each owns one result variable
    NULL,           \* the null pointer
    ConfigBytes,    \* values the clients give the configuration registers
    Samples         \* what the sensor may measure: [x, y, z], each 16 bits

Byte == 0..255
Word == 0..65535

ASSUME MeAssumption == Me \in Users
ASSUME NullAssumption == NULL \notin Clients
ASSUME ConfigAssumption == ConfigBytes \subseteq Byte
ASSUME SampleAssumption == Samples \subseteq [x : Word, y : Word, z : Word] /\ Samples # {}

VARIABLES
    state,                  \* hmc_state_t
    cra, crb,               \* values for the configuration registers
    configurationStatus,    \* which of them were requested (no code sets the SET bits)
    driverStatus,           \* "idle" or "error"; nothing reads it
    opResult,               \* the client whose result variable is published to
    result,                 \* the result variables of the clients
    i2cResult,              \* result variable of the I2C master
    i2cBuffer,              \* the six bytes of i2c_buffer
    chip                    \* registers of the sensor: cra, crb and the last sample

(* History variables: what the measurement in progress has done.           *)
VARIABLES
    done,                   \* the registers transferred, in order
    failed,                 \* one of its transfers failed
    reconfigured            \* configuration registers set since they were last sent

config  == <<cra, crb, configurationStatus>>
request == <<driverStatus, opResult>>
history == <<done, failed, reconfigured>>
vars    == <<bus, state, config, request, result, i2cResult, i2cBuffer, chip, history>>

-----------------------------------------------------------------------------
(* Mutant: the second configuration register is left out. *)
Steps_no_crb == {
    [send |-> "send_cra",  register |-> "CRA",  wait |-> "wait_cra",  next |-> "send_mode"],
    [send |-> "send_crb",  register |-> "CRB",  wait |-> "wait_crb",  next |-> "send_mode"],
    [send |-> "send_mode", register |-> "MODE", wait |-> "wait_mode", next |-> "read"],
    [send |-> "read",      register |-> "DATA", wait |-> "wait_read", next |-> "idle"] }

(* A sending state, the register it sends to, the state that waits for the *)
(* transfer, and the state that follows when it went well.                 *)
Steps == {
    [send |-> "send_cra",  register |-> "CRA",  wait |-> "wait_cra",  next |-> "send_crb"],
    [send |-> "send_crb",  register |-> "CRB",  wait |-> "wait_crb",  next |-> "send_mode"],
    [send |-> "send_mode", register |-> "MODE", wait |-> "wait_mode", next |-> "read"],
    [send |-> "read",      register |-> "DATA", wait |-> "wait_read", next |-> "idle"] }

States == {"idle"} \cup { s.send : s \in Steps } \cup { s.wait : s \in Steps }

Waiting == { s.wait : s \in Steps }

Results == {"ok", "processing", "error"}

(* The data registers, X, Z, Y, most significant byte first (external). *)
DataRegisters(sample) == <<sample.x \div 256, sample.x % 256, sample.z \div 256,
                           sample.z % 256, sample.y \div 256, sample.y % 256>>

(* Two bytes of the buffer as one value. *)
FromBytes(msb, lsb) == msb * 256 + lsb

(* Mutant: the registers are taken in the order X, Y, Z. *)
GetMeasurementData_xyz(buffer) == [x |-> FromBytes(buffer[1], buffer[2]),
                                   y |-> FromBytes(buffer[3], buffer[4]),
                                   z |-> FromBytes(buffer[5], buffer[6])]

(* hmc_get_measurement_data *)
GetMeasurementData(buffer) == [x |-> FromBytes(buffer[1], buffer[2]),
                               z |-> FromBytes(buffer[3], buffer[4]),
                               y |-> FromBytes(buffer[5], buffer[6])]

Init ==
    /\ BusInit
    /\ state = "idle"
    /\ cra = 0 /\ crb = 0
    /\ configurationStatus = {}
    /\ driverStatus = "idle"
    /\ opResult = NULL
    /\ result \in [Clients -> {"ok", "error"}]
    /\ i2cResult = "ok"
    /\ i2cBuffer = [i \in 1..6 |-> 0]
    /\ \E s \in Samples : chip = [cra |-> 16, crb |-> 32, sample |-> s]
    /\ done = <<>>
    /\ failed = FALSE
    /\ reconfigured = {}

-----------------------------------------------------------------------------
(* Calls of the clients *)

(* Mutants: the SET bit is set before anything was sent; the value is put  *)
(* in the buffer at once.                                                  *)
SetConfigRegA_set(value) ==
    /\ cra' = value
    /\ configurationStatus' = configurationStatus \cup {"CRA_REQUESTED", "CRA_SET"}
    /\ reconfigured' = reconfigured \cup {"CRA"}
    /\ UNCHANGED <<bus, state, crb, request, result, i2cResult, i2cBuffer, chip, done, failed>>

SetConfigRegA_loaded(value) ==
    /\ cra' = value
    /\ configurationStatus' = (configurationStatus \cup {"CRA_REQUESTED"}) \ {"CRA_SET"}
    /\ i2cBuffer' = [i2cBuffer EXCEPT ![1] = value]
    /\ reconfigured' = reconfigured \cup {"CRA"}
    /\ UNCHANGED <<bus, state, crb, request, result, i2cResult, chip, done, failed>>

(* hmc_set_config_reg_A *)
SetConfigRegA(value) ==
    /\ cra' = value
    /\ configurationStatus' = (configurationStatus \cup {"CRA_REQUESTED"}) \ {"CRA_SET"}
    /\ reconfigured' = reconfigured \cup {"CRA"}
    /\ UNCHANGED <<bus, state, crb, request, result, i2cResult, i2cBuffer, chip, done, failed>>

(* hmc_set_config_reg_B *)
SetConfigRegB(value) ==
    /\ crb' = value
    /\ configurationStatus' = (configurationStatus \cup {"CRB_REQUESTED"}) \ {"CRB_SET"}
    /\ reconfigured' = reconfigured \cup {"CRB"}
    /\ UNCHANGED <<bus, state, cra, request, result, i2cResult, i2cBuffer, chip, done, failed>>

(* No client has been told that a measurement is in progress. *)
Ready == \A c \in Clients : result[c] # "processing"

Configured == configurationStatus = {"CRA_REQUESTED", "CRB_REQUESTED"}

(* Mutant: the result is only set when there is an error. *)
StartSingleMeasurement_stale(c) ==
    /\ Ready
    /\ opResult' = c
    /\ IF Configured
         THEN state' = "send_cra" /\ UNCHANGED <<driverStatus, result>>
         ELSE /\ driverStatus' = "error" /\ UNCHANGED state
              /\ result' = [result EXCEPT ![c] = "processing"]
    /\ done' = <<>>
    /\ failed' = FALSE
    /\ UNCHANGED <<bus, config, i2cResult, i2cBuffer, chip, reconfigured>>

(* hmc_start_single_measurement.  The status is compared with exactly the  *)
(* two REQUESTED bits, so the branches for bits already SET cannot be      *)
(* taken and every measurement sends the configuration again.              *)
StartSingleMeasurement(c) ==
    /\ Ready
    /\ opResult' = c
    /\ result' = [result EXCEPT ![c] = "processing"]
    /\ IF Configured
         THEN state' = "send_cra" /\ UNCHANGED driverStatus
         ELSE driverStatus' = "error" /\ UNCHANGED state
    /\ done' = <<>>
    /\ failed' = FALSE
    /\ UNCHANGED <<bus, config, i2cResult, i2cBuffer, chip, reconfigured>>

-----------------------------------------------------------------------------
(* hmc_task_run, one action per way through it *)

(* Mutant: there is no check after the switch. *)
EndOfRun_unchecked(newState, newResult) == state' = newState /\ result' = newResult

(* Mutant: the error is published, but the measurement goes on. *)
EndOfRun_goes_on(newState, newResult) ==
    IF i2cResult' = "error"
      THEN state' = newState /\ result' = [newResult EXCEPT ![opResult] = "error"]
      ELSE state' = newState /\ result' = newResult

(* The check after the switch: an error of the I2C master ends the         *)
(* measurement, whatever the switch has done.                              *)
EndOfRun(newState, newResult) ==
    IF i2cResult' = "error"
      THEN state' = "idle" /\ result' = [newResult EXCEPT ![opResult] = "error"]
      ELSE state' = newState /\ result' = newResult

RunIdle == state = "idle" /\ UNCHANGED vars

(* Mutant: both configuration registers get the value of the first. *)
Loaded_cra_twice(register) ==
    CASE register \in {"CRA", "CRB"} -> [i2cBuffer EXCEPT ![1] = cra]
      [] register = "MODE" -> [i2cBuffer EXCEPT ![1] = 2]
      [] register = "DATA" -> i2cBuffer

(* The byte a sending state writes to the buffer; reading writes none. *)
Loaded(register) ==
    CASE register = "CRA"  -> [i2cBuffer EXCEPT ![1] = cra]
      [] register = "CRB"  -> [i2cBuffer EXCEPT ![1] = crb]
      [] register = "MODE" -> [i2cBuffer EXCEPT ![1] = 2]
      [] register = "DATA" -> i2cBuffer

(* Mutant: the driver stays in its sending state. *)
RunSend_again(s) ==
    /\ state = s.send
    /\ i2cBuffer' = Loaded(s.register)
    /\ Accept(Me)
    /\ i2cResult' = "processing"
    /\ EndOfRun(s.send, result)
    /\ reconfigured' = reconfigured \ {s.register}
    /\ UNCHANGED <<config, request, chip, done, failed>>

RunSend(s) ==
    /\ state = s.send
    /\ i2cBuffer' = Loaded(s.register)
    /\ Accept(Me)
    /\ i2cResult' = "processing"
    /\ EndOfRun(s.wait, result)
    /\ reconfigured' = reconfigured \ {s.register}
    /\ UNCHANGED <<config, request, chip, done, failed>>

(* The master is busy: the state stays, and the check after the switch     *)
(* looks at the result of whatever transfer was made before.               *)
RunRefused(s) ==
    /\ state = s.send
    /\ i2cBuffer' = Loaded(s.register)
    /\ Refuse
    /\ UNCHANGED i2cResult
    /\ EndOfRun(s.send, result)
    /\ UNCHANGED <<config, request, chip, history>>

(* A waiting state goes on when the transfer went well; the last one       *)
(* publishes.                                                              *)
RunWait(s) ==
    /\ state = s.wait
    /\ UNCHANGED i2cResult
    /\ IF i2cResult = "ok"
         THEN EndOfRun(s.next, IF s.next = "idle" THEN [result EXCEPT ![opResult] = "ok"]
                                                  ELSE result)
         ELSE EndOfRun(state, result)
    /\ UNCHANGED <<bus, config, request, i2cBuffer, chip, history>>

Run ==
    \/ RunIdle
    \/ \E s \in Steps : RunSend(s) \/ RunRefused(s) \/ RunWait(s)

-----------------------------------------------------------------------------
(* The I2C master, the sensor and the other driver on the bus (external) *)

(* The sensor receives one byte, and measures when it is the mode. *)
ChipReceives(register) ==
    CASE register = "CRA"  -> chip' = [chip EXCEPT !.cra = i2cBuffer[1]]
      [] register = "CRB"  -> chip' = [chip EXCEPT !.crb = i2cBuffer[1]]
      [] register = "MODE" -> \E m \in Samples : chip' = [chip EXCEPT !.sample = m]
      [] register = "DATA" -> UNCHANGED chip

TransferSucceeds(s) ==
    /\ state = s.wait
    /\ Finish(Me)
    /\ i2cResult' = "ok"
    /\ ChipReceives(s.register)
    /\ i2cBuffer' = IF s.register = "DATA" THEN DataRegisters(chip.sample) ELSE i2cBuffer
    /\ done' = Append(done, s.register)
    /\ UNCHANGED <<state, config, request, result, failed, reconfigured>>

(* A failed transfer may or may not have reached the sensor, or have read. *)
TransferFails(s) ==
    /\ state = s.wait
    /\ Finish(Me)
    /\ i2cResult' = "error"
    /\ ChipReceives(s.register) \/ UNCHANGED chip
    /\ i2cBuffer' \in IF s.register = "DATA" THEN {i2cBuffer, DataRegisters(chip.sample)}
                                             ELSE {i2cBuffer}
    /\ failed' = TRUE
    /\ UNCHANGED <<state, config, request, result, done, reconfigured>>

TransferEnds == \E s \in Steps : TransferSucceeds(s) \/ TransferFails(s)

OtherUser ==
    /\ \E u \in Users \ {Me} : Accept(u) \/ Finish(u)
    /\ UNCHANGED <<state, config, request, result, i2cResult, i2cBuffer, chip, history>>

-----------------------------------------------------------------------------
Calls ==
    \/ \E v \in ConfigBytes : SetConfigRegA(v) \/ SetConfigRegB(v)
    \/ \E c \in Clients : StartSingleMeasurement(c)

Next == Calls \/ Run \/ TransferEnds \/ OtherUser

(* The scheduler polls the driver, transfers end, and the driver is not    *)
(* refused for ever.                                                       *)
Fairness ==
    /\ WF_vars(Run)
    /\ SF_vars(\E s \in Steps : RunSend(s))
    /\ WF_vars(TransferEnds)
    /\ \A u \in Users \ {Me} : WF_vars(Finish(u) /\ OtherUser)

Spec == Init /\ [][Next]_vars /\ Fairness

-----------------------------------------------------------------------------
(* Properties *)

DataTypeOK ==
    /\ BusTypeOK
    /\ state \in States
    /\ cra \in Byte /\ crb \in Byte
    /\ configurationStatus \subseteq {"CRA_REQUESTED", "CRB_REQUESTED"}
    /\ driverStatus \in {"idle", "error"}
    /\ opResult \in Clients \cup {NULL}
    /\ state # "idle" => opResult \in Clients
    /\ result \in [Clients -> Results]
    /\ i2cResult \in Results
    /\ i2cBuffer \in [1..6 -> Byte]
    /\ chip \in [cra : Byte, crb : Byte, sample : Samples]
    /\ done \in Seq({"CRA", "CRB", "MODE", "DATA"})

FlagTypeOK == failed \in BOOLEAN /\ reconfigured \subseteq {"CRA", "CRB"}

(* The values every variable of the driver may take. *)
TypeOK == DataTypeOK /\ FlagTypeOK

(* The driver waits exactly while a transfer of its own is in flight: an   *)
(* error, a stale one too, never takes it back to idle over a transfer     *)
(* that is still using its buffer.                                         *)
TransferAccounting == bus = Me <=> (state \in Waiting /\ i2cResult = "processing")

(* The buffer a transfer reads from or writes to stays as it was offered   *)
(* until the transfer ends, whatever the clients configure meanwhile.      *)
BufferStable == [][bus = Me /\ bus' = Me => UNCHANGED i2cBuffer]_vars

(* A measurement is only reported ok when this very measurement has        *)
(* configured the sensor, started it and read it, in that order.           *)
OkMeansMeasured ==
    [][\A c \in Clients : result[c] = "processing" /\ result'[c] = "ok"
          => done = <<"CRA", "CRB", "MODE", "DATA">> /\ ~failed]_vars

(* From then until somebody starts the next measurement, what              *)
(* hmc_get_measurement_data returns is what the sensor measured.           *)
DataIsSample ==
    state = "idle" /\ Len(done) = 4 => GetMeasurementData(i2cBuffer) = chip.sample

(* ... and the sensor measured with the configuration the clients had      *)
(* asked for, also when they set it while the measurement was running: a   *)
(* register set before it was sent (the bus may have been refused          *)
(* meanwhile) takes effect, whatever became of the other one.              *)
SensorConfigured ==
    state = "idle" /\ Len(done) = 4 =>
        /\ "CRA" \notin reconfigured => chip.cra = cra
        /\ "CRB" \notin reconfigured => chip.crb = crb

(* The client reads processing for as long as its measurement runs         *)
(* (hmc5883l.h:105-106).                                                   *)
ResultHonest == state # "idle" => result[opResult] = "processing"

(* The driver implements CompassDriver: four commands in a row and none    *)
(* after a failure, the client of this measurement told how it ended, and  *)
(* the data that hmc_get_measurement_data returns left alone from the      *)
(* result to the first run of the next measurement.                        *)
Promised == INSTANCE CompassDriver WITH
    Nobody    <- NULL,
    measuring <- (state # "idle"),
    client    <- opResult,
    sending   <- (bus = Me),
    ended     <- Len(done),
    broken    <- failed,
    sample    <- chip.sample,
    reading   <- GetMeasurementData(i2cBuffer)

ImplementsCompassDriver == Promised!Spec

(* A measurement that was started on a configured driver ends, and its     *)
(* client is told how.                                                     *)
MeasurementEnds ==
    \A c \in Clients :
        state # "idle" /\ opResult = c ~> state = "idle" /\ result[c] # "processing"

-----------------------------------------------------------------------------
(* The inductive invariant behind the safety properties *)

(* The registers transferred before the step that sends a register. *)
Before == [CRA |-> <<>>, CRB |-> <<"CRA">>, MODE |-> <<"CRA", "CRB">>,
           DATA |-> <<"CRA", "CRB", "MODE">>]

(* Where the driver stands in the sequence is what has been transferred;   *)
(* only the first step can meet the error of an earlier measurement.       *)
Progress(s) ==
    /\ state = s.send =>
          /\ done = Before[s.register] /\ ~failed
          /\ s.register # "CRA" => i2cResult = "ok"
    /\ state = s.wait =>
          /\ i2cResult = "ok" => done = Append(Before[s.register], s.register)
          /\ i2cResult # "ok" => done = Before[s.register]
          /\ failed <=> i2cResult = "error"

ProgressInv ==
    /\ i2cResult = "processing" => state \in Waiting
    /\ \A s \in Steps : Progress(s)

(* What the sensor holds, and what is on its way to it. *)
ConfigInv ==
    /\ "CRA" \notin reconfigured =>
          /\ state = "wait_cra" => i2cBuffer[1] = cra
          /\ Len(done) >= 1 => chip.cra = cra
    /\ "CRB" \notin reconfigured =>
          /\ state = "wait_crb" => i2cBuffer[1] = crb
          /\ Len(done) >= 2 => chip.crb = crb

(* What was read stays in the buffer. *)
DataInv ==
    state \in {"idle", "wait_read"} /\ Len(done) = 4
      => GetMeasurementData(i2cBuffer) = chip.sample

MeasurementInv ==
    TransferAccounting /\ ResultHonest /\ ProgressInv /\ ConfigInv /\ DataInv

-----------------------------------------------------------------------------
(* What the documentation says and the code does not do. *)

(* hmc5883l.h:104-105, what is published is the result of the operation:   *)
(* an error means that one of its own transfers failed.                    *)
ErrorIsOwn ==
    [][\A c \in Clients : result[c] = "processing" /\ result'[c] = "error" => failed]_vars
=============================================================================
