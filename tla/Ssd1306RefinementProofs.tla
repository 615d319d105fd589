---------------------- MODULE Ssd1306RefinementProofs ----------------------
(***************************************************************************)
(* The SSD1306 driver implements DisplayDriver, for every set of clients,  *)
(* buffers and users of the bus and every length of the delay: its initial *)
(* states are initial states there, and each of its steps is a step there  *)
(* or changes nothing.                                                     *)
(***************************************************************************)
EXTENDS Ssd1306Refinement, Ssd1306Proofs

LEMMA InitialRefined == Init => Promised!Init
BY MeAssumption, UsersAssumption DEF Init, BusInit, Promised!Init, Results, none_step

(* What a client sees does not change. *)
Unseen == UNCHANGED <<state, operationResult, transfers, result>> /\ (bus' = Me <=> bus = Me)

LEMMA StutterRefined == Unseen => UNCHANGED Promised!vars
BY DEF Unseen, Promised!vars

LEMMA CallsRefined == OpenCalls => [Promised!Next]_(Promised!vars)
<1>1. ASSUME NEW c \in Clients, AcceptInit(c) PROVE Promised!AcceptInit(c)
  BY <1>1 DEF AcceptInit, NewHistory, Promised!AcceptInit, Promised!Accept
<1>2. ASSUME NEW c \in Clients, NEW cmd \in Requests, SingleCommand(c, cmd)
      PROVE  Promised!AcceptSingle(c)
  BY <1>2 DEF SingleCommand, NewHistory, Promised!AcceptSingle, Promised!Accept
<1>3. ASSUME NEW c \in Clients, NEW b \in Buffers, AcceptSend(c, b)
      PROVE  Promised!AcceptSend(c)
  BY <1>3 DEF AcceptSend, NewHistory, Promised!AcceptSend, Promised!Accept
<1>4. ASSUME Reconfigure PROVE Unseen
  BY <1>4 DEF Reconfigure, request, Unseen
<1> QED
  BY <1>1, <1>2, <1>3, <1>4, StutterRefined DEF OpenCalls, Promised!Next

(* A command waits for the bus: the operation has commands left.           *)
LEMMA TransmitRefined ==
    ASSUME TypeOK, DriverInv, RunTransmits
    PROVE  Promised!CommandBegins
<1>1. /\ ~operationOngoing /\ commandType # "none" /\ bus = "free" /\ bus' = Me
      /\ UNCHANGED <<state, operationResult, transfers, result>>
  BY DEF RunTransmits, Accept, request, history
<1>2. bus # Me
  BY <1>1, MeAssumption, UsersAssumption
<1>3. Outstanding = 1
  BY <1>1 DEF Outstanding
<1>4. state \in {"idle", "single", "init", "send"} /\ transfers \in Nat /\ operationStep \in Nat
  BY DEF TypeOK, DataTypeOK, none_step, data_send_done
<1>5. state = "single" => transfers < 1
  BY <1>3, <1>4 DEF DriverInv, SingleOpInv
<1>6. state = "init" => transfers < 13
  BY <1>1, <1>3, <1>4 DEF DriverInv, InitOpInv, init_delay_step, init_done
<1>7. state = "send" => transfers < 3
  <2>1. state = "send" => operationStep <= 19 /\ transfers + 1 <= operationStep - 16
    BY <1>3, <1>4 DEF DriverInv, SendOpInv, SendLimitInv, data_set_col_position_step,
                      data_send_done
  <2> QED
    BY <1>4, <2>1
<1>8. state # "idle"
  BY <1>1 DEF DriverInv, FlagsInv
<1>9. transfers < Promised!Limit(state)
  BY <1>4, <1>5, <1>6, <1>7, <1>8 DEF Promised!Limit
<1> QED
  BY <1>1, <1>2, <1>9 DEF Promised!CommandBegins

(* An operation that is over has had its commands.                         *)
LEMMA DoneRefined ==
    ASSUME TypeOK, DriverInv, RunInitDone \/ RunSendDone
    PROVE  Promised!Done
<1>1. /\ state' = "idle" /\ transfers' = 0 /\ result' = [result EXCEPT ![operationResult] = "ok"]
      /\ UNCHANGED <<bus, operationResult>>
  BY DEF RunInitDone, RunSendDone, Dispatch, OperationDone, NewHistory
<1>2. Outstanding = 0
  BY OutstandingDispatch DEF TypeOK, RunInitDone, RunSendDone
<1>3. transfers \in Nat /\ FlagTypeOK
  BY DEF TypeOK, DataTypeOK
<1>4. bus # Me
  BY <1>3 DEF DriverInv, FlagsInv, TransferAccounting, RunInitDone, RunSendDone, Dispatch,
              FlagTypeOK
<1>5. CASE RunInitDone
  <2>1. state = "init" /\ operationStep = 15
    BY <1>5 DEF RunInitDone, Dispatch, init_done
  <2>2. transfers + Outstanding = operationStep - 2
    BY <2>1 DEF DriverInv, InitOpInv, init_delay_step
  <2>3. transfers = 13
    BY <1>2, <1>3, <2>1, <2>2
  <2> QED
    BY <1>1, <1>4, <2>1, <2>3 DEF Promised!Done, Promised!Lengths
<1>6. CASE RunSendDone
  <2>1. state = "send" /\ operationStep = 19
    BY <1>6 DEF RunSendDone, Dispatch, data_send_done
  <2>2. transfers + Outstanding <= 3 /\ transfers + Outstanding >= 1
    BY <2>1 DEF DriverInv, SendLimitInv, data_set_col_position_step, data_send_done
  <2>3. transfers \in 1..3
    BY <1>2, <1>3, <2>2
  <2> QED
    BY <1>1, <1>4, <2>1, <2>3 DEF Promised!Done, Promised!Lengths
<1> QED
  BY <1>5, <1>6

LEMMA RunRefined ==
    ASSUME TypeOK, DriverInv, Run
    PROVE  [Promised!Next]_(Promised!vars)
<1>1. CASE RunWaits \/ RunRefused \/ RunIdle \/ RunInitDelay \/ RunInitStep
           \/ RunSendColumn \/ RunSendPage \/ RunSendBuffer
  <2>1. Unseen
    BY <1>1 DEF Unseen, RunWaits, RunRefused, RunIdle, RunInitDelay, RunInitStep, RunSendColumn,
                RunSendPage, RunSendBuffer, Refuse, Dispatch, StepCommand, vars, request, history
  <2> QED
    BY <2>1, StutterRefined
<1> QED
  BY <1>1, TransmitRefined, DoneRefined DEF Run, Promised!Next

LEMMA BusRefined ==
    ASSUME TypeOK, DriverInv, TransferSucceeds \/ TransferFails \/ OtherUser
    PROVE  [Promised!Next]_(Promised!vars)
<1>1. CASE TransferSucceeds \/ TransferFails
  <2>1. /\ bus = Me /\ bus' = "free" /\ transfers' = transfers + 1
        /\ UNCHANGED <<state, operationResult, result>>
    BY <1>1 DEF TransferSucceeds, TransferFails, TransferEnds, Finish, request
  <2>2. bus' # Me
    BY <2>1, MeAssumption, UsersAssumption
  <2> QED
    BY <2>1, <2>2 DEF Promised!Next, Promised!CommandEnds
<1>2. CASE OtherUser
  <2>1. bus # Me /\ bus' # Me /\ UNCHANGED <<state, operationResult, transfers, result>>
    BY <1>2, MeAssumption, UsersAssumption DEF OtherUser, Accept, Finish, request, history
  <2> QED
    BY <2>1, StutterRefined DEF Unseen
<1> QED
  BY <1>1, <1>2

(* The driver implements what it promises, as a part of any system:        *)
(* initial states map to initial states, and every step to a step of an    *)
(* operation or to a stutter.                                              *)
LEMMA OpenRefinement == OpenSpec => ImplementsDisplayDriver
<1>1. TypeOK /\ DriverInv /\ [OpenNext]_vars => [Promised!Next]_(Promised!vars)
  <2> SUFFICES ASSUME TypeOK, DriverInv, [OpenNext]_vars PROVE [Promised!Next]_(Promised!vars)
    OBVIOUS
  <2>1. CASE UNCHANGED vars
    <3>1. Unseen
      BY <2>1 DEF Unseen, vars, request, history
    <3> QED
      BY <3>1, StutterRefined
  <2> QED
    BY <2>1, CallsRefined, RunRefined, BusRefined DEF OpenNext
<1> QED
  BY <1>1, InitialRefined, OpenTypeCorrect, OpenInvariant, PTL
     DEF OpenSpec, ImplementsDisplayDriver, Promised!Spec

(* So it does alone with its clients. *)
THEOREM Refinement == Spec => ImplementsDisplayDriver
BY Opened, OpenRefinement
=============================================================================
