--------------------------- MODULE Hmc5883lProofs ---------------------------
(***************************************************************************)
(* Proofs about the HMC5883L driver, for every set of clients and users of *)
(* the bus, all configuration values and all samples of the sensor.        *)
(***************************************************************************)
EXTENDS Hmc5883l, TLAPS, SequenceTheorems

(* The steps, as the cases a proof goes through. *)
LEMMA StepCases ==
    ASSUME NEW s \in Steps
    PROVE  \/ /\ s.send = "send_cra" /\ s.register = "CRA"
              /\ s.wait = "wait_cra" /\ s.next = "send_crb"
           \/ /\ s.send = "send_crb" /\ s.register = "CRB"
              /\ s.wait = "wait_crb" /\ s.next = "send_mode"
           \/ /\ s.send = "send_mode" /\ s.register = "MODE"
              /\ s.wait = "wait_mode" /\ s.next = "read"
           \/ /\ s.send = "read" /\ s.register = "DATA"
              /\ s.wait = "wait_read" /\ s.next = "idle"
  BY DEF Steps

LEMMA StateNames ==
    /\ States = {"idle", "send_cra", "send_crb", "send_mode", "read",
                 "wait_cra", "wait_crb", "wait_mode", "wait_read"}
    /\ Waiting = {"wait_cra", "wait_crb", "wait_mode", "wait_read"}
  BY DEF States, Waiting, Steps

(* A word is made of its most and its least significant byte.              *)
LEMMA Recompose ==
    ASSUME NEW v \in Nat, NEW msb \in Nat, NEW lsb \in Nat, lsb = v - 256 * msb
    PROVE  FromBytes(msb, lsb) = v
  BY DEF FromBytes

LEMMA SplitWord ==
    ASSUME NEW v \in Word
    PROVE  v \div 256 \in Byte /\ v % 256 \in Byte /\ FromBytes(v \div 256, v % 256) = v
<1>1. v \in Nat /\ v <= 65535
  BY DEF Word
<1>2. v % 256 = v - 256 * (v \div 256)
  BY <1>1
<1>3. v % 256 \in 0..255
  BY <1>1
<1>4. v \div 256 \in 0..255
  BY <1>1
<1>5. FromBytes(v \div 256, v % 256) = v
  BY <1>1, <1>2, <1>3, <1>4, Recompose
<1> QED
  BY <1>3, <1>4, <1>5 DEF Byte

(* Reading the registers the sensor offers gives the sample back.          *)
LEMMA ReadBack ==
    ASSUME NEW sample \in Samples
    PROVE  /\ DataRegisters(sample) \in [1..6 -> Byte]
           /\ GetMeasurementData(DataRegisters(sample)) = sample
<1> DEFINE d == DataRegisters(sample)
<1>1. sample \in [x : Word, y : Word, z : Word]
  BY SampleAssumption
<1>2. /\ sample.x \in Word /\ sample.y \in Word /\ sample.z \in Word
      /\ sample = [x |-> sample.x, z |-> sample.z, y |-> sample.y]
  BY <1>1
<1>3. /\ d[1] = sample.x \div 256 /\ d[2] = sample.x % 256
      /\ d[3] = sample.z \div 256 /\ d[4] = sample.z % 256
      /\ d[5] = sample.y \div 256 /\ d[6] = sample.y % 256
  BY DEF DataRegisters
<1>4. /\ FromBytes(d[1], d[2]) = sample.x
      /\ FromBytes(d[3], d[4]) = sample.z
      /\ FromBytes(d[5], d[6]) = sample.y
  BY <1>2, <1>3, SplitWord
<1>5. GetMeasurementData(d) = sample
  BY <1>2, <1>4 DEF GetMeasurementData
<1>6. d \in [1..6 -> Byte]
  BY <1>2, SplitWord DEF DataRegisters
<1> QED
  BY <1>5, <1>6

-----------------------------------------------------------------------------
(* Type correctness *)

(* The byte a sending state stores is one the register can hold.           *)
LEMMA LoadedType ==
    ASSUME DataTypeOK, NEW s \in Steps
    PROVE  Loaded(s.register) \in [1..6 -> Byte]
<1>1. /\ i2cBuffer \in [1..6 -> Byte] /\ cra \in Byte /\ crb \in Byte
  BY DEF DataTypeOK
<1>2. s.register \in {"CRA", "CRB", "MODE", "DATA"}
  BY StepCases
<1>3. 2 \in Byte
  BY DEF Byte
<1> QED
  BY <1>1, <1>2, <1>3 DEF Loaded

(* The sensor's registers keep their types. *)
LEMMA ChipType ==
    ASSUME DataTypeOK, NEW s \in Steps, ChipReceives(s.register)
    PROVE  chip' \in [cra : Byte, crb : Byte, sample : Samples]
<1>1. /\ i2cBuffer \in [1..6 -> Byte]
      /\ chip \in [cra : Byte, crb : Byte, sample : Samples]
  BY DEF DataTypeOK
<1>2. s.register \in {"CRA", "CRB", "MODE", "DATA"}
  BY StepCases
<1>3. i2cBuffer[1] \in Byte
  BY <1>1
<1> QED
  BY <1>1, <1>2, <1>3 DEF ChipReceives

(* No step takes a flag out of the Booleans. *)
LEMMA FlagTypeStep == FlagTypeOK /\ [Next]_vars => FlagTypeOK'
  BY ZenonT(60) DEF FlagTypeOK, Next, Calls, SetConfigRegA, SetConfigRegB, StartSingleMeasurement, Run, RunIdle,
     RunSend, RunRefused, RunWait, TransferEnds, TransferSucceeds, TransferFails, OtherUser,
     vars, history

LEMMA TypeInit == Init => TypeOK
<1> SUFFICES ASSUME Init PROVE TypeOK
  OBVIOUS
<1>1. 0 \in Byte /\ 16 \in Byte /\ 32 \in Byte /\ "idle" \in States
  BY StateNames DEF Byte
<1>2. DataTypeOK
  BY <1>1 DEF Init, DataTypeOK, BusInit, BusTypeOK, Results
<1>3. FlagTypeOK
  BY DEF Init, FlagTypeOK
<1> QED
  BY <1>2, <1>3 DEF TypeOK

(* A client's call keeps the types. *)
LEMMA TypeCalls ==
    ASSUME DataTypeOK, Calls
    PROVE  DataTypeOK'
<1> USE DEF DataTypeOK, BusTypeOK
<1>1. ASSUME NEW v \in ConfigBytes, SetConfigRegA(v) \/ SetConfigRegB(v) PROVE DataTypeOK'
  <2>1. v \in Byte
    BY ConfigAssumption
  <2> QED
    BY <1>1, <2>1 DEF SetConfigRegA, SetConfigRegB, request
<1>2. ASSUME NEW c \in Clients, StartSingleMeasurement(c) PROVE DataTypeOK'
  BY <1>2, StateNames DEF StartSingleMeasurement, config, Results
<1> QED
  BY <1>1, <1>2 DEF Calls

(* The end of a run leaves a state and a result of the driver's, and an    *)
(* idle driver is the only one that may have no client.                    *)
LEMMA TypeEndOfRun ==
    ASSUME DataTypeOK, NEW newState \in States, NEW newResult \in [Clients -> Results],
           EndOfRun(newState, newResult), opResult \in Clients
    PROVE  state' \in States /\ result' \in [Clients -> Results]
  BY StateNames DEF EndOfRun, Results

(* A run of the driver keeps the types. *)
LEMMA TypeRun ==
    ASSUME DataTypeOK, Run
    PROVE  DataTypeOK'
<1>1. CASE RunIdle
  BY <1>1 DEF RunIdle, DataTypeOK, BusTypeOK, vars, config, request, history
<1>2. ASSUME NEW s \in Steps, RunSend(s) PROVE DataTypeOK'
  <2>1. s.wait \in States /\ opResult \in Clients /\ result \in [Clients -> Results]
    BY <1>2, StateNames, StepCases DEF RunSend, DataTypeOK
  <2>2. state' \in States /\ result' \in [Clients -> Results]
    BY <1>2, <2>1, TypeEndOfRun DEF RunSend
  <2> QED
    BY <1>2, <2>1, <2>2, LoadedType, MeAssumption
       DEF RunSend, DataTypeOK, BusTypeOK, Accept, config, request, history, Results
<1>3. ASSUME NEW s \in Steps, RunRefused(s) PROVE DataTypeOK'
  <2>1. s.send \in States /\ opResult \in Clients /\ result \in [Clients -> Results]
    BY <1>3, StateNames, StepCases DEF RunRefused, DataTypeOK
  <2>2. state' \in States /\ result' \in [Clients -> Results]
    BY <1>3, <2>1, TypeEndOfRun DEF RunRefused
  <2> QED
    BY <1>3, <2>1, <2>2, LoadedType
       DEF RunRefused, DataTypeOK, BusTypeOK, Refuse, config, request, history
<1>4. ASSUME NEW s \in Steps, RunWait(s) PROVE DataTypeOK'
  <2>1. s.next \in States /\ state \in States /\ opResult \in Clients
    BY <1>4, StateNames, StepCases DEF RunWait, DataTypeOK
  <2>2. /\ result \in [Clients -> Results]
        /\ [result EXCEPT ![opResult] = "ok"] \in [Clients -> Results]
    BY <2>1 DEF DataTypeOK, Results
  <2>3. state' \in States /\ result' \in [Clients -> Results]
    BY <1>4, <2>1, <2>2, TypeEndOfRun DEF RunWait
  <2> QED
    BY <1>4, <2>1, <2>3 DEF RunWait, DataTypeOK, BusTypeOK, config, request, history
<1> QED
  BY <1>1, <1>2, <1>3, <1>4 DEF Run

(* The end of a transfer, and the other users of the bus, keep the types. *)
LEMMA TypeTransfer ==
    ASSUME DataTypeOK, TransferEnds \/ OtherUser
    PROVE  DataTypeOK'
<1>1. ASSUME NEW s \in Steps, TransferSucceeds(s) \/ TransferFails(s) PROVE DataTypeOK'
  <2>1. s.register \in {"CRA", "CRB", "MODE", "DATA"}
    BY StepCases
  <2>2. DataRegisters(chip.sample) \in [1..6 -> Byte]
    BY ReadBack DEF DataTypeOK
  <2>3. done' \in Seq({"CRA", "CRB", "MODE", "DATA"})
    <3>1. done' = done \/ done' = Append(done, s.register)
      BY <1>1 DEF TransferSucceeds, TransferFails
    <3>2. done \in Seq({"CRA", "CRB", "MODE", "DATA"})
      BY DEF DataTypeOK
    <3> QED
      BY <2>1, <3>1, <3>2
  <2>4. chip' \in [cra : Byte, crb : Byte, sample : Samples]
    BY <1>1, ChipType DEF TransferSucceeds, TransferFails, DataTypeOK
  <2>5. i2cBuffer' \in [1..6 -> Byte]
    BY <1>1, <2>2 DEF TransferSucceeds, TransferFails, DataTypeOK
  <2> QED
    BY <1>1, <2>3, <2>4, <2>5
       DEF TransferSucceeds, TransferFails, DataTypeOK, BusTypeOK, Finish, config, request, Results
<1>2. CASE OtherUser
  BY <1>2 DEF OtherUser, DataTypeOK, BusTypeOK, Accept, Finish, config, request, history
<1> QED
  BY <1>1, <1>2 DEF TransferEnds

LEMMA TypeStep == TypeOK /\ [Next]_vars => TypeOK'
<1> SUFFICES ASSUME TypeOK, [Next]_vars PROVE TypeOK'
  OBVIOUS
<1>1. DataTypeOK'
  <2>1. CASE UNCHANGED vars
    BY <2>1 DEF vars, DataTypeOK, BusTypeOK, config, request, history, TypeOK
  <2> QED
    BY <2>1, TypeCalls, TypeRun, TypeTransfer DEF Next, TypeOK
<1> QED
  BY <1>1, FlagTypeStep DEF TypeOK

(* Type correctness: in every reachable state every variable has its type. *)
THEOREM HmcTypeCorrect == Spec => []TypeOK
<1> QED
  BY TypeInit, TypeStep, PTL DEF Spec

-----------------------------------------------------------------------------
(* The bus and the results *)

(* As far as its clients can tell, a driver that is ready is idle.         *)
LEMMA ReadyIsIdle ==
    ASSUME DataTypeOK, ResultHonest, Ready
    PROVE  state = "idle"
  BY DEF DataTypeOK, ResultHonest, Ready

LEMMA AccountingStep ==
    ASSUME DataTypeOK, ResultHonest, TransferAccounting, [Next]_vars
    PROVE  TransferAccounting'
<1> USE MeAssumption, UsersAssumption, StateNames DEF TransferAccounting
<1>1. Me # "free"
  OBVIOUS
<1>2. ASSUME NEW v \in ConfigBytes, SetConfigRegA(v) \/ SetConfigRegB(v)
      PROVE  TransferAccounting'
  BY <1>2 DEF SetConfigRegA, SetConfigRegB
<1>3. ASSUME NEW c \in Clients, StartSingleMeasurement(c) PROVE TransferAccounting'
  <2>1. state = "idle" /\ state' \in {"idle", "send_cra"} /\ bus' = bus
    BY <1>3, ReadyIsIdle DEF StartSingleMeasurement
  <2> QED
    BY <2>1
<1>4. ASSUME NEW s \in Steps, RunSend(s) PROVE TransferAccounting'
  <2>1. bus' = Me /\ i2cResult' = "processing" /\ state' = s.wait
    BY <1>4 DEF RunSend, Accept, EndOfRun
  <2> QED
    BY <2>1, StepCases
<1>5. ASSUME NEW s \in Steps, RunRefused(s) PROVE TransferAccounting'
  <2>1. bus' = bus /\ state = s.send /\ state' \in {s.send, "idle"}
    BY <1>5 DEF RunRefused, Refuse, EndOfRun
  <2> QED
    BY <2>1, StepCases
<1>6. ASSUME NEW s \in Steps, RunWait(s) PROVE TransferAccounting'
  <2>1. /\ bus' = bus /\ i2cResult' = i2cResult /\ state = s.wait
        /\ i2cResult = "ok" => state' = s.next
        /\ i2cResult = "error" => state' = "idle"
        /\ i2cResult = "processing" => state' = state
        /\ i2cResult \in {"ok", "error", "processing"}
    BY <1>6 DEF RunWait, EndOfRun, DataTypeOK, Results
  <2> QED
    BY <2>1, StepCases
<1>7. ASSUME NEW s \in Steps, TransferSucceeds(s) \/ TransferFails(s)
      PROVE  TransferAccounting'
  <2>1. bus' = "free" /\ i2cResult' \in {"ok", "error"}
    BY <1>7 DEF TransferSucceeds, TransferFails, Finish
  <2> QED
    BY <1>1, <2>1
<1>8. CASE OtherUser
  <2>1. bus # Me /\ bus' # Me /\ state' = state /\ i2cResult' = i2cResult
    BY <1>1, <1>8 DEF OtherUser, Accept, Finish
  <2> QED
    BY <2>1
<1>9. CASE UNCHANGED vars
  BY <1>9 DEF vars
<1> QED
  BY <1>2, <1>3, <1>4, <1>5, <1>6, <1>7, <1>8, <1>9
     DEF Next, Calls, Run, RunIdle, TransferEnds

LEMMA HonestStep ==
    ASSUME DataTypeOK, ResultHonest, [Next]_vars
    PROVE  ResultHonest'
<1> USE DEF ResultHonest
<1>1. ASSUME NEW c \in Clients, StartSingleMeasurement(c) PROVE ResultHonest'
  <2>1. opResult' = c /\ result' = [result EXCEPT ![c] = "processing"]
    BY <1>1 DEF StartSingleMeasurement
  <2> QED
    BY <2>1 DEF DataTypeOK
<1>2. ASSUME NEW s \in Steps, RunSend(s) PROVE ResultHonest'
  <2>1. state # "idle" /\ result' = result /\ opResult' = opResult
    BY <1>2, StepCases DEF RunSend, EndOfRun, request
  <2> QED
    BY <2>1
<1>3. ASSUME NEW s \in Steps, RunRefused(s) PROVE ResultHonest'
  <2>1. /\ state # "idle" /\ opResult' = opResult
        /\ state' = "idle" \/ result' = result
    BY <1>3, StepCases DEF RunRefused, EndOfRun, request
  <2> QED
    BY <2>1
<1>4. ASSUME NEW s \in Steps, RunWait(s) PROVE ResultHonest'
  <2>1. /\ state # "idle" /\ opResult' = opResult
        /\ state' = "idle" \/ result' = result
    BY <1>4, StepCases DEF RunWait, EndOfRun, request
  <2> QED
    BY <2>1
<1>5. CASE \/ UNCHANGED vars
           \/ OtherUser
           \/ \E s \in Steps : TransferSucceeds(s) \/ TransferFails(s)
           \/ \E v \in ConfigBytes : SetConfigRegA(v) \/ SetConfigRegB(v)
  <2>1. state' = state /\ opResult' = opResult /\ result' = result
    BY <1>5 DEF vars, OtherUser, TransferSucceeds, TransferFails, SetConfigRegA, SetConfigRegB,
                request
  <2> QED
    BY <2>1
<1> QED
  BY <1>1, <1>2, <1>3, <1>4, <1>5 DEF Next, Calls, Run, RunIdle, TransferEnds

-----------------------------------------------------------------------------
(* The sequence of transfers *)

(* Appending to a tuple gives the longer tuple. *)
LEMMA AppendTwo ==
    ASSUME NEW a, NEW b
    PROVE  Append(<<a>>, b) = <<a, b>>
<1> DEFINE s == Append(<<a>>, b)
           t == <<a, b>>
<1>1. s \in Seq({a, b}) /\ t \in Seq({a, b}) /\ Len(s) = 2 /\ Len(t) = 2
  OBVIOUS
<1>2. s[1] = t[1] /\ s[2] = t[2]
  OBVIOUS
<1> HIDE DEF s, t
<1>3. s = t
  BY <1>1, <1>2, SeqEqual
<1> QED
  BY <1>3 DEF s, t

LEMMA AppendThree ==
    ASSUME NEW a, NEW b, NEW c
    PROVE  Append(<<a, b>>, c) = <<a, b, c>>
<1> DEFINE s == Append(<<a, b>>, c)
           t == <<a, b, c>>
<1>1. s \in Seq({a, b, c}) /\ t \in Seq({a, b, c}) /\ Len(s) = 3 /\ Len(t) = 3
  OBVIOUS
<1>2. s[1] = t[1] /\ s[2] = t[2] /\ s[3] = t[3]
  OBVIOUS
<1> HIDE DEF s, t
<1>3. s = t
  BY <1>1, <1>2, SeqEqual
<1> QED
  BY <1>3 DEF s, t

LEMMA AppendFour ==
    ASSUME NEW a, NEW b, NEW c, NEW d
    PROVE  Append(<<a, b, c>>, d) = <<a, b, c, d>>
<1> DEFINE s == Append(<<a, b, c>>, d)
           t == <<a, b, c, d>>
<1>1. s \in Seq({a, b, c, d}) /\ t \in Seq({a, b, c, d}) /\ Len(s) = 4 /\ Len(t) = 4
  OBVIOUS
<1>2. s[1] = t[1] /\ s[2] = t[2] /\ s[3] = t[3] /\ s[4] = t[4]
  OBVIOUS
<1> HIDE DEF s, t
<1>3. s = t
  BY <1>1, <1>2, SeqEqual
<1> QED
  BY <1>3 DEF s, t

(* The states and the history of two steps: each step has its own, and the *)
(* next one begins with what this one has added.                           *)
LEMMA Sequence ==
    ASSUME NEW s \in Steps, NEW t \in Steps
    PROVE  /\ s.wait = t.wait => s = t
           /\ s.send = t.send => s = t
           /\ s.next = t.send => Append(Before[s.register], s.register) = Before[t.register]
                                 /\ t.register # "CRA"
<1>1. /\ Append(<<>>, "CRA") = <<"CRA">>
      /\ Append(<<"CRA">>, "CRB") = <<"CRA", "CRB">>
      /\ Append(<<"CRA", "CRB">>, "MODE") = <<"CRA", "CRB", "MODE">>
  BY AppendTwo, AppendThree
<1>2. /\ Before["CRA"] = <<>> /\ Before["CRB"] = <<"CRA">>
      /\ Before["MODE"] = <<"CRA", "CRB">> /\ Before["DATA"] = <<"CRA", "CRB", "MODE">>
  BY DEF Before
<1>3. s.wait = t.wait => s = t
  BY DEF Steps
<1>4. s.send = t.send => s = t
  BY DEF Steps
<1>5. s.next = t.send =>
        \/ s.register = "CRA" /\ t.register = "CRB"
        \/ s.register = "CRB" /\ t.register = "MODE"
        \/ s.register = "MODE" /\ t.register = "DATA"
  BY StepCases
<1> QED
  BY <1>1, <1>2, <1>3, <1>4, <1>5

LEMMA ProgressStep ==
    ASSUME DataTypeOK, ResultHonest, TransferAccounting, ProgressInv, [Next]_vars
    PROVE  ProgressInv'
<1>0. /\ i2cResult = "processing" => state \in Waiting
      /\ \A s \in Steps : Progress(s)
  BY DEF ProgressInv
<1> Steps # {}
  BY DEF Steps
<1>1. SUFFICES ASSUME NEW t \in Steps
               PROVE  (i2cResult = "processing" => state \in Waiting)' /\ Progress(t)'
  BY DEF ProgressInv
<1>2. ASSUME NEW c \in Clients, StartSingleMeasurement(c)
      PROVE  (i2cResult = "processing" => state \in Waiting)' /\ Progress(t)'
  <2>1. /\ state = "idle" /\ state' \in {"idle", "send_cra"}
        /\ i2cResult' = i2cResult /\ done' = <<>> /\ ~failed'
    BY <1>2, ReadyIsIdle DEF StartSingleMeasurement
  <2>2. Before["CRA"] = <<>>
    BY DEF Before
  <2> QED
    BY <1>0, <2>1, <2>2, StateNames, StepCases DEF Progress
<1>3. ASSUME NEW s \in Steps, RunSend(s)
      PROVE  (i2cResult = "processing" => state \in Waiting)' /\ Progress(t)'
  <2>1. /\ state = s.send /\ state' = s.wait /\ i2cResult' = "processing"
        /\ done' = done /\ (failed' <=> failed)
    BY <1>3 DEF RunSend, EndOfRun, history
  <2>2. done = Before[s.register] /\ ~failed
    BY <1>0, <2>1 DEF Progress
  <2>3. s.wait \in Waiting /\ s.wait # t.send /\ (s.wait = t.wait => s = t)
    BY StateNames, StepCases, Sequence
  <2> QED
    BY <2>1, <2>2, <2>3 DEF Progress
<1>4. ASSUME NEW s \in Steps, RunRefused(s)
      PROVE  (i2cResult = "processing" => state \in Waiting)' /\ Progress(t)'
  <2>1. /\ state = s.send /\ state' \in {s.send, "idle"} /\ i2cResult' = i2cResult
        /\ done' = done /\ (failed' <=> failed)
    BY <1>4 DEF RunRefused, EndOfRun, history
  <2>2. s.send \notin Waiting /\ t.send # "idle" /\ t.wait # "idle" /\ s.send # t.wait
    BY StateNames, StepCases
  <2> QED
    BY <1>0, <2>1, <2>2 DEF Progress
<1>5. ASSUME NEW s \in Steps, RunWait(s)
      PROVE  (i2cResult = "processing" => state \in Waiting)' /\ Progress(t)'
  <2>1. /\ state = s.wait /\ i2cResult' = i2cResult /\ done' = done /\ (failed' <=> failed)
        /\ i2cResult = "ok" => state' = s.next
        /\ i2cResult = "error" => state' = "idle"
        /\ i2cResult = "processing" => state' = state
        /\ i2cResult \in {"ok", "error", "processing"}
    BY <1>5 DEF RunWait, EndOfRun, history, DataTypeOK, Results
  <2>2. Progress(s) /\ Progress(t)
    BY <1>0
  <2>3. t.send # "idle" /\ t.wait # "idle" /\ s.next # t.wait
    BY StepCases
  <2>4. CASE i2cResult = "ok"
    BY <2>1, <2>2, <2>3, <2>4, Sequence DEF Progress
  <2>5. CASE i2cResult = "processing"
    BY <1>0, <2>1, <2>2, <2>5 DEF Progress
  <2>6. CASE i2cResult = "error"
    BY <2>1, <2>3, <2>6 DEF Progress
  <2> QED
    BY <2>1, <2>4, <2>5, <2>6
<1>6. ASSUME NEW s \in Steps, TransferSucceeds(s)
      PROVE  (i2cResult = "processing" => state \in Waiting)' /\ Progress(t)'
  <2>1. /\ state = s.wait /\ state' = state /\ i2cResult' = "ok" /\ bus = Me
        /\ done' = Append(done, s.register) /\ (failed' <=> failed)
    BY <1>6 DEF TransferSucceeds, Finish
  <2>2. done = Before[s.register] /\ ~failed
    BY <1>0, <2>1 DEF TransferAccounting, Progress
  <2>3. s.wait # t.send /\ (s.wait = t.wait => s = t)
    BY StepCases, Sequence
  <2> QED
    BY <2>1, <2>2, <2>3 DEF Progress
<1>7. ASSUME NEW s \in Steps, TransferFails(s)
      PROVE  (i2cResult = "processing" => state \in Waiting)' /\ Progress(t)'
  <2>1. state = s.wait /\ state' = state /\ i2cResult' = "error" /\ done' = done /\ bus = Me
        /\ failed'
    BY <1>7 DEF TransferFails, Finish
  <2>2. done = Before[s.register]
    BY <1>0, <2>1 DEF TransferAccounting, Progress
  <2>3. s.wait # t.send /\ (s.wait = t.wait => s = t)
    BY StepCases, Sequence
  <2> QED
    BY <2>1, <2>2, <2>3 DEF Progress
<1>8. CASE \/ UNCHANGED vars
           \/ OtherUser
           \/ \E v \in ConfigBytes : SetConfigRegA(v) \/ SetConfigRegB(v)
  <2>1. state' = state /\ i2cResult' = i2cResult /\ done' = done /\ (failed' <=> failed)
    BY <1>8 DEF vars, OtherUser, SetConfigRegA, SetConfigRegB, history
  <2> QED
    BY <1>0, <2>1 DEF Progress
<1> QED
  BY <1>2, <1>3, <1>4, <1>5, <1>6, <1>7, <1>8
     DEF Next, Calls, Run, RunIdle, TransferEnds

-----------------------------------------------------------------------------
(* The configuration and the sample *)

(* How many registers a step finds transferred, and leaves. *)
LEMMA Lengths ==
    ASSUME NEW s \in Steps
    PROVE  /\ s.register = "CRA" => Len(Before[s.register]) = 0
           /\ s.register = "CRB" => Len(Before[s.register]) = 1
           /\ s.register = "MODE" => Len(Before[s.register]) = 2
           /\ s.register = "DATA" => Len(Before[s.register]) = 3
           /\ Len(Append(Before[s.register], s.register)) = Len(Before[s.register]) + 1
           /\ Len(Before[s.register]) \in 0..3
<1>1. /\ Before["CRA"] = <<>> /\ Before["CRB"] = <<"CRA">>
      /\ Before["MODE"] = <<"CRA", "CRB">> /\ Before["DATA"] = <<"CRA", "CRB", "MODE">>
  BY DEF Before
<1>2. /\ Len(<<>>) = 0 /\ Len(<<"CRA">>) = 1
      /\ Len(<<"CRA", "CRB">>) = 2 /\ Len(<<"CRA", "CRB", "MODE">>) = 3
  OBVIOUS
<1>3. s.register \in {"CRA", "CRB", "MODE", "DATA"}
  BY StepCases
<1> DEFINE R == {"CRA", "CRB", "MODE", "DATA"}
<1>4. <<>> \in Seq(R) /\ <<"CRA">> \in Seq(R)
  OBVIOUS
<1>5. <<"CRA", "CRB">> \in Seq(R)
  OBVIOUS
<1>6. <<"CRA", "CRB", "MODE">> \in Seq(R)
  OBVIOUS
<1> HIDE DEF R
<1>7. Before[s.register] \in Seq(R)
  BY <1>1, <1>3, <1>4, <1>5, <1>6
<1>8. s.register \in R
  BY <1>3 DEF R
<1>9. Len(Append(Before[s.register], s.register)) = Len(Before[s.register]) + 1
  BY <1>7, <1>8, AppendProperties
<1>10. /\ s.register = "CRA" => Len(Before[s.register]) = 0
       /\ s.register = "CRB" => Len(Before[s.register]) = 1
       /\ s.register = "MODE" => Len(Before[s.register]) = 2
       /\ s.register = "DATA" => Len(Before[s.register]) = 3
  BY <1>1, <1>2
<1> QED
  BY <1>3, <1>9, <1>10

(* Four transfers are made by the last step only. *)
LEMMA FourAtTheEnd ==
    ASSUME NEW s \in Steps
    PROVE  /\ Len(Before[s.register]) # 4
           /\ s.register # "DATA" => Len(Append(Before[s.register], s.register)) # 4
<1> DEFINE n == Len(Before[s.register])
           m == Len(Append(Before[s.register], s.register))
<1>1. /\ n \in 0..3 /\ m = n + 1
      /\ s.register \in {"CRA", "CRB", "MODE"} => n \in 0..2
      /\ s.register \in {"CRA", "CRB", "MODE", "DATA"}
  BY Lengths, StepCases
<1> HIDE DEF n, m
<1>2. n # 4 /\ (s.register # "DATA" => m # 4)
  BY <1>1
<1> QED
  BY <1>2 DEF n, m

LEMMA ConfigStep ==
    ASSUME TypeOK, ResultHonest, TransferAccounting, ProgressInv, ConfigInv, [Next]_vars
    PROVE  ConfigInv'
<1>0. /\ DataTypeOK /\ i2cBuffer \in [1..6 -> Byte]
      /\ chip \in [cra : Byte, crb : Byte, sample : Samples]
      /\ Before["CRA"] = <<>> /\ Before["CRB"] = <<"CRA">>
      /\ Before["MODE"] = <<"CRA", "CRB">> /\ Before["DATA"] = <<"CRA", "CRB", "MODE">>
  BY DEF TypeOK, DataTypeOK, Before
<1>1. ASSUME NEW v \in ConfigBytes, SetConfigRegA(v) \/ SetConfigRegB(v) PROVE ConfigInv'
  BY <1>1 DEF SetConfigRegA, SetConfigRegB, ConfigInv
<1>2. ASSUME NEW c \in Clients, StartSingleMeasurement(c) PROVE ConfigInv'
  <2>1. state = "idle" /\ state' \in {"idle", "send_cra"} /\ done' = <<>>
    BY <1>0, <1>2, ReadyIsIdle DEF StartSingleMeasurement
  <2>2. Len(done') = 0
    BY <2>1
  <2> QED
    BY <2>1, <2>2 DEF ConfigInv
<1>3. ASSUME NEW s \in Steps, RunSend(s) PROVE ConfigInv'
  <2>1. /\ state' = s.wait /\ i2cBuffer' = Loaded(s.register) /\ chip' = chip /\ done' = done
        /\ cra' = cra /\ crb' = crb /\ reconfigured' = reconfigured \ {s.register}
    BY <1>3 DEF RunSend, EndOfRun, config
  <2>2. /\ state' = "wait_cra" => i2cBuffer'[1] = cra
        /\ state' = "wait_crb" => i2cBuffer'[1] = crb
    BY <1>0, <2>1, StepCases DEF Loaded
  <2>3. state = s.send /\ done = Before[s.register]
    BY <1>3 DEF RunSend, ProgressInv, Progress
  <2>4. /\ Len(done) >= 1 => s.register # "CRA"
        /\ Len(done) >= 2 => s.register # "CRB"
    <3> DEFINE n == Len(done)
    <3>1. /\ s.register = "CRA" => n = 0
          /\ s.register = "CRB" => n = 1
      BY <2>3, Lengths
    <3> HIDE DEF n
    <3>2. (n >= 1 => s.register # "CRA") /\ (n >= 2 => s.register # "CRB")
      BY <3>1
    <3> QED
      BY <3>2 DEF n
  <2> QED
    BY <2>1, <2>2, <2>4 DEF ConfigInv
<1>4. ASSUME NEW s \in Steps, RunRefused(s) PROVE ConfigInv'
  <2>1. /\ state' \in {s.send, "idle"} /\ chip' = chip /\ done' = done
        /\ cra' = cra /\ crb' = crb /\ reconfigured' = reconfigured
    BY <1>4 DEF RunRefused, EndOfRun, history, config
  <2>2. state' # "wait_cra" /\ state' # "wait_crb"
    BY <2>1, StepCases
  <2> QED
    BY <2>1, <2>2 DEF ConfigInv
<1>5. ASSUME NEW s \in Steps, RunWait(s) PROVE ConfigInv'
  <2>1. /\ state' \in {state, s.next, "idle"} /\ chip' = chip /\ done' = done
        /\ i2cBuffer' = i2cBuffer
        /\ cra' = cra /\ crb' = crb /\ reconfigured' = reconfigured
    BY <1>5 DEF RunWait, EndOfRun, history, config
  <2>2. state' = state \/ (state' # "wait_cra" /\ state' # "wait_crb")
    BY <2>1, StepCases
  <2> QED
    BY <2>1, <2>2 DEF ConfigInv
<1>6. ASSUME NEW s \in Steps, TransferSucceeds(s) \/ TransferFails(s) PROVE ConfigInv'
  <2>1. state = s.wait /\ state' = state /\ bus = Me /\ cra' = cra /\ crb' = crb
    BY <1>6 DEF TransferSucceeds, TransferFails, Finish, config
  <2>2. reconfigured' = reconfigured
    BY <1>6 DEF TransferSucceeds, TransferFails
  <2>3. s.register # "DATA" => i2cBuffer' = i2cBuffer
    BY <1>6 DEF TransferSucceeds, TransferFails
  <2>4. \/ done' = Append(done, s.register) /\ ChipReceives(s.register)
        \/ done' = done /\ ChipReceives(s.register)
        \/ done' = done /\ chip' = chip
    BY <1>6 DEF TransferSucceeds, TransferFails
  <2>5. done = Before[s.register]
    BY <2>1 DEF TransferAccounting, ProgressInv, Progress
  <2> DEFINE n == Len(done)
             m == Len(done')
  <2>6. m = n \/ m = n + 1
    <3>1. done' = done \/ done' = Append(Before[s.register], s.register)
      BY <2>4, <2>5
    <3> QED
      BY <2>5, <3>1, Lengths
  <2>7. /\ s.register = "CRA" => n = 0
        /\ s.register = "CRB" => n = 1
        /\ s.register = "MODE" => n = 2
        /\ s.register = "DATA" => n = 3
    BY <2>5, Lengths
  <2>8. m > n => done' # done
    BY <2>7, StepCases
  <2> HIDE DEF n, m
  <2>9. CASE s.register = "CRA"
    <3>1. state = "wait_cra" /\ n = 0 /\ m <= 1
      BY <2>1, <2>6, <2>7, <2>9, StepCases
    <3>2. chip' = [chip EXCEPT !.cra = i2cBuffer[1]] \/ done' = done
      BY <2>4, <2>9 DEF ChipReceives
    <3>3. m >= 1 => chip'.cra = i2cBuffer[1]
      BY <1>0, <2>6, <2>8, <3>1, <3>2
    <3> QED
      BY <2>1, <2>2, <2>3, <2>9, <3>1, <3>3 DEF ConfigInv, m
  <2>10. CASE s.register = "CRB"
    <3>1. state = "wait_crb" /\ n = 1 /\ m <= 2 /\ m >= 1
      BY <2>1, <2>6, <2>7, <2>10, StepCases
    <3>2. /\ chip' = [chip EXCEPT !.crb = i2cBuffer[1]] \/ done' = done
          /\ chip' = [chip EXCEPT !.crb = i2cBuffer[1]] \/ chip' = chip
      BY <2>4, <2>10 DEF ChipReceives
    <3>3. chip'.cra = chip.cra /\ (m >= 2 => chip'.crb = i2cBuffer[1])
      BY <1>0, <2>6, <2>8, <3>1, <3>2
    <3> QED
      BY <2>1, <2>2, <2>3, <2>10, <3>1, <3>3 DEF ConfigInv, m, n
  <2>11. CASE s.register \in {"MODE", "DATA"}
    <3>1. state # "wait_cra" /\ state # "wait_crb" /\ n >= 2
      BY <2>1, <2>7, <2>11, StepCases
    <3>2. chip'.cra = chip.cra /\ chip'.crb = chip.crb
      BY <1>0, <2>4, <2>11 DEF ChipReceives
    <3> QED
      BY <2>1, <2>2, <3>1, <3>2 DEF ConfigInv, n
  <2> QED
    BY <2>9, <2>10, <2>11, StepCases
<1>7. CASE UNCHANGED vars \/ OtherUser
  BY <1>7 DEF vars, OtherUser, config, history, ConfigInv
<1> QED
  BY <1>1, <1>2, <1>3, <1>4, <1>5, <1>6, <1>7 DEF Next, Calls, Run, RunIdle, TransferEnds

LEMMA DataStep ==
    ASSUME DataTypeOK, ResultHonest, TransferAccounting, ProgressInv, DataInv, [Next]_vars
    PROVE  DataInv'
<1>0. i2cBuffer \in [1..6 -> Byte] /\ chip.sample \in Samples
  BY DEF DataTypeOK
<1>1. CASE \/ UNCHANGED vars
           \/ OtherUser
           \/ \E v \in ConfigBytes : SetConfigRegA(v) \/ SetConfigRegB(v)
  BY <1>1 DEF vars, OtherUser, SetConfigRegA, SetConfigRegB, history, DataInv
<1>2. ASSUME NEW c \in Clients, StartSingleMeasurement(c) PROVE DataInv'
  <2>1. done' = <<>>
    BY <1>2 DEF StartSingleMeasurement
  <2> QED
    BY <2>1 DEF DataInv
<1>3. ASSUME NEW s \in Steps, RunSend(s) \/ RunRefused(s) PROVE DataInv'
  <2>1. state = s.send /\ done' = done
    BY <1>3 DEF RunSend, RunRefused, history
  <2>2. done = Before[s.register]
    BY <2>1 DEF ProgressInv, Progress
  <2>3. Len(done') # 4
    BY <2>1, <2>2, FourAtTheEnd
  <2> QED
    BY <2>3 DEF DataInv
<1>4. ASSUME NEW s \in Steps, RunWait(s) PROVE DataInv'
  <2>1. /\ state = s.wait /\ done' = done /\ i2cBuffer' = i2cBuffer /\ chip' = chip
    BY <1>4 DEF RunWait, history
  <2>2. CASE s.register = "DATA"
    BY <2>1, <2>2, StepCases DEF DataInv
  <2>3. CASE s.register # "DATA"
    <3>1. done = Before[s.register] \/ done = Append(Before[s.register], s.register)
      BY <2>1 DEF ProgressInv, Progress
    <3>2. Len(done) # 4
      BY <2>3, <3>1, FourAtTheEnd
    <3> QED
      BY <2>1, <3>2 DEF DataInv
  <2> QED
    BY <2>2, <2>3
<1>5. ASSUME NEW s \in Steps, TransferSucceeds(s) PROVE DataInv'
  <2>1. /\ state = s.wait /\ bus = Me /\ done' = Append(done, s.register)
        /\ ChipReceives(s.register)
        /\ s.register = "DATA" => i2cBuffer' = DataRegisters(chip.sample)
    BY <1>5 DEF TransferSucceeds, Finish
  <2>2. done = Before[s.register]
    BY <2>1 DEF TransferAccounting, ProgressInv, Progress
  <2>3. CASE s.register = "DATA"
    <3>1. chip' = chip
      BY <2>1, <2>3 DEF ChipReceives
    <3> QED
      BY <1>0, <2>1, <2>3, <3>1, ReadBack DEF DataInv
  <2>4. CASE s.register # "DATA"
    <3>1. Len(done') # 4
      BY <2>1, <2>2, <2>4, FourAtTheEnd
    <3> QED
      BY <3>1 DEF DataInv
  <2> QED
    BY <2>3, <2>4
<1>6. ASSUME NEW s \in Steps, TransferFails(s) PROVE DataInv'
  <2>1. state = s.wait /\ bus = Me /\ done' = done
    BY <1>6 DEF TransferFails, Finish
  <2>2. done = Before[s.register]
    BY <2>1 DEF TransferAccounting, ProgressInv, Progress
  <2>3. Len(done') # 4
    BY <2>1, <2>2, FourAtTheEnd
  <2> QED
    BY <2>3 DEF DataInv
<1> QED
  BY <1>1, <1>2, <1>3, <1>4, <1>5, <1>6 DEF Next, Calls, Run, RunIdle, TransferEnds

-----------------------------------------------------------------------------
(* The inductive invariant and the properties *)

LEMMA MeasurementInit == Init => MeasurementInv
<1> SUFFICES ASSUME Init PROVE MeasurementInv
  OBVIOUS
<1>1. state = "idle" /\ bus = "free" /\ i2cResult = "ok" /\ done = <<>> /\ Len(done) = 0
  BY DEF Init, BusInit
<1>2. Me # "free" /\ "idle" \notin Waiting
  BY MeAssumption, UsersAssumption, StateNames
<1>3. TransferAccounting /\ ResultHonest
  BY <1>1, <1>2 DEF TransferAccounting, ResultHonest
<1>4. \A s \in Steps : s.send # "idle" /\ s.wait # "idle"
  BY StepCases
<1>5. ProgressInv
  BY <1>1, <1>4 DEF ProgressInv, Progress
<1>6. ConfigInv
  BY <1>1 DEF ConfigInv
<1>7. DataInv
  BY <1>1 DEF DataInv
<1> QED
  BY <1>3, <1>5, <1>6, <1>7 DEF MeasurementInv

LEMMA MeasurementStep == TypeOK /\ MeasurementInv /\ [Next]_vars => MeasurementInv'
  BY AccountingStep, HonestStep, ProgressStep, ConfigStep, DataStep DEF MeasurementInv, TypeOK

(* The inductive invariant holds in every reachable state. *)
THEOREM MeasurementInvariant == Spec => []MeasurementInv
<1> QED
  BY HmcTypeCorrect, MeasurementInit, MeasurementStep, PTL DEF Spec

(* The driver waits exactly while a transfer of its own is in flight.      *)
THEOREM HmcAccounting == Spec => []TransferAccounting
<1>1. MeasurementInv => TransferAccounting
  BY DEF MeasurementInv
<1> QED
  BY <1>1, MeasurementInvariant, PTL

(* A client reads processing for as long as its measurement runs.          *)
THEOREM HmcResultHonest == Spec => []ResultHonest
<1>1. MeasurementInv => ResultHonest
  BY DEF MeasurementInv
<1> QED
  BY <1>1, MeasurementInvariant, PTL

(* What a client reads after a measurement is what the sensor measured,    *)
(* for every sample of 16 bits on each axis.                               *)
THEOREM SampleRead == Spec => []DataIsSample
<1>1. MeasurementInv => DataIsSample
  BY DEF MeasurementInv, DataInv, DataIsSample
<1> QED
  BY <1>1, MeasurementInvariant, PTL

(* The sensor measured with the configuration the clients asked for.       *)
THEOREM SensorHasConfiguration == Spec => []SensorConfigured
<1>1. MeasurementInv => SensorConfigured
  BY DEF MeasurementInv, ConfigInv, SensorConfigured
<1> QED
  BY <1>1, MeasurementInvariant, PTL

(* No call and no run touches the buffer of a transfer in flight.          *)
THEOREM HmcBufferKept == Spec => BufferStable
<1>1. ASSUME TypeOK, MeasurementInv, [Next]_vars, bus = Me, bus' = Me
      PROVE  UNCHANGED i2cBuffer
  <2>1. Me # "free" /\ state \in Waiting
    BY <1>1, MeAssumption, UsersAssumption DEF MeasurementInv, TransferAccounting
  <2>2. \A s \in Steps : ~RunSend(s) /\ ~RunRefused(s)
    BY <2>1, StateNames, StepCases DEF RunSend, RunRefused
  <2>3. \A s \in Steps : ~TransferSucceeds(s) /\ ~TransferFails(s)
    BY <1>1, <2>1 DEF TransferSucceeds, TransferFails, Finish
  <2> QED
    BY <1>1, <2>2, <2>3 DEF Next, Calls, SetConfigRegA, SetConfigRegB, StartSingleMeasurement,
         Run, RunIdle, RunWait, TransferEnds, OtherUser, vars
<1> QED
  BY <1>1, HmcTypeCorrect, MeasurementInvariant, PTL DEF Spec, BufferStable

(* A measurement reported ok has configured the sensor, started it and     *)
(* read it, without a failure.                                             *)
THEOREM OkIsMeasured == Spec => OkMeansMeasured
<1>1. ASSUME TypeOK, MeasurementInv, [Next]_vars, NEW c \in Clients,
             result[c] = "processing", result'[c] = "ok"
      PROVE  done = <<"CRA", "CRB", "MODE", "DATA">> /\ ~failed
  <2>0. result \in [Clients -> Results] /\ i2cResult \in Results
    BY <1>1 DEF TypeOK, DataTypeOK
  <2>1. \E s \in Steps : RunWait(s)
    <3>1. \A d \in Clients : ~StartSingleMeasurement(d)
      BY <1>1 DEF StartSingleMeasurement, Ready
    <3>2. \A s \in Steps : ~RunSend(s) /\ ~RunRefused(s)
      BY <1>1, <2>0 DEF RunSend, RunRefused, EndOfRun, Results
    <3> QED
      BY <1>1, <3>1, <3>2 DEF Next, Calls, SetConfigRegA, SetConfigRegB, Run, RunIdle,
           TransferEnds, TransferSucceeds, TransferFails, OtherUser, vars
  <2>2. PICK s \in Steps : RunWait(s)
    BY <2>1
  <2>3. state = s.wait /\ i2cResult = "ok" /\ s.next = "idle"
    BY <1>1, <2>0, <2>2 DEF RunWait, EndOfRun, Results
  <2>4. s.register = "DATA"
    BY <2>3, StepCases
  <2>5. done = Append(Before[s.register], s.register) /\ ~failed
    BY <1>1, <2>3 DEF MeasurementInv, ProgressInv, Progress
  <2>6. Before["DATA"] = <<"CRA", "CRB", "MODE">>
    BY DEF Before
  <2>7. done = Append(<<"CRA", "CRB", "MODE">>, "DATA")
    BY <2>4, <2>5, <2>6
  <2> QED
    BY <2>5, <2>7, AppendFour
<1>2. TypeOK /\ MeasurementInv /\ [Next]_vars =>
        \A c \in Clients : result[c] = "processing" /\ result'[c] = "ok"
            => done = <<"CRA", "CRB", "MODE", "DATA">> /\ ~failed
  BY <1>1
<1> QED
  BY <1>2, HmcTypeCorrect, MeasurementInvariant, PTL DEF Spec, OkMeansMeasured

-----------------------------------------------------------------------------
(* What the driver promises: every step is one of CompassDriver, or        *)
(* changes nothing in it.                                                  *)

Unseen ==
    /\ UNCHANGED <<opResult, done, failed, result, i2cBuffer, chip>>
    /\ (state' = "idle") <=> (state = "idle")
    /\ (bus' = Me) <=> (bus = Me)

LEMMA StutterPromised == Unseen => UNCHANGED Promised!vars
BY Zenon DEF Unseen, Promised!vars

LEMMA InitPromised == Init => Promised!Init
<1> SUFFICES ASSUME Init PROVE Promised!Init
  OBVIOUS
<1>1. state = "idle" /\ bus = "free" /\ Me # "free" /\ Len(done) = 0 /\ failed = FALSE
  BY MeAssumption, UsersAssumption DEF Init, BusInit
<1>2. chip.sample \in Samples
  BY DEF Init
<1> QED
  BY <1>1, <1>2 DEF Init, Promised!Init

LEMMA CallsPromised ==
    ASSUME TypeOK, MeasurementInv, Calls
    PROVE  [Promised!Next]_(Promised!vars)
<1>1. ASSUME NEW v \in ConfigBytes, SetConfigRegA(v) \/ SetConfigRegB(v) PROVE Unseen
  BY <1>1, Zenon DEF SetConfigRegA, SetConfigRegB, Unseen, request
<1>2. ASSUME NEW c \in Clients, StartSingleMeasurement(c) PROVE Promised!Start(c)
  <2>1. state = "idle"
    BY <1>2, ReadyIsIdle DEF StartSingleMeasurement, MeasurementInv, TypeOK
  <2>2. /\ done' = <<>> /\ Len(done') = 0 /\ failed' = FALSE /\ bus' = bus /\ opResult' = c
        /\ chip' = chip /\ i2cBuffer' = i2cBuffer
        /\ result' = [result EXCEPT ![c] = "processing"]
    BY <1>2 DEF StartSingleMeasurement
  <2>3. \A d \in Clients : result[d] # "processing"
    BY <1>2 DEF StartSingleMeasurement, Ready
  <2> QED
    BY <2>1, <2>2, <2>3, Zenon DEF Promised!Start
<1> QED
  BY <1>1, <1>2, StutterPromised DEF Calls, Promised!Next

(* A step is told from the others by what it finds transferred.            *)
LEMMA Counts ==
    ASSUME NEW s \in Steps
    PROVE  /\ Len(Before[s.register]) < 4
           /\ Len(Before[s.register]) = 2 <=> s.register = "MODE"
           /\ Len(Append(Before[s.register], s.register)) = 4 <=> s.register = "DATA"
           /\ s.next = "idle" <=> s.register = "DATA"
<1> DEFINE n == Len(Before[s.register])
           m == Len(Append(Before[s.register], s.register))
<1>1. /\ n \in 0..3 /\ m = n + 1
      /\ s.register = "CRA" => n = 0
      /\ s.register = "CRB" => n = 1
      /\ s.register = "MODE" => n = 2
      /\ s.register = "DATA" => n = 3
  BY Lengths
<1>2. s.register \in {"CRA", "CRB", "MODE", "DATA"} /\ (s.next = "idle" <=> s.register = "DATA")
  BY StepCases
<1> HIDE DEF n, m
<1>3. n < 4 /\ (n = 2 <=> s.register = "MODE") /\ (m = 4 <=> s.register = "DATA")
  BY <1>1, <1>2
<1> QED
  BY <1>2, <1>3 DEF n, m

(* Before the transfer of a step, and when it has been accepted.           *)
LEMMA SendPlace ==
    ASSUME TypeOK, MeasurementInv, NEW s \in Steps, state = s.send
    PROVE  /\ state # "idle" /\ bus # Me /\ ~failed /\ Len(done) < 4
           /\ s.register = "CRA" => Len(done) = 0
           /\ i2cResult = "error" => s.register = "CRA"
<1>1. done = Before[s.register] /\ ~failed /\ (s.register # "CRA" => i2cResult = "ok")
  BY DEF MeasurementInv, ProgressInv, Progress
<1>2. state # "idle" /\ state \notin Waiting
  BY StateNames, StepCases
<1>3. bus # Me
  BY <1>2 DEF MeasurementInv, TransferAccounting
<1>4. Len(done) < 4 /\ (s.register = "CRA" => Len(done) = 0)
  BY <1>1, Lengths, Counts
<1> QED
  BY <1>1, <1>2, <1>3, <1>4

LEMMA WaitPlace ==
    ASSUME TypeOK, MeasurementInv, NEW s \in Steps, state = s.wait
    PROVE  /\ state # "idle" /\ (bus = Me <=> i2cResult = "processing")
           /\ failed <=> i2cResult = "error"
           /\ i2cResult = "ok" => done = Append(Before[s.register], s.register)
           /\ i2cResult # "ok" => done = Before[s.register]
<1>1. state # "idle" /\ state \in Waiting
  BY StateNames, StepCases
<1> QED
  BY <1>1 DEF MeasurementInv, ProgressInv, Progress, TransferAccounting

LEMMA SendPromised ==
    ASSUME TypeOK, MeasurementInv, NEW s \in Steps, RunSend(s) \/ RunRefused(s)
    PROVE  Promised!CommandBegins \/ Promised!CommandWaits \/ Promised!ReportError
<1>1. /\ state = s.send
      /\ UNCHANGED <<opResult, done, failed, chip>>
  BY DEF RunSend, RunRefused, request, history
<1>2. /\ state # "idle" /\ bus # Me /\ ~failed /\ Len(done) < 4
      /\ s.register = "CRA" => Len(done) = 0
      /\ i2cResult = "error" => s.register = "CRA"
  BY <1>1, SendPlace
<1>3. s.wait # "idle"
  BY StepCases
<1>4. CASE RunSend(s)
  <2>1. bus' = Me /\ state' = s.wait /\ result' = result
    BY <1>4 DEF RunSend, Accept, EndOfRun
  <2> QED
    BY <1>1, <1>2, <1>3, <2>1 DEF Promised!CommandBegins, Promised!Commands
<1>5. CASE RunRefused(s) /\ i2cResult = "error"
  <2>1. bus' = bus /\ state' = "idle" /\ result' = [result EXCEPT ![opResult] = "error"]
    BY <1>5 DEF RunRefused, Refuse, EndOfRun
  <2> QED
    BY <1>1, <1>2, <1>5, <2>1 DEF Promised!ReportError
<1>6. CASE RunRefused(s) /\ i2cResult # "error"
  <2>1. bus' = bus /\ state' = s.send /\ result' = result
    BY <1>6 DEF RunRefused, Refuse, EndOfRun
  <2> QED
    BY <1>1, <1>2, <2>1 DEF Promised!CommandWaits, Promised!Commands
<1> QED
  BY <1>4, <1>5, <1>6

LEMMA WaitPromised ==
    ASSUME TypeOK, MeasurementInv, NEW s \in Steps, RunWait(s)
    PROVE  Promised!ReportOk \/ Promised!ReportError \/ Unseen
<1>1. /\ state = s.wait /\ i2cResult' = i2cResult
      /\ UNCHANGED <<bus, opResult, done, failed, chip, i2cBuffer>>
  BY DEF RunWait, request, history
<1>2. /\ state # "idle" /\ (bus = Me <=> i2cResult = "processing")
      /\ failed <=> i2cResult = "error"
      /\ i2cResult = "ok" => done = Append(Before[s.register], s.register)
  BY <1>1, WaitPlace
<1>3. i2cResult \in {"ok", "processing", "error"}
  BY DEF TypeOK, DataTypeOK, Results
<1>4. CASE i2cResult = "ok" /\ s.next = "idle"
  <2>1. state' = "idle" /\ result' = [result EXCEPT ![opResult] = "ok"]
    BY <1>1, <1>4 DEF RunWait, EndOfRun
  <2>2. Len(done) = 4
    BY <1>2, <1>4, Counts
  <2> QED
    BY <1>1, <1>2, <1>4, <2>1, <2>2 DEF Promised!ReportOk, Promised!Commands
<1>5. CASE i2cResult = "ok" /\ s.next # "idle"
  <2>1. state' = s.next /\ result' = result
    BY <1>1, <1>5 DEF RunWait, EndOfRun
  <2> QED
    BY <1>1, <1>2, <1>5, <2>1 DEF Unseen
<1>6. CASE i2cResult = "processing"
  <2>1. state' = state /\ result' = result
    BY <1>1, <1>6 DEF RunWait, EndOfRun
  <2> QED
    BY <1>1, <2>1 DEF Unseen
<1>7. CASE i2cResult = "error"
  <2>1. state' = "idle" /\ result' = [result EXCEPT ![opResult] = "error"]
    BY <1>1, <1>7 DEF RunWait, EndOfRun
  <2> QED
    BY <1>1, <1>2, <1>7, <2>1 DEF Promised!ReportError
<1> QED
  BY <1>3, <1>4, <1>5, <1>6, <1>7

(* What a transfer to each register does to the last sample.               *)
LEMMA SensorMeasures ==
    ASSUME TypeOK, NEW s \in Steps, Len(done) = Len(Before[s.register]), ChipReceives(s.register)
    PROVE  Promised!Measures /\ (s.register = "DATA" => chip' = chip)
<1>1. chip \in [cra : Byte, crb : Byte, sample : Samples]
  BY DEF TypeOK, DataTypeOK
<1>2. /\ s.register \in {"CRA", "CRB", "MODE", "DATA"}
      /\ Len(done) = 2 <=> s.register = "MODE"
  BY Counts, StepCases
<1>3. CASE s.register = "MODE"
  BY <1>1, <1>2, <1>3 DEF ChipReceives, Promised!Measures
<1>4. CASE s.register # "MODE"
  <2>1. chip'.sample = chip.sample
    BY <1>1, <1>2, <1>4 DEF ChipReceives
  <2> QED
    BY <1>2, <1>4, <2>1 DEF ChipReceives, Promised!Measures
<1> QED
  BY <1>3, <1>4

LEMMA TransferPromised ==
    ASSUME TypeOK, MeasurementInv, NEW s \in Steps, TransferSucceeds(s) \/ TransferFails(s)
    PROVE  Promised!CommandSucceeds \/ Promised!CommandFails
<1>1. /\ state = s.wait /\ bus = Me /\ bus' = "free" /\ Me # "free"
      /\ UNCHANGED <<state, opResult, result>>
  BY MeAssumption, UsersAssumption DEF TransferSucceeds, TransferFails, Finish, request
<1>2. state # "idle" /\ done = Before[s.register] /\ ~failed
  BY <1>1, WaitPlace
<1>3. CASE TransferSucceeds(s)
  <2>1. Len(done') = Len(done) + 1 /\ Len(done) \in 0..3
    BY <1>2, <1>3, Lengths DEF TransferSucceeds
  <2>2. Promised!Measures /\ (s.register = "DATA" => chip' = chip)
    BY <1>2, <1>3, SensorMeasures DEF TransferSucceeds
  <2>3. Len(done') = 4 => GetMeasurementData(i2cBuffer') = chip.sample
    <3>1. Len(done') = 4 => s.register = "DATA"
      BY <1>2, <1>3, Counts DEF TransferSucceeds
    <3>2. chip.sample \in Samples
      BY DEF TypeOK, DataTypeOK
    <3> QED
      BY <1>3, <3>1, <3>2, ReadBack DEF TransferSucceeds
  <2>4. failed' = failed
    BY <1>3 DEF TransferSucceeds
  <2> QED
    BY <1>1, <2>1, <2>2, <2>3, <2>4 DEF Promised!CommandSucceeds, Promised!Commands
<1>4. CASE TransferFails(s)
  <2>1. Promised!Measures \/ chip' = chip
    BY <1>2, <1>4, SensorMeasures DEF TransferFails
  <2>2. failed' = TRUE /\ done' = done
    BY <1>4 DEF TransferFails
  <2> QED
    BY <1>1, <2>1, <2>2 DEF Promised!CommandFails
<1> QED
  BY <1>3, <1>4

(* The compass driver implements what it promises: initial states map to   *)
(* initial states, and every step to a step of a measurement or a stutter. *)
THEOREM MeasuresAsPromised == Spec => ImplementsCompassDriver
<1>1. TypeOK /\ MeasurementInv /\ [Next]_vars => [Promised!Next]_(Promised!vars)
  <2> SUFFICES ASSUME TypeOK, MeasurementInv, [Next]_vars
               PROVE  [Promised!Next]_(Promised!vars)
    OBVIOUS
  <2>1. CASE UNCHANGED vars \/ OtherUser
    <3>1. UNCHANGED <<state, opResult, done, failed, result, i2cBuffer, chip>>
      BY <2>1 DEF vars, OtherUser, request, history
    <3>2. (bus' = Me) <=> (bus = Me)
      BY <2>1, MeAssumption, UsersAssumption DEF vars, OtherUser, Accept, Finish
    <3>3. Unseen
      BY <3>1, <3>2 DEF Unseen
    <3> QED
      BY <3>3, StutterPromised
  <2>2. CASE Run
    <3>1. CASE RunIdle
      BY <2>1, <3>1 DEF RunIdle
    <3>2. CASE \E s \in Steps : RunSend(s) \/ RunRefused(s)
      BY <3>2, SendPromised DEF Promised!Next
    <3>3. CASE \E s \in Steps : RunWait(s)
      BY <3>3, WaitPromised, StutterPromised DEF Promised!Next
    <3> QED
      BY <2>2, <3>1, <3>2, <3>3 DEF Run
  <2>3. CASE TransferEnds
    BY <2>3, TransferPromised DEF TransferEnds, Promised!Next
  <2> QED
    BY <2>1, <2>2, <2>3, CallsPromised DEF Next
<1> QED
  BY <1>1, InitPromised, HmcTypeCorrect, MeasurementInvariant, PTL
     DEF Spec, ImplementsCompassDriver, Promised!Spec
=============================================================================
