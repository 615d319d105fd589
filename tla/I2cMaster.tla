----------------------------- MODULE I2cMaster -----------------------------
(***************************************************************************)
(* The I2C master of the HAL ("hal/i2c.h"), which is not part of this      *)
(* repository: it is modelled from how the drivers use it.  A driver hands *)
(* over a buffer and a result pointer; the request is accepted when the    *)
(* master is free and refused otherwise.  An accepted transfer is executed *)
(* in the background, reading or writing the driver's buffer through the   *)
(* pointer, and ends by writing ok or an error to the result.              *)
(*                                                                         *)
(* The module keeps only what the drivers can tell apart: who owns the     *)
(* transfer in flight.  What a finished transfer does to its owner's       *)
(* result and buffer is stated by the module of that driver.               *)
(***************************************************************************)
CONSTANTS Users     \* the drivers that share the master

VARIABLE bus        \* "free", or the user whose transfer is in flight

ASSUME UsersAssumption == "free" \notin Users

BusTypeOK == bus \in Users \cup {"free"}

BusInit == bus = "free"

(* i2c_request_ok: the transfer starts. *)
Accept(u) == bus = "free" /\ bus' = u

(* Any other answer: somebody's transfer is in flight. *)
Refuse == bus # "free" /\ UNCHANGED bus

(* The transfer of u ends. *)
Finish(u) == bus = u /\ bus' = "free"
=============================================================================
