--------------------------- MODULE CompassDriver ----------------------------
(***************************************************************************)
(* What the compass driver promises its clients, without states, buffer    *)
(* and pointers: it makes one measurement at a time, of four commands, one *)
(* after the other, and begins none after one that failed.  A client that  *)
(* reads ok gets what the sensor measured for it, and gets the same until  *)
(* the next measurement begins; one that reads an error had a command that *)
(* failed, or was told before its first command.  A client that starts a   *)
(* measurement on a driver that was not configured is never told anything. *)
(***************************************************************************)
EXTENDS Naturals

CONSTANTS
    Clients,
    Nobody,         \* no client
    Samples         \* what the sensor may measure

VARIABLES
    measuring,      \* a measurement is in progress
    client,         \* the client of the measurement, or of the last one
    sending,        \* a command is on the bus
    ended,          \* commands of the measurement that ended well
    broken,         \* a command of the measurement failed
    sample,         \* what the sensor measured last
    reading,        \* what a client gets when it asks for the measured data
    result          \* what the clients read of their measurements

vars == <<measuring, client, sending, ended, broken, sample, reading, result>>

(* The third command makes the sensor measure, the fourth one reads. *)
Commands == 4

Init ==
    /\ measuring = FALSE
    /\ client = Nobody
    /\ sending = FALSE
    /\ ended = 0
    /\ broken = FALSE
    /\ sample \in Samples
    /\ result \in [Clients -> {"ok", "error"}]

(* A measurement is asked for, and begins if the driver is configured. *)
Start(c) ==
    /\ ~measuring
    /\ \A d \in Clients : result[d] # "processing"
    /\ result' = [result EXCEPT ![c] = "processing"]
    /\ client' = c
    /\ measuring' \in BOOLEAN
    /\ ended' = 0
    /\ broken' = FALSE
    /\ UNCHANGED <<sending, sample, reading>>

(* What a client gets while the measurement goes on is anything. *)
CommandWaits ==
    /\ measuring /\ ~sending /\ ~broken /\ ended < Commands
    /\ UNCHANGED <<measuring, client, sending, ended, broken, sample, result>>

CommandBegins ==
    /\ measuring /\ ~sending /\ ~broken /\ ended < Commands
    /\ sending' = TRUE
    /\ UNCHANGED <<measuring, client, ended, broken, sample, result>>

Measures == IF ended = 2 THEN sample' \in Samples ELSE UNCHANGED sample

CommandSucceeds ==
    /\ sending
    /\ sending' = FALSE
    /\ ended' = ended + 1
    /\ Measures
    /\ ended' = Commands => reading' = sample
    /\ UNCHANGED <<measuring, client, broken, result>>

(* Whether or not it has reached the sensor. *)
CommandFails ==
    /\ sending
    /\ sending' = FALSE
    /\ broken' = TRUE
    /\ Measures \/ UNCHANGED sample
    /\ UNCHANGED <<measuring, client, ended, result>>

ReportOk ==
    /\ measuring /\ ~sending /\ ~broken /\ ended = Commands
    /\ measuring' = FALSE
    /\ result' = [result EXCEPT ![client] = "ok"]
    /\ UNCHANGED <<client, sending, ended, broken, sample, reading>>

(* The error may be that of the measurement before. *)
ReportError ==
    /\ measuring /\ ~sending
    /\ broken \/ ended = 0
    /\ measuring' = FALSE
    /\ result' = [result EXCEPT ![client] = "error"]
    /\ UNCHANGED <<client, sending, ended, broken, sample>>

Next ==
    \/ \E c \in Clients : Start(c)
    \/ CommandWaits \/ CommandBegins \/ CommandSucceeds \/ CommandFails
    \/ ReportOk \/ ReportError

Spec == Init /\ [][Next]_vars
=============================================================================
