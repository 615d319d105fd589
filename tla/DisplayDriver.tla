--------------------------- MODULE DisplayDriver ----------------------------
(***************************************************************************)
(* What the display driver promises its clients, without steps, flags and  *)
(* pointers: it serves one operation at a time, an operation is a bounded  *)
(* number of commands of which one is on the bus at a time, nothing is     *)
(* sent outside an operation, and the client reads ok when all commands of *)
(* its operation have ended.  A single command occupies the driver and is  *)
(* never reported.                                                         *)
(***************************************************************************)
EXTENDS Naturals

CONSTANTS
    Clients,
    Nobody          \* no client

VARIABLES
    operation,      \* "idle", "single", "init" or "send"
    client,         \* the client of the operation, or of the last one
    sending,        \* a command is on the bus
    ended,          \* commands of the operation that have ended
    result          \* what the clients read

vars == <<operation, client, sending, ended, result>>

(* How many commands an operation may have when it is done: sending the    *)
(* graphics data takes the window along, or not.                           *)
Lengths(op) == CASE op = "init" -> {13} [] op = "send" -> 1..3 [] OTHER -> {}

(* The most commands an operation may begin. *)
Limit(op) == CASE op = "init" -> 13 [] op = "send" -> 3 [] op = "single" -> 1 [] OTHER -> 0

Init ==
    /\ operation = "idle"
    /\ client = Nobody
    /\ sending = FALSE
    /\ ended = 0
    /\ result \in [Clients -> {"ok", "processing"}]

Accept(c, op) ==
    /\ operation = "idle"
    /\ operation' = op
    /\ client' = c
    /\ ended' = 0
    /\ UNCHANGED sending

AcceptInit(c) ==
    Accept(c, "init") /\ result' = [result EXCEPT ![c] = "processing"]

AcceptSend(c)   == Accept(c, "send") /\ UNCHANGED result
AcceptSingle(c) == Accept(c, "single") /\ UNCHANGED result

CommandBegins ==
    /\ ~sending
    /\ ended < Limit(operation)
    /\ sending' = TRUE
    /\ UNCHANGED <<operation, client, ended, result>>

(* Well or badly. *)
CommandEnds ==
    /\ sending
    /\ sending' = FALSE
    /\ ended' = ended + 1
    /\ UNCHANGED <<operation, client, result>>

Done ==
    /\ ~sending
    /\ ended \in Lengths(operation)
    /\ operation' = "idle"
    /\ ended' = 0
    /\ result' = [result EXCEPT ![client] = "ok"]
    /\ UNCHANGED <<client, sending>>

Next ==
    \/ \E c \in Clients : AcceptInit(c) \/ AcceptSend(c) \/ AcceptSingle(c)
    \/ CommandBegins \/ CommandEnds \/ Done

Spec == Init /\ [][Next]_vars
=============================================================================
