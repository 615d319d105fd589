------------------------- MODULE Ssd1306Refinement -------------------------
(***************************************************************************)
(* The driver of Ssd1306 implements DisplayDriver.                         *)
(***************************************************************************)
EXTENDS Ssd1306

Promised == INSTANCE DisplayDriver WITH
    Nobody    <- NULL,
    operation <- state,
    client    <- operationResult,
    sending   <- (bus = Me),
    ended     <- transfers

(* Every behaviour of the driver, with its delay, its refusals, and the    *)
(* setters that interfere with a send, is one the clients were promised:   *)
(* the steps of ssd1306_run begin and end the commands of the accepted     *)
(* operation or change nothing a client can see.                           *)
ImplementsDisplayDriver == Promised!Spec
=============================================================================
