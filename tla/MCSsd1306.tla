----------------------------- MODULE MCSsd1306 -----------------------------
(* Instances of Ssd1306 for TLC. *)
EXTENDS Ssd1306Refinement

(* A window inside the display, one that leaves it at the end. *)
MCColumnInputs == { <<0, 127>>, <<5, 128>> }
MCPageInputs   == { <<8, 3>> }
=============================================================================
