----------------------------- MODULE MCHmc5883l -----------------------------
(* Instances of Hmc5883l for TLC. *)
EXTENDS Hmc5883l

(* The readings of read_data_after_single_measurement, and one that        *)
(* differs from it in every byte.                                          *)
MCSamples == { [x |-> 258, y |-> 772, z |-> 1286], [x |-> 0, y |-> 65535, z |-> 256] }
=============================================================================
