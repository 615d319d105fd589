------------------------- MODULE MCFramebufferBlit -------------------------
(* Instances of FramebufferBlit for TLC: 4 columns and 3 rows of segments. *)
EXTENDS FramebufferBlit

MCXs == {-1, 0, 2, 3}
MCYs == -9..24
=============================================================================
