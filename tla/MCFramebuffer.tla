--------------------------- MODULE MCFramebuffer ---------------------------
(* Instances of Framebuffer for TLC: 3 columns and 3 rows of segments.     *)
EXTENDS Framebuffer

MCBlitPlaces == {<<-1, 0>>, <<0, 0>>, <<1, 5>>, <<1, 8>>, <<2, 8>>, <<2, -3>>}
MCBlitSizes  == {<<0, 3>>, <<1, 0>>, <<1, 11>>, <<2, 4>>, <<255, 255>>}
=============================================================================
