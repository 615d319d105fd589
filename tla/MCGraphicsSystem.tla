-------------------------- MODULE MCGraphicsSystem -------------------------
(* Instances of GraphicsSystem for TLC: a display of 1 column and 2 pages. *)
EXTENDS GraphicsSystem

MCBlitPlaces == {<<0, 5>>, <<0, 8>>}
MCBlitSizes  == {<<1, 8>>, <<1, 0>>}
=============================================================================
