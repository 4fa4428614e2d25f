--------------------------- MODULE MCPortSession ----------------------------
(* Instances of PortSession for TLC. *)
EXTENDS PortSession

MCLists == {<<0>>, <<1, 0>>}
=============================================================================
