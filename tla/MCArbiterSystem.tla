-------------------------- MODULE MCArbiterSystem --------------------------
(* Two sets of two lines each, two line values. *)
EXTENDS ArbiterSystem
=============================================================================
