---------------------------- MODULE MCReplacement ----------------------------
(* The policy at the size of the L2 cache: every bit pattern of eight ways. *)
EXTENDS Replacement
=============================================================================
