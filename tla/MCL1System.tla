----------------------------- MODULE MCL1System -----------------------------
(* Two ways and one line more than they hold: data in one set, or control in two. *)
EXTENDS L1System, TLC

Symmetry == Permutations(Tag \ {ZeroTag}) \cup Permutations(Value)
=============================================================================
