----------------------------- MODULE MCL2System -----------------------------
(* The L2 cache with two ways: data in one set, or control in two sets. *)
EXTENDS L2System, TLC

Symmetry == Permutations(Tag \ {ZeroTag}) \cup Permutations(Value)
=============================================================================
