-------------------------- MODULE MCAdaptorSystem --------------------------
(***************************************************************************)
(* Two lines of four bursts, two burst values.  The contents are those of  *)
(* EvenLines: two of them differ in at least two bursts, so a burst that   *)
(* is missed, doubled or in the wrong place is seen.                       *)
(***************************************************************************)
EXTENDS AdaptorSystem, FiniteSets

EvenLines == {l \in Line : Cardinality({k \in Word : l[k] = l[1]}) % 2 = 0}

MCInit == Init /\ value_read \in EvenLines /\ mem \in [Addr -> EvenLines]

MCNext == Next /\ (want'.op = "write" => want'.line \in EvenLines)

MCSpec == MCInit /\ [][MCNext]_vars /\ Fairness
=============================================================================
