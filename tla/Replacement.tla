----------------------------- MODULE Replacement -----------------------------
(***************************************************************************)
(* One set of a cache seen by its replacement policy alone: a hit touches  *)
(* any way, a miss fills the way which_replace names and then touches it,  *)
(* because the control unit goes back to its hit state after the fill.     *)
(***************************************************************************)
EXTENDS PLRU, Sequences, SequencesExt

VARIABLES
    LRU,        \* the set's bits
    used,       \* the way touched last, Ways before the first access
    victims     \* the ways replaced since the last hit, newest last; at most Ways

vars == <<LRU, used, victims>>

Init == LRU = [n \in Node |-> FALSE] /\ used = Ways /\ victims = <<>>

HitAccess(w) ==
    /\ LRU' = load_PLRU(LRU, w)
    /\ used' = w
    /\ victims' = <<>>

MissAccess ==
    LET v == which_replace(LRU)
        s == Append(victims, v)
    IN  /\ LRU' = load_PLRU(LRU, v)
        /\ used' = v
        /\ victims' = IF Len(s) > Ways THEN Tail(s) ELSE s

Next == (\E w \in Way : HitAccess(w)) \/ MissAccess

Spec == Init /\ [][Next]_vars

-----------------------------------------------------------------------------
\* load_PLRU and which_replace of the 8-way control unit, written out case by
\* case, compute the tree policy; the 4-way unit's are the same on its three
\* bits (the left half of the 8-way tree).
CodeIsTheTree ==
    /\ \A w \in Way : load_PLRU_8(LRU, w) = load_PLRU(LRU, w)
    /\ which_replace_8(LRU) = which_replace(LRU)
    /\ \A w \in 0 .. 3, n \in 0 .. 2 :
          /\ load_PLRU_4(LRU, w)[n] = load_PLRU(LRU, w)[n]
          /\ Under(which_replace_4(LRU), n)
                => ((which_replace_4(LRU) > n) <=> ~LRU[n])

\* The way touched last is not the next victim: a line that was just filled or
\* hit survives the next miss of its set, whatever happened before.
LastUsedIsKept == used \in Way => which_replace(LRU) # used

\* A run of misses walks through the set: as many misses as there are ways
\* replace each way exactly once, so no line is replaced twice while another
\* one of the set has not been touched at all.
MissesVisitEveryWay == IsInjective(victims)

-----------------------------------------------------------------------------
(* The inductive invariant behind these.                                   *)

\* Two ways in the same of d equal parts of the set.
Same(x, y, d) == x \div (Ways \div d) = y \div (Ways \div d)

\* A bit points at the half that the last of the victims below it is in.
PointsAtLast ==
    \A n \in Node, j \in DOMAIN victims :
        /\ Under(victims[j], n)
        /\ \A k \in DOMAIN victims : k > j => ~Under(victims[k], n)
        => (LRU[n] <=> victims[j] > n)

\* The root turns with every miss, a node below it with every second one, and so on:
\* victims d misses apart are in the same of d parts and in different halves of it.
VictimsAlternate ==
    \A j, k \in DOMAIN victims :
        k - j \in {1, 2, 4} => /\ Same(victims[j], victims[k], k - j)
                               /\ ~Same(victims[j], victims[k], 2 * (k - j))

IInv ==
    /\ LRU \in Bits /\ used \in 0 .. Ways
    /\ victims \in Seq(Way) /\ Len(victims) <= Ways
    /\ LastUsedIsKept /\ PointsAtLast /\ VictimsAlternate
=============================================================================
