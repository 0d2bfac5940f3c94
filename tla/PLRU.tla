-------------------------------- MODULE PLRU --------------------------------
(***************************************************************************)
(* The tree pseudo-LRU of the two set-associative caches.  A set keeps one *)
(* bit per inner node of a binary tree over its ways; the bit says which   *)
(* half was used last (0 left, 1 right).  The code numbers the nodes in    *)
(* order: node n sits between way n and way n + 1, so in the 4-way cache   *)
(* the root is bit 1 and in the 8-way cache it is bit 3.                   *)
(*                                                                         *)
(* load_PLRU and which_replace state the tree once for every number of     *)
(* ways; the operators with a suffix _4 and _8 are the two bodies written  *)
(* out in the code, and Replacement compares them with the tree.           *)
(***************************************************************************)
EXTENDS Integers

CONSTANT Ways       \* number of ways of a set

ASSUME WaysAssumption == Ways \in {2, 4, 8}

Way  == 0 .. (Ways - 1)
Node == 0 .. (Ways - 2)
Bits == [Node -> BOOLEAN]

\* Half the number of ways below node n.
Half(n) == IF (n + 1) % 4 = 0 THEN 4 ELSE IF (n + 1) % 2 = 0 THEN 2 ELSE 1

\* Way w is a leaf of the subtree of node n; it lies in the right half iff w > n.
Under(w, n) == (n + 1 - Half(n) <= w) /\ (w <= n + Half(n))

\* A slip in the tree: the root is not turned towards the way just used.
load_PLRU_no_root(b, w) ==
    [n \in Node |-> IF Under(w, n) /\ n # Ways \div 2 - 1 THEN w > n ELSE b[n]]

\* A slip in the tree: the bits are turned away from the way just used.
load_PLRU_mirrored(b, w) == [n \in Node |-> IF Under(w, n) THEN w <= n ELSE b[n]]

\* The bits after an access to way w: every node above w points at w.
load_PLRU(b, w) == [n \in Node |-> IF Under(w, n) THEN w > n ELSE b[n]]

\* The way to replace: the leaf reached by turning away from every bit.
which_replace(b) ==
    CHOOSE v \in Way : \A n \in Node : Under(v, n) => ((v > n) <=> ~b[n])

-----------------------------------------------------------------------------
(* The bodies as the two control units write them out.                     *)

load_PLRU_4(b, w) ==
    CASE w = 0 -> [b EXCEPT ![1] = FALSE, ![0] = FALSE]
      [] w = 1 -> [b EXCEPT ![1] = FALSE, ![0] = TRUE]
      [] w = 2 -> [b EXCEPT ![1] = TRUE,  ![2] = FALSE]
      [] w = 3 -> [b EXCEPT ![1] = TRUE,  ![2] = TRUE]

which_replace_4(b) ==
    LET t(n) == ~b[n]
    IN  IF ~t(1) THEN (IF ~t(0) THEN 0 ELSE 1)
                 ELSE (IF ~t(2) THEN 2 ELSE 3)

load_PLRU_8(b, w) ==
    CASE w = 0 -> [b EXCEPT ![3] = FALSE, ![1] = FALSE, ![0] = FALSE]
      [] w = 1 -> [b EXCEPT ![3] = FALSE, ![1] = FALSE, ![0] = TRUE]
      [] w = 2 -> [b EXCEPT ![3] = FALSE, ![1] = TRUE,  ![2] = FALSE]
      [] w = 3 -> [b EXCEPT ![3] = FALSE, ![1] = TRUE,  ![2] = TRUE]
      [] w = 4 -> [b EXCEPT ![3] = TRUE,  ![5] = FALSE, ![4] = FALSE]
      [] w = 5 -> [b EXCEPT ![3] = TRUE,  ![5] = FALSE, ![4] = TRUE]
      [] w = 6 -> [b EXCEPT ![3] = TRUE,  ![5] = TRUE,  ![6] = FALSE]
      [] w = 7 -> [b EXCEPT ![3] = TRUE,  ![5] = TRUE,  ![6] = TRUE]

\* A slip of the kind a hand-written tree invites: the wrong child of node 5.
which_replace_8_wrong_child(b) ==
    LET t(n) == ~b[n]
    IN  IF t(3) THEN IF ~t(5) THEN (IF ~t(6) THEN 4 ELSE 5)
                              ELSE (IF ~t(4) THEN 6 ELSE 7)
                ELSE IF ~t(1) THEN (IF ~t(0) THEN 0 ELSE 1)
                              ELSE (IF ~t(2) THEN 2 ELSE 3)

which_replace_8(b) ==
    LET t(n) == ~b[n]
    IN  IF t(3) THEN IF ~t(5) THEN (IF ~t(4) THEN 4 ELSE 5)
                              ELSE (IF ~t(6) THEN 6 ELSE 7)
                ELSE IF ~t(1) THEN (IF ~t(0) THEN 0 ELSE 1)
                              ELSE (IF ~t(2) THEN 2 ELSE 3)
=============================================================================
