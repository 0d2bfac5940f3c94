------------------------- MODULE ReplacementProofs -------------------------
(***************************************************************************)
(* The replacement policy over a whole run of accesses, for both tree      *)
(* sizes of the code, and the bodies the control units write out.          *)
(***************************************************************************)
EXTENDS Replacement, TLAPS

-----------------------------------------------------------------------------
(* The operators of the policy.                                            *)

\* v is the leaf reached by turning away from every bit of b.
Away(b, v) == \A n \in Node : Under(v, n) => ((v > n) <=> ~b[n])

\* A leaf turned away from every bit exists: the one the code's case split finds.
LEMMA AwayExists ==
    ASSUME NEW b \in Bits
    PROVE  \E v \in Way : Away(b, v)
<1>1. CASE Ways = 2
  <2>1. Way = {0, 1} /\ Node = {0}
    BY <1>1 DEF Way, Node
  <2>2. CASE b[0]
    BY <2>1, <2>2 DEF Away, Under, Half
  <2>3. CASE ~b[0]
    BY <2>1, <2>3 DEF Away, Under, Half
  <2> QED BY <2>2, <2>3
<1>2. CASE Ways = 4
  <2>1. Way = {0, 1, 2, 3} /\ Node = {0, 1, 2}
    BY <1>2 DEF Way, Node
  <2>2. which_replace_4(b) \in Way
    BY <2>1 DEF which_replace_4
  <2>3. Away(b, which_replace_4(b))
    BY <2>1 DEF Away, Under, Half, which_replace_4
  <2> QED BY <2>2, <2>3
<1>3. CASE Ways = 8
  <2>1. Way = {0, 1, 2, 3, 4, 5, 6, 7} /\ Node = {0, 1, 2, 3, 4, 5, 6}
    BY <1>3 DEF Way, Node
  <2>2. which_replace_8(b) \in Way
    BY <2>1 DEF which_replace_8
  <2>3. Away(b, which_replace_8(b))
    BY <2>1 DEF Away, Under, Half, which_replace_8
  <2> QED BY <2>2, <2>3
<1> QED BY <1>1, <1>2, <1>3, WaysAssumption

\* which_replace names a way, and it is such a leaf.
LEMMA WhichReplace ==
    ASSUME NEW b \in Bits
    PROVE  which_replace(b) \in Way /\ Away(b, which_replace(b))
<1>1. which_replace(b) = CHOOSE v \in Way : Away(b, v)
  BY DEF which_replace, Away
<1> QED BY <1>1, AwayExists

\* load_PLRU yields bits.
LEMMA LoadPLRU ==
    ASSUME NEW b \in Bits, NEW w \in Way
    PROVE  load_PLRU(b, w) \in Bits
<1>1. ASSUME NEW n \in Node
      PROVE  (IF Under(w, n) THEN w > n ELSE b[n]) \in BOOLEAN
  <2>1. b[n] \in BOOLEAN
    BY DEF Bits
  <2>2. (w > n) \in BOOLEAN
    OBVIOUS
  <2> QED BY <2>1, <2>2
<1> QED BY <1>1 DEF load_PLRU, Bits

\* The way touched last is never the next victim, for both tree sizes of the code.
THEOREM LastUsedIsNotReplaced ==
    ASSUME NEW b \in Bits, NEW w \in Way
    PROVE  which_replace(load_PLRU(b, w)) # w
<1> DEFINE c == load_PLRU(b, w)
           root == Ways \div 2 - 1
<1>1. c \in Bits
  BY LoadPLRU
<1>2. root \in Node /\ Under(w, root) /\ w \in Int /\ root \in Int
  BY WaysAssumption DEF Way, Node, Under, Half
<1>3. c[root] <=> w > root
  BY <1>2 DEF load_PLRU
<1>4. SUFFICES ASSUME which_replace(c) = w PROVE FALSE
  OBVIOUS
<1>5. (w > root) <=> ~c[root]
  BY <1>1, <1>2, <1>4, WhichReplace DEF Away
<1> QED BY <1>3, <1>5

----------------------------------------------------------------------------
(* The tree. *)

\* Parts of the set: two halves of a part make the part.
LEMMA Parts ==
    ASSUME NEW d \in {1, 2, 4}, d < Ways, NEW x \in Way, NEW y \in Way, NEW z \in Way
    PROVE  /\ Same(x, y, 1) /\ (Same(x, y, d) <=> Same(y, x, d))
           /\ Same(x, y, 2 * d) <=> Same(y, x, 2 * d)
           /\ Same(x, y, 2 * d) => Same(x, y, d)
           /\ Same(x, y, d) /\ Same(y, z, d) => Same(x, z, d)
           /\ Same(x, y, 2 * d) /\ Same(y, z, 2 * d) => Same(x, z, 2 * d)
           /\ Same(x, y, d) /\ ~Same(x, y, 2 * d) /\ Same(y, z, d) /\ ~Same(y, z, 2 * d)
                => Same(x, z, 2 * d)
<1>1. CASE Ways = 2
  BY <1>1 DEF Same, Way
<1>2. CASE Ways = 4
  <2>1. CASE d = 1
    BY <1>2, <2>1 DEF Same, Way
  <2>2. CASE d = 2
    BY <1>2, <2>2 DEF Same, Way
  <2> QED BY <1>2, <2>1, <2>2
<1>3. CASE Ways = 8
  <2>1. CASE d = 1
    BY <1>3, <2>1 DEF Same, Way
  <2>2. CASE d = 2
    BY <1>3, <2>2 DEF Same, Way
  <2>3. CASE d = 4
    BY <1>3, <2>3 DEF Same, Way
  <2> QED BY <2>1, <2>2, <2>3
<1> QED BY <1>1, <1>2, <1>3, WaysAssumption

\* The node above way x that divides the part of x into halves.
LEMMA NodeOfPart ==
    ASSUME NEW d \in {1, 2, 4}, d < Ways, NEW x \in Way
    PROVE  \E n \in Node : \A y \in Way :
              /\ Under(y, n) <=> Same(x, y, d)
              /\ Under(y, n) => (((x > n) <=> (y > n)) <=> Same(x, y, 2 * d))
<1> DEFINE Q(n) == \A y \in Way :
              /\ Under(y, n) <=> Same(x, y, d)
              /\ Under(y, n) => (((x > n) <=> (y > n)) <=> Same(x, y, 2 * d))
<1>0. x \in Int
  BY WaysAssumption DEF Way
<1>1. CASE Ways = 2
  <2>1. 0 \in Node /\ Q(0)
    BY <1>1 DEF Node, Way, Under, Half, Same
  <2> QED BY <2>1
<1>2. CASE Ways = 4
  <2>1. CASE d = 1
    <3>1. 1 \in Node /\ Q(1)
      BY <1>2, <2>1 DEF Node, Way, Under, Half, Same
    <3> QED BY <3>1
  <2>2. CASE d = 2
    <3>1. CASE x \in 0 .. 1
      <4>1. 0 \in Node /\ Q(0)
        BY <1>2, <2>2, <3>1 DEF Node, Way, Under, Half, Same
      <4> QED BY <4>1
    <3>2. CASE x \in 2 .. 3
      <4>1. 2 \in Node /\ Q(2)
        BY <1>2, <2>2, <3>2 DEF Node, Way, Under, Half, Same
      <4> QED BY <4>1
    <3> QED BY <1>2, <3>1, <3>2 DEF Way
  <2> QED BY <1>2, <2>1, <2>2
<1>3. CASE Ways = 8
  <2>1. CASE d = 1
    <3>1. 3 \in Node /\ Q(3)
      BY <1>3, <2>1 DEF Node, Way, Under, Half, Same
    <3> QED BY <3>1
  <2>2. CASE d = 2
    <3>1. CASE x \in 0 .. 3
      <4>1. 1 \in Node /\ Q(1)
        BY <1>3, <2>2, <3>1 DEF Node, Way, Under, Half, Same
      <4> QED BY <4>1
    <3>2. CASE x \in 4 .. 7
      <4>1. 5 \in Node /\ Q(5)
        BY <1>3, <2>2, <3>2 DEF Node, Way, Under, Half, Same
      <4> QED BY <4>1
    <3> QED BY <1>3, <3>1, <3>2 DEF Way
  <2>3. CASE d = 4
    <3>1. CASE x \in 0 .. 1
      <4>1. 0 \in Node /\ Q(0)
        BY <1>3, <2>3, <3>1 DEF Node, Way, Under, Half, Same
      <4> QED BY <4>1
    <3>2. CASE x \in 2 .. 3
      <4>1. 2 \in Node /\ Q(2)
        BY <1>3, <2>3, <3>2 DEF Node, Way, Under, Half, Same
      <4> QED BY <4>1
    <3>3. CASE x \in 4 .. 5
      <4>1. 4 \in Node /\ Q(4)
        BY <1>3, <2>3, <3>3 DEF Node, Way, Under, Half, Same
      <4> QED BY <4>1
    <3>4. CASE x \in 6 .. 7
      <4>1. 6 \in Node /\ Q(6)
        BY <1>3, <2>3, <3>4 DEF Node, Way, Under, Half, Same
      <4> QED BY <4>1
    <3> QED BY <1>3, <3>1, <3>2, <3>3, <3>4 DEF Way
  <2> QED BY <2>1, <2>2, <2>3
<1> QED BY <1>1, <1>2, <1>3, WaysAssumption

----------------------------------------------------------------------------
(* A run of misses. *)

\* The next victim is in another half of a part than the last victim of that part.
LEMMA NextVictim ==
    ASSUME IInv, NEW d \in {1, 2, 4}, d < Ways, NEW j \in DOMAIN victims,
           Same(which_replace(LRU), victims[j], d),
           \A k \in DOMAIN victims : k > j => ~Same(which_replace(LRU), victims[k], d)
    PROVE  ~Same(which_replace(LRU), victims[j], 2 * d)
<1> DEFINE v == which_replace(LRU)
<1>1. v \in Way /\ Away(LRU, v) /\ \A k \in DOMAIN victims : victims[k] \in Way
  BY WhichReplace DEF IInv
<1>2. PICK n \in Node : \A y \in Way :
              /\ Under(y, n) <=> Same(v, y, d)
              /\ Under(y, n) => (((v > n) <=> (y > n)) <=> Same(v, y, 2 * d))
  BY <1>1, NodeOfPart
<1> HIDE DEF v
<1>3. Same(v, v, d)
  BY DEF Same
<1>4. Under(v, n) /\ Under(victims[j], n) /\ \A k \in DOMAIN victims : k > j => ~Under(victims[k], n)
  BY <1>1, <1>2, <1>3 DEF v
<1>5. LRU[n] <=> victims[j] > n
  BY <1>4 DEF IInv, PointsAtLast
<1>6. (v > n) <=> ~LRU[n]
  BY <1>1, <1>4 DEF Away
<1>7. ~((v > n) <=> (victims[j] > n))
  BY <1>5, <1>6
<1> QED BY <1>1, <1>2, <1>4, <1>7 DEF v

\* With the next victim the run goes on alternating.
LEMMA NextAlternates ==
    ASSUME IInv, NEW d \in {1, 2, 4}, d < Ways, NEW j \in DOMAIN victims,
           j = Len(victims) + 1 - d
    PROVE  /\ Same(victims[j], which_replace(LRU), d)
           /\ ~Same(victims[j], which_replace(LRU), 2 * d)
<1> DEFINE v == which_replace(LRU)
           L == Len(victims)
<1>1. /\ v \in Way /\ \A k \in DOMAIN victims : victims[k] \in Way
      /\ DOMAIN victims = 1 .. L /\ L \in Nat /\ L <= Ways
  BY WhichReplace DEF IInv
<1>2. \A i, k \in 1 .. L : k - i \in {1, 2, 4} =>
          /\ Same(victims[i], victims[k], k - i) /\ ~Same(victims[i], victims[k], 2 * (k - i))
  BY <1>1 DEF IInv, VictimsAlternate
<1>3. 1 \in {1, 2, 4} /\ 2 \in {1, 2, 4} /\ 4 \in {1, 2, 4} /\ 1 < Ways /\ Ways \in Nat
  BY WaysAssumption
<1> HIDE DEF v
<1>4. ASSUME L >= 1 PROVE Same(victims[L], v, 1) /\ ~Same(victims[L], v, 2)
  <2>1. L \in DOMAIN victims /\ \A k \in DOMAIN victims : ~(k > L)
    BY <1>1, <1>4
  <2>2. Same(v, victims[L], 1)
    BY <1>1, <1>3, <2>1, Parts
  <2>3. ~Same(v, victims[L], 2 * 1)
    BY <1>3, <2>1, <2>2, NextVictim DEF v
  <2> QED BY <1>1, <1>3, <2>1, <2>2, <2>3, Parts
<1>5. ASSUME L >= 2, 2 < Ways PROVE Same(victims[L - 1], v, 2) /\ ~Same(victims[L - 1], v, 4)
  <2>1. L - 1 \in 1 .. L /\ L \in 1 .. L /\ L - (L - 1) = 1
    BY <1>1, <1>5
  <2>2. Same(victims[L - 1], victims[L], 1) /\ ~Same(victims[L - 1], victims[L], 2 * 1)
    BY <1>2, <1>3, <2>1
  <2>3. Same(victims[L - 1], v, 2 * 1)
    BY <1>1, <1>3, <1>4, <1>5, <2>1, <2>2, Parts
  <2>4. Same(v, victims[L - 1], 2)
    BY <1>1, <1>3, <1>5, <2>1, <2>3, Parts
  <2>5. \A k \in DOMAIN victims : k > L - 1 => ~Same(v, victims[k], 2)
    BY <1>1, <1>3, <1>4, <1>5, <2>1, Parts
  <2>6. ~Same(v, victims[L - 1], 2 * 2)
    BY <1>1, <1>3, <1>5, <2>1, <2>4, <2>5, NextVictim DEF v
  <2> QED BY <1>1, <1>3, <1>5, <2>1, <2>3, <2>6, Parts
<1>6. ASSUME L >= 4, 4 < Ways PROVE Same(victims[L - 3], v, 4) /\ ~Same(victims[L - 3], v, 8)
  <2>1. /\ L - 3 \in 1 .. L /\ L - 2 \in 1 .. L /\ L - 1 \in 1 .. L /\ L \in 1 .. L /\ 2 < Ways
        /\ (L - 1) - (L - 3) = 2 /\ (L - 1) - (L - 2) = 1
    BY <1>1, <1>3, <1>6
  <2>2. Same(victims[L - 3], victims[L - 1], 2) /\ ~Same(victims[L - 3], victims[L - 1], 2 * 2)
    BY <1>2, <1>3, <2>1
  <2>3. ~Same(victims[L - 2], victims[L - 1], 2)
    BY <1>2, <1>3, <2>1
  <2>4. /\ Same(victims[L - 1], v, 2) /\ ~Same(victims[L - 1], v, 2 * 2)
        /\ ~Same(victims[L], v, 2)
    BY <1>1, <1>4, <1>5, <1>6, <2>1
  <2>5. Same(victims[L - 3], v, 2 * 2)
    BY <1>1, <1>3, <2>1, <2>2, <2>4, Parts
  <2>6. Same(v, victims[L - 3], 4)
    BY <1>1, <1>3, <1>6, <2>1, <2>5, Parts
  <2>7. ~Same(v, victims[L - 2], 2) /\ ~Same(v, victims[L], 2) /\ ~Same(v, victims[L - 1], 2 * 2)
    BY <1>1, <1>3, <2>1, <2>3, <2>4, Parts
  <2>8. ~Same(v, victims[L - 2], 2 * 2) /\ ~Same(v, victims[L], 2 * 2)
    BY <1>1, <1>3, <2>1, <2>7, Parts
  <2>9. \A k \in DOMAIN victims : k > L - 3 => ~Same(v, victims[k], 4)
    <3> SUFFICES ASSUME NEW k \in 1 .. L, k > L - 3 PROVE ~Same(v, victims[k], 2 * 2)
      BY <1>1
    <3> HIDE DEF L
    <3>1. k = L - 2 \/ k = L - 1 \/ k = L
      BY <1>1
    <3> QED BY <2>7, <2>8, <3>1
  <2>10. ~Same(v, victims[L - 3], 2 * 4)
    BY <1>1, <1>3, <1>6, <2>1, <2>6, <2>9, NextVictim DEF v
  <2> QED BY <1>1, <1>3, <1>6, <2>1, <2>5, <2>10, Parts
<1>7. j \in 1 .. L /\ (d = 1 => j = L /\ L >= 1) /\ (d = 2 => j = L - 1 /\ L >= 2)
      /\ (d = 4 => j = L - 3 /\ L >= 4)
  BY <1>1
<1> QED BY <1>4, <1>5, <1>6, <1>7 DEF v

\* The history of a run that goes on with v: at most Ways victims are kept.
LEMMA History ==
    ASSUME IInv, NEW v \in Way, NEW s, s = Append(victims, v), NEW t,
           t = IF Len(s) > Ways THEN Tail(s) ELSE s
    PROVE  /\ t \in Seq(Way) /\ Len(t) \in Nat /\ DOMAIN t = 1 .. Len(t) /\ Len(t) <= Ways
           /\ Len(t) >= 1 /\ t[Len(t)] = v
           /\ \E m \in {0, 1} :
                 /\ Len(t) = Len(victims) + 1 - m
                 /\ \A i \in 1 .. Len(t) - 1 : i + m \in DOMAIN victims /\ t[i] = victims[i + m]
<1>1. /\ victims \in Seq(Way) /\ Len(victims) \in Nat /\ Len(victims) <= Ways /\ Ways \in Nat
      /\ DOMAIN victims = 1 .. Len(victims) /\ Ways >= 1
  BY WaysAssumption DEF IInv
<1>2. /\ s \in Seq(Way) /\ Len(s) = Len(victims) + 1 /\ s[Len(victims) + 1] = v
      /\ \A i \in 1 .. Len(victims) : s[i] = victims[i]
  BY <1>1
<1>3. CASE Len(s) > Ways
  <2>1. /\ t \in Seq(Way) /\ Len(t) = Len(victims) /\ DOMAIN t = 1 .. Len(t)
        /\ \A i \in 1 .. Len(t) : t[i] = s[i + 1]
    BY <1>1, <1>2, <1>3
  <2>2. Len(victims) = Ways
    BY <1>1, <1>2, <1>3
  <2>3. Len(t) = Len(victims) + 1 - 1 /\ t[Len(t)] = v
    BY <1>1, <1>2, <2>1, <2>2
  <2>4. \A i \in 1 .. Len(t) - 1 : i + 1 \in DOMAIN victims /\ t[i] = victims[i + 1]
    <3> SUFFICES ASSUME NEW i \in 1 .. Len(t) - 1
                 PROVE  i + 1 \in DOMAIN victims /\ t[i] = victims[i + 1]
      OBVIOUS
    <3>1. \A L \in Nat : i \in 1 .. L - 1 => i \in 1 .. L /\ i + 1 \in 1 .. L
      OBVIOUS
    <3>2. i \in 1 .. Len(t) /\ i + 1 \in 1 .. Len(victims)
      BY <1>1, <2>1, <3>1
    <3> QED BY <1>1, <1>2, <2>1, <3>2
  <2> QED BY <1>1, <2>1, <2>2, <2>3, <2>4
<1>4. CASE ~(Len(s) > Ways)
  <2>1. t = s /\ Len(t) = Len(victims) + 1 - 0 /\ Len(s) <= Ways /\ DOMAIN t = 1 .. Len(t)
    BY <1>1, <1>2, <1>4
  <2>2. \A i \in 1 .. Len(t) - 1 : i + 0 \in DOMAIN victims /\ t[i] = victims[i + 0]
    <3> SUFFICES ASSUME NEW i \in 1 .. Len(t) - 1
                 PROVE  i + 0 \in DOMAIN victims /\ t[i] = victims[i + 0]
      OBVIOUS
    <3>1. \A L \in Nat : i \in 1 .. (L + 1 - 0) - 1 => i \in 1 .. L /\ i + 0 = i
      OBVIOUS
    <3>2. i \in 1 .. Len(victims) /\ i + 0 = i
      BY <1>1, <2>1, <3>1
    <3> QED BY <1>1, <1>2, <2>1, <3>2
  <2>3. /\ t \in Seq(Way) /\ Len(t) \in Nat /\ DOMAIN t = 1 .. Len(t) /\ Len(t) <= Ways
        /\ Len(t) >= 1 /\ t[Len(t)] = v
    BY <1>1, <1>2, <1>4, <2>1
  <2> QED BY <2>1, <2>2, <2>3
<1> QED BY <1>3, <1>4

\* A miss preserves the invariant.
LEMMA MissIInv == IInv /\ MissAccess => IInv'
<1> SUFFICES ASSUME IInv, MissAccess PROVE IInv'
  OBVIOUS
<1> DEFINE v == which_replace(LRU)
           s == Append(victims, v)
           L == Len(victims')
<1>1. LRU \in Bits /\ v \in Way
  BY WhichReplace DEF IInv
<1>2. LRU' = load_PLRU(LRU, v) /\ used' = v /\ victims' = IF Len(s) > Ways THEN Tail(s) ELSE s
  BY DEF MissAccess
<1>3. LRU' \in Bits /\ used' \in 0 .. Ways /\ LastUsedIsKept'
  <2>1. v \in 0 .. Ways
    BY <1>1, WaysAssumption DEF Way
  <2> QED BY <1>1, <1>2, <2>1, LoadPLRU, LastUsedIsNotReplaced DEF LastUsedIsKept
<1>4. /\ victims' \in Seq(Way) /\ L \in Nat /\ DOMAIN victims' = 1 .. L /\ L <= Ways
      /\ L >= 1 /\ victims'[L] = v
  BY <1>1, <1>2, History
<1>5. PICK m \in {0, 1} :
         /\ L = Len(victims) + 1 - m
         /\ \A i \in 1 .. L - 1 : i + m \in DOMAIN victims /\ victims'[i] = victims[i + m]
  BY <1>1, <1>2, History
<1>6. Len(victims) \in Nat /\ DOMAIN victims = 1 .. Len(victims)
  BY DEF IInv
<1>7. PointsAtLast'
  <2> SUFFICES ASSUME NEW n \in Node, NEW j \in 1 .. L, Under(victims'[j], n),
                      \A k \in 1 .. L : k > j => ~Under(victims'[k], n)
               PROVE  LRU'[n] <=> victims'[j] > n
    BY <1>4 DEF PointsAtLast, Under, Half
  <2>1. LRU'[n] = IF Under(v, n) THEN v > n ELSE LRU[n]
    BY <1>2 DEF load_PLRU
  <2>2. CASE j = L
    <3>1. victims'[j] = v /\ Under(v, n)
      BY <1>4, <2>2
    <3>2. LRU'[n] <=> v > n
      BY <2>1, <3>1
    <3>3. LRU'[n] <=> victims'[j] > n
      BY <3>1, <3>2, Zenon
    <3> QED BY <3>3
  <2>3. CASE j < L
    <3>1. ~Under(v, n)
      BY <1>4, <2>3
    <3>2. j + m \in DOMAIN victims /\ victims'[j] = victims[j + m]
      BY <1>4, <1>5, <2>3
    <3>3. ASSUME NEW k \in DOMAIN victims, k > j + m PROVE ~Under(victims[k], n)
      <4>1. k - m \in 1 .. L - 1 /\ k - m > j /\ (k - m) + m = k
        BY <1>4, <1>5, <1>6, <3>3
      <4> QED BY <1>4, <1>5, <4>1
    <3>4. LRU[n] <=> victims[j + m] > n
      BY <3>2, <3>3 DEF IInv, PointsAtLast
    <3> QED BY <2>1, <3>1, <3>2, <3>4
  <2>4. j = L \/ j < L
    <3>1. \A M \in Nat : \A i \in 1 .. M : i = M \/ i < M
      OBVIOUS
    <3> QED BY <1>4, <3>1
  <2> QED BY <2>2, <2>3, <2>4, Zenon
<1>8. VictimsAlternate'
  <2> SUFFICES ASSUME NEW j \in 1 .. L, NEW k \in 1 .. L, k - j \in {1, 2, 4}
               PROVE  /\ Same(victims'[j], victims'[k], k - j)
                      /\ ~Same(victims'[j], victims'[k], 2 * (k - j))
    BY <1>4 DEF VictimsAlternate, Same
  <2>1. j \in 1 .. L - 1 /\ k - j < Ways /\ j + m \in DOMAIN victims /\ victims'[j] = victims[j + m]
    BY <1>4, <1>5, WaysAssumption
  <2>2. CASE k = L
    <3>1. j + m = Len(victims) + 1 - (k - j)
      BY <1>4, <1>5, <1>6, <2>2
    <3> QED BY <1>4, <2>1, <2>2, <3>1, NextAlternates
  <2>3. CASE k # L
    <3>1. k \in 1 .. L - 1 /\ k + m \in DOMAIN victims /\ victims'[k] = victims[k + m]
      BY <1>4, <1>5, <2>3
    <3>2. (k + m) - (j + m) = k - j
      OBVIOUS
    <3> QED BY <2>1, <3>1, <3>2 DEF IInv, VictimsAlternate
  <2> QED BY <2>2, <2>3
<1> QED BY <1>3, <1>4, <1>7, <1>8 DEF IInv

\* A hit turns the tree to any way and ends the run.
LEMMA HitIInv == ASSUME IInv, NEW w \in Way, HitAccess(w) PROVE IInv'
<1>1. LRU' = load_PLRU(LRU, w) /\ used' = w /\ victims' = <<>>
  BY DEF HitAccess
<1>2. LRU' \in Bits /\ LastUsedIsKept'
  BY <1>1, LoadPLRU, LastUsedIsNotReplaced DEF IInv, LastUsedIsKept
<1>3. w \in 0 .. Ways /\ 0 <= Ways
  BY WaysAssumption DEF Way
<1>4. PointsAtLast' /\ VictimsAlternate'
  BY <1>1 DEF PointsAtLast, VictimsAlternate
<1> QED BY <1>1, <1>2, <1>3, <1>4 DEF IInv

\* The inductive invariant: each bit remembers the last victim below it, so that
\* victims alternate at every level of the tree.
THEOREM ReplacementInductive == Spec => []IInv
<1>1. Init => IInv
  <2> SUFFICES ASSUME Init PROVE IInv
    OBVIOUS
  <2>1. LRU \in Bits /\ used = Ways /\ victims = <<>>
    BY DEF Init, Bits
  <2>2. Ways \notin Way /\ Ways \in 0 .. Ways /\ 0 <= Ways
    BY WaysAssumption DEF Way
  <2>3. PointsAtLast /\ VictimsAlternate
    BY <2>1 DEF PointsAtLast, VictimsAlternate
  <2> QED BY <2>1, <2>2, <2>3 DEF IInv, LastUsedIsKept
<1>2. IInv /\ [Next]_vars => IInv'
  <2> SUFFICES ASSUME IInv, [Next]_vars PROVE IInv'
    OBVIOUS
  <2>1. CASE Next
    BY <2>1, HitIInv, MissIInv DEF Next
  <2>2. CASE UNCHANGED vars
    BY <2>2 DEF vars, IInv, LastUsedIsKept, PointsAtLast, VictimsAlternate
  <2> QED BY <2>1, <2>2
<1> QED BY <1>1, <1>2, PTL DEF Spec

\* A line just filled or hit survives the next miss of its set, after any accesses.
THEOREM LastUsedSurvives == Spec => []LastUsedIsKept
<1>1. IInv => LastUsedIsKept
  BY DEF IInv
<1> QED BY <1>1, ReplacementInductive, PTL

\* Victims that alternate at every level differ: those an odd number of misses apart in
\* their half of the set, 2 or 6 apart in their quarter, 4 apart in their half quarter.
LEMMA AlternatingDiffer ==
    ASSUME IInv, NEW j \in DOMAIN victims, NEW k \in DOMAIN victims, j < k
    PROVE  victims[j] # victims[k]
<1> DEFINE w(i) == victims[i]
           L == Len(victims)
<1>1. /\ DOMAIN victims = 1 .. L /\ L \in Nat /\ L <= Ways /\ \A i \in 1 .. L : w(i) \in Way
      /\ Ways \in {2, 4, 8}
  BY WaysAssumption DEF IInv
<1>2. \A a, b \in 1 .. L : b - a \in {1, 2, 4} =>
          Same(w(a), w(b), b - a) /\ ~Same(w(a), w(b), 2 * (b - a))
  BY <1>1 DEF IInv, VictimsAlternate
<1> SUFFICES w(j) # w(k)
  OBVIOUS
<1> HIDE DEF w, L
<1>3. 1 < Ways /\ 1 \in {1, 2, 4} /\ 2 \in {1, 2, 4} /\ 4 \in {1, 2, 4}
  BY <1>1
<1>4. ASSUME NEW a \in 1 .. L, a + 1 \in 1 .. L PROVE Same(w(a), w(a + 1), 1) /\ ~Same(w(a), w(a + 1), 2 * 1)
  <2>1. (a + 1) - a = 1
    OBVIOUS
  <2> QED BY <1>2, <1>3, <1>4, <2>1
<1>5. ASSUME NEW a \in 1 .. L, a + 2 \in 1 .. L
      PROVE  2 < Ways /\ Same(w(a), w(a + 2), 2) /\ ~Same(w(a), w(a + 2), 2 * 2)
  <2>1. (a + 2) - a = 2 /\ 2 < Ways
    BY <1>1, <1>5
  <2> QED BY <1>2, <1>3, <1>5, <2>1
<1>6. ASSUME NEW a \in 1 .. L, a + 4 \in 1 .. L
      PROVE  4 < Ways /\ ~Same(w(a), w(a + 4), 2 * 4)
  <2>1. (a + 4) - a = 4 /\ 4 < Ways
    BY <1>1, <1>6
  <2> QED BY <1>2, <1>3, <1>6, <2>1
<1>7. \A d : w(j) = w(k) => Same(w(j), w(k), d)
  BY DEF Same
<1>8. j \in 1 .. L /\ k \in 1 .. L /\ k <= 8
  BY <1>1
\* Two misses more do not change the half, four not the quarter.
<1>9. ASSUME NEW a \in 1 .. L, a + 2 \in 1 .. L PROVE Same(w(a), w(a + 2), 2 * 1)
  BY <1>5, <1>9
<1>10. ASSUME NEW a \in 1 .. L, a + 4 \in 1 .. L
       PROVE  Same(w(a), w(a + 4), 2 * 2) /\ Same(w(a), w(a + 4), 2)
  <2>1. a + 2 \in 1 .. L /\ (a + 2) + 2 = a + 4 /\ 2 < Ways
    BY <1>1, <1>10
  <2>2. /\ Same(w(a), w(a + 2), 2) /\ ~Same(w(a), w(a + 2), 2 * 2)
        /\ Same(w(a + 2), w(a + 4), 2) /\ ~Same(w(a + 2), w(a + 4), 2 * 2)
    BY <1>5, <1>10, <2>1
  <2>3. w(a) \in Way /\ w(a + 2) \in Way /\ w(a + 4) \in Way
    BY <1>1, <1>10, <2>1
  <2> QED BY <1>3, <2>1, <2>2, <2>3, Parts
<1>11. CASE k - j = 1
  <2>1. k = j + 1
    BY <1>1, <1>8, <1>11
  <2> QED BY <1>4, <1>7, <1>8, <2>1
<1>12. CASE k - j = 2
  <2>1. k = j + 2
    BY <1>1, <1>8, <1>12
  <2> QED BY <1>5, <1>7, <1>8, <2>1
<1>13. CASE k - j = 3
  <2>1. k = (j + 2) + 1 /\ j + 2 \in 1 .. L
    BY <1>1, <1>8, <1>13
  <2>2. Same(w(j), w(j + 2), 2) /\ ~Same(w(j + 2), w(k), 2 * 1) /\ 2 < Ways
    BY <1>4, <1>5, <1>8, <2>1
  <2>3. ~Same(w(j), w(k), 2)
    BY <1>1, <1>3, <1>8, <2>1, <2>2, Parts
  <2> QED BY <1>7, <2>3
<1>14. CASE k - j = 4
  <2>1. k = j + 4
    BY <1>1, <1>8, <1>14
  <2> QED BY <1>6, <1>7, <1>8, <2>1
<1>15. CASE k - j = 5
  <2>1. k = (j + 4) + 1 /\ j + 4 \in 1 .. L
    BY <1>1, <1>8, <1>15
  <2>2. Same(w(j), w(j + 4), 2) /\ ~Same(w(j + 4), w(k), 2 * 1) /\ 4 < Ways
    BY <1>4, <1>6, <1>8, <1>10, <2>1
  <2>3. ~Same(w(j), w(k), 2)
    BY <1>1, <1>3, <1>8, <2>1, <2>2, Parts
  <2> QED BY <1>7, <2>3
<1>16. CASE k - j = 6
  <2>1. k = (j + 4) + 2 /\ j + 4 \in 1 .. L
    BY <1>1, <1>8, <1>16
  <2>2. Same(w(j), w(j + 4), 2 * 2) /\ ~Same(w(j + 4), w(k), 2 * 2) /\ 4 < Ways /\ 2 < Ways
    BY <1>5, <1>6, <1>8, <1>10, <2>1
  <2>3. ~Same(w(j), w(k), 2 * 2)
    BY <1>1, <1>3, <1>8, <2>1, <2>2, Parts
  <2> QED BY <1>7, <2>3
<1>17. CASE k - j = 7
  <2>1. k = ((j + 4) + 2) + 1 /\ j + 4 \in 1 .. L /\ (j + 4) + 2 \in 1 .. L
    BY <1>1, <1>8, <1>17
  <2>2. /\ Same(w(j), w(j + 4), 2) /\ Same(w(j + 4), w((j + 4) + 2), 2) /\ 2 < Ways
        /\ ~Same(w((j + 4) + 2), w(k), 2 * 1)
    BY <1>4, <1>5, <1>8, <1>10, <2>1
  <2>3. Same(w(j), w((j + 4) + 2), 2)
    BY <1>1, <1>3, <1>8, <2>1, <2>2, Parts
  <2>4. ~Same(w(j), w(k), 2)
    BY <1>1, <1>3, <1>8, <2>1, <2>2, <2>3, Parts
  <2> QED BY <1>7, <2>4
<1>18. k - j \in 1 .. 7
  BY <1>1, <1>8
<1> QED BY <1>11, <1>12, <1>13, <1>14, <1>15, <1>16, <1>17, <1>18

\* A run of misses replaces every way of the set once before any way a second time.
THEOREM EveryWayOnce == Spec => []MissesVisitEveryWay
<1>1. IInv => MissesVisitEveryWay
  <2> SUFFICES ASSUME IInv, NEW j \in DOMAIN victims, NEW k \in DOMAIN victims,
                      victims[j] = victims[k]
               PROVE  j = k
    BY DEF MissesVisitEveryWay, IsInjective
  <2>1. DOMAIN victims = 1 .. Len(victims) /\ Len(victims) \in Nat
    BY DEF IInv
  <2> QED BY <2>1, AlternatingDiffer
<1> QED BY <1>1, ReplacementInductive, PTL

----------------------------------------------------------------------------
(* The bodies the control units write out. *)

\* The tree over eight ways, node by node.
LEMMA Tree8 ==
    ASSUME Ways = 8
    PROVE  /\ Way = 0 .. 7 /\ Node = 0 .. 6
           /\ \A w \in 0 .. 7 :
                 /\ Under(w, 3)
                 /\ (Under(w, 1) <=> w \in 0 .. 3) /\ (Under(w, 5) <=> w \in 4 .. 7)
                 /\ (Under(w, 0) <=> w \in 0 .. 1) /\ (Under(w, 2) <=> w \in 2 .. 3)
                 /\ (Under(w, 4) <=> w \in 4 .. 5) /\ (Under(w, 6) <=> w \in 6 .. 7)
BY DEF Way, Node, Under, Half

\* Turning away from every bit leads to one way only.
LEMMA OneAway ==
    ASSUME Ways = 8, NEW b \in Bits, NEW u \in Way, NEW v \in Way, Away(b, u), Away(b, v)
    PROVE  u = v
<1>1. /\ u \in 0 .. 7 /\ v \in 0 .. 7
      /\ \A n \in 0 .. 6 : Under(u, n) => ((u > n) <=> ~b[n])
      /\ \A n \in 0 .. 6 : Under(v, n) => ((v > n) <=> ~b[n])
  BY Tree8 DEF Away
<1>2. (u > 3) <=> (v > 3)
  BY <1>1, Tree8
<1>3. /\ u \in 0 .. 3 => ((u > 1) <=> (v > 1))
      /\ u \in 4 .. 7 => ((u > 5) <=> (v > 5))
  BY <1>1, <1>2, Tree8
<1>4. /\ u \in 0 .. 1 => ((u > 0) <=> (v > 0))
      /\ u \in 2 .. 3 => ((u > 2) <=> (v > 2))
      /\ u \in 4 .. 5 => ((u > 4) <=> (v > 4))
      /\ u \in 6 .. 7 => ((u > 6) <=> (v > 6))
  BY <1>1, <1>2, <1>3, Tree8
<1> QED BY <1>1, <1>2, <1>3, <1>4

\* The 8-way unit's victim.
LEMMA Replace8 ==
    ASSUME Ways = 8, NEW b \in Bits
    PROVE  which_replace_8(b) = which_replace(b)
<1> DEFINE r == which_replace_8(b)
<1>1. r \in 0 .. 7
  BY DEF which_replace_8
<1>2. /\ (r > 3) <=> ~b[3]
      /\ r \in 0 .. 3 => ((r > 1) <=> ~b[1])
      /\ r \in 4 .. 7 => ((r > 5) <=> ~b[5])
      /\ r \in 0 .. 1 => ((r > 0) <=> ~b[0])
      /\ r \in 2 .. 3 => ((r > 2) <=> ~b[2])
      /\ r \in 4 .. 5 => ((r > 4) <=> ~b[4])
      /\ r \in 6 .. 7 => ((r > 6) <=> ~b[6])
  BY DEF which_replace_8
<1> HIDE DEF r
<1>3. ASSUME NEW n \in 0 .. 6, Under(r, n) PROVE (r > n) <=> ~b[n]
  <2>1. n = 0 \/ n = 1 \/ n = 2 \/ n = 3 \/ n = 4 \/ n = 5 \/ n = 6
    BY <1>3
  <2> QED BY <1>1, <1>2, <1>3, <2>1, Tree8
<1>4. r \in Way /\ Away(b, r)
  BY <1>1, <1>3, Tree8 DEF Away
<1>5. r = which_replace(b)
  BY <1>4, OneAway, WhichReplace
<1> QED BY <1>5 DEF r

\* What the bits after an access are, read bit by bit.
LEMMA Turned ==
    ASSUME Ways = 8, NEW b \in Bits, NEW w \in 0 .. 7, NEW c \in [0 .. 6 -> BOOLEAN],
           \A n \in 0 .. 6 : IF Under(w, n) THEN c[n] <=> w > n ELSE c[n] <=> b[n]
    PROVE  load_PLRU(b, w) = c
<1>1. load_PLRU(b, w) \in [0 .. 6 -> BOOLEAN]
  BY LoadPLRU, Tree8 DEF Bits
<1>2. ASSUME NEW n \in 0 .. 6 PROVE load_PLRU(b, w)[n] = c[n]
  <2>1. load_PLRU(b, w)[n] = IF Under(w, n) THEN w > n ELSE b[n]
    BY Tree8 DEF load_PLRU
  <2>2. CASE Under(w, n)
    <3>1. load_PLRU(b, w)[n] = (w > n)
      BY <2>1, <2>2
    <3>2. c[n] <=> w > n
      BY <2>2
    <3>3. c[n] \in BOOLEAN /\ load_PLRU(b, w)[n] \in BOOLEAN
      BY <1>1
    <3> QED BY <3>1, <3>2, <3>3
  <2>3. CASE ~Under(w, n)
    <3>1. load_PLRU(b, w)[n] = b[n]
      BY <2>1, <2>3
    <3>2. c[n] <=> b[n]
      BY <2>3
    <3>3. c[n] \in BOOLEAN /\ b[n] \in BOOLEAN
      BY Tree8 DEF Bits
    <3> QED BY <3>1, <3>2, <3>3
  <2> QED BY <2>2, <2>3
<1> QED BY <1>1, <1>2

\* The bits above each way, and what an access to it makes of them.
LEMMA Loaded8 ==
    ASSUME Ways = 8, NEW b \in Bits
    PROVE  /\ load_PLRU(b, 0) = [b EXCEPT ![3] = FALSE, ![1] = FALSE, ![0] = FALSE]
           /\ load_PLRU(b, 1) = [b EXCEPT ![3] = FALSE, ![1] = FALSE, ![0] = TRUE]
           /\ load_PLRU(b, 2) = [b EXCEPT ![3] = FALSE, ![1] = TRUE, ![2] = FALSE]
           /\ load_PLRU(b, 3) = [b EXCEPT ![3] = FALSE, ![1] = TRUE, ![2] = TRUE]
           /\ load_PLRU(b, 4) = [b EXCEPT ![3] = TRUE, ![5] = FALSE, ![4] = FALSE]
           /\ load_PLRU(b, 5) = [b EXCEPT ![3] = TRUE, ![5] = FALSE, ![4] = TRUE]
           /\ load_PLRU(b, 6) = [b EXCEPT ![3] = TRUE, ![5] = TRUE, ![6] = FALSE]
           /\ load_PLRU(b, 7) = [b EXCEPT ![3] = TRUE, ![5] = TRUE, ![6] = TRUE]
<1>0. b \in [0 .. 6 -> BOOLEAN]
  BY Tree8 DEF Bits
<1>1. load_PLRU(b, 0) = [b EXCEPT ![3] = FALSE, ![1] = FALSE, ![0] = FALSE]
  <2> DEFINE c == [b EXCEPT ![3] = FALSE, ![1] = FALSE, ![0] = FALSE]
  <2>1. c \in [0 .. 6 -> BOOLEAN]
    BY <1>0
  <2>2. ~c[3] /\ ~c[1] /\ ~c[0]
    BY <1>0
  <2>3. \A n \in 0 .. 6 : n \notin {3, 1, 0} => c[n] = b[n]
    BY <1>0
  <2> HIDE DEF c
  <2>4. \A n \in 0 .. 6 : Under(0, n) <=> n \in {3, 1, 0}
    BY DEF Under, Half
  <2>5. \A n \in 0 .. 6 : IF Under(0, n) THEN c[n] <=> 0 > n ELSE c[n] <=> b[n]
    BY <2>1, <2>2, <2>3, <2>4
  <2>6. load_PLRU(b, 0) = c
    BY <2>1, <2>5, Turned
  <2> QED BY <2>6 DEF c
<1>2. load_PLRU(b, 1) = [b EXCEPT ![3] = FALSE, ![1] = FALSE, ![0] = TRUE]
  <2> DEFINE c == [b EXCEPT ![3] = FALSE, ![1] = FALSE, ![0] = TRUE]
  <2>1. c \in [0 .. 6 -> BOOLEAN]
    BY <1>0
  <2>2. ~c[3] /\ ~c[1] /\ c[0]
    BY <1>0
  <2>3. \A n \in 0 .. 6 : n \notin {3, 1, 0} => c[n] = b[n]
    BY <1>0
  <2> HIDE DEF c
  <2>4. \A n \in 0 .. 6 : Under(1, n) <=> n \in {3, 1, 0}
    BY DEF Under, Half
  <2>5. \A n \in 0 .. 6 : IF Under(1, n) THEN c[n] <=> 1 > n ELSE c[n] <=> b[n]
    BY <2>1, <2>2, <2>3, <2>4
  <2>6. load_PLRU(b, 1) = c
    BY <2>1, <2>5, Turned
  <2> QED BY <2>6 DEF c
<1>3. load_PLRU(b, 2) = [b EXCEPT ![3] = FALSE, ![1] = TRUE, ![2] = FALSE]
  <2> DEFINE c == [b EXCEPT ![3] = FALSE, ![1] = TRUE, ![2] = FALSE]
  <2>1. c \in [0 .. 6 -> BOOLEAN]
    BY <1>0
  <2>2. ~c[3] /\ c[1] /\ ~c[2]
    BY <1>0
  <2>3. \A n \in 0 .. 6 : n \notin {3, 1, 2} => c[n] = b[n]
    BY <1>0
  <2> HIDE DEF c
  <2>4. \A n \in 0 .. 6 : Under(2, n) <=> n \in {3, 1, 2}
    BY DEF Under, Half
  <2>5. \A n \in 0 .. 6 : IF Under(2, n) THEN c[n] <=> 2 > n ELSE c[n] <=> b[n]
    BY <2>1, <2>2, <2>3, <2>4
  <2>6. load_PLRU(b, 2) = c
    BY <2>1, <2>5, Turned
  <2> QED BY <2>6 DEF c
<1>4. load_PLRU(b, 3) = [b EXCEPT ![3] = FALSE, ![1] = TRUE, ![2] = TRUE]
  <2> DEFINE c == [b EXCEPT ![3] = FALSE, ![1] = TRUE, ![2] = TRUE]
  <2>1. c \in [0 .. 6 -> BOOLEAN]
    BY <1>0
  <2>2. ~c[3] /\ c[1] /\ c[2]
    BY <1>0
  <2>3. \A n \in 0 .. 6 : n \notin {3, 1, 2} => c[n] = b[n]
    BY <1>0
  <2> HIDE DEF c
  <2>4. \A n \in 0 .. 6 : Under(3, n) <=> n \in {3, 1, 2}
    BY DEF Under, Half
  <2>5. \A n \in 0 .. 6 : IF Under(3, n) THEN c[n] <=> 3 > n ELSE c[n] <=> b[n]
    BY <2>1, <2>2, <2>3, <2>4
  <2>6. load_PLRU(b, 3) = c
    BY <2>1, <2>5, Turned
  <2> QED BY <2>6 DEF c
<1>5. load_PLRU(b, 4) = [b EXCEPT ![3] = TRUE, ![5] = FALSE, ![4] = FALSE]
  <2> DEFINE c == [b EXCEPT ![3] = TRUE, ![5] = FALSE, ![4] = FALSE]
  <2>1. c \in [0 .. 6 -> BOOLEAN]
    BY <1>0
  <2>2. c[3] /\ ~c[5] /\ ~c[4]
    BY <1>0
  <2>3. \A n \in 0 .. 6 : n \notin {3, 5, 4} => c[n] = b[n]
    BY <1>0
  <2> HIDE DEF c
  <2>4. \A n \in 0 .. 6 : Under(4, n) <=> n \in {3, 5, 4}
    BY DEF Under, Half
  <2>5. \A n \in 0 .. 6 : IF Under(4, n) THEN c[n] <=> 4 > n ELSE c[n] <=> b[n]
    BY <2>1, <2>2, <2>3, <2>4
  <2>6. load_PLRU(b, 4) = c
    BY <2>1, <2>5, Turned
  <2> QED BY <2>6 DEF c
<1>6. load_PLRU(b, 5) = [b EXCEPT ![3] = TRUE, ![5] = FALSE, ![4] = TRUE]
  <2> DEFINE c == [b EXCEPT ![3] = TRUE, ![5] = FALSE, ![4] = TRUE]
  <2>1. c \in [0 .. 6 -> BOOLEAN]
    BY <1>0
  <2>2. c[3] /\ ~c[5] /\ c[4]
    BY <1>0
  <2>3. \A n \in 0 .. 6 : n \notin {3, 5, 4} => c[n] = b[n]
    BY <1>0
  <2> HIDE DEF c
  <2>4. \A n \in 0 .. 6 : Under(5, n) <=> n \in {3, 5, 4}
    BY DEF Under, Half
  <2>5. \A n \in 0 .. 6 : IF Under(5, n) THEN c[n] <=> 5 > n ELSE c[n] <=> b[n]
    BY <2>1, <2>2, <2>3, <2>4
  <2>6. load_PLRU(b, 5) = c
    BY <2>1, <2>5, Turned
  <2> QED BY <2>6 DEF c
<1>7. load_PLRU(b, 6) = [b EXCEPT ![3] = TRUE, ![5] = TRUE, ![6] = FALSE]
  <2> DEFINE c == [b EXCEPT ![3] = TRUE, ![5] = TRUE, ![6] = FALSE]
  <2>1. c \in [0 .. 6 -> BOOLEAN]
    BY <1>0
  <2>2. c[3] /\ c[5] /\ ~c[6]
    BY <1>0
  <2>3. \A n \in 0 .. 6 : n \notin {3, 5, 6} => c[n] = b[n]
    BY <1>0
  <2> HIDE DEF c
  <2>4. \A n \in 0 .. 6 : Under(6, n) <=> n \in {3, 5, 6}
    BY DEF Under, Half
  <2>5. \A n \in 0 .. 6 : IF Under(6, n) THEN c[n] <=> 6 > n ELSE c[n] <=> b[n]
    BY <2>1, <2>2, <2>3, <2>4
  <2>6. load_PLRU(b, 6) = c
    BY <2>1, <2>5, Turned
  <2> QED BY <2>6 DEF c
<1>8. load_PLRU(b, 7) = [b EXCEPT ![3] = TRUE, ![5] = TRUE, ![6] = TRUE]
  <2> DEFINE c == [b EXCEPT ![3] = TRUE, ![5] = TRUE, ![6] = TRUE]
  <2>1. c \in [0 .. 6 -> BOOLEAN]
    BY <1>0
  <2>2. c[3] /\ c[5] /\ c[6]
    BY <1>0
  <2>3. \A n \in 0 .. 6 : n \notin {3, 5, 6} => c[n] = b[n]
    BY <1>0
  <2> HIDE DEF c
  <2>4. \A n \in 0 .. 6 : Under(7, n) <=> n \in {3, 5, 6}
    BY DEF Under, Half
  <2>5. \A n \in 0 .. 6 : IF Under(7, n) THEN c[n] <=> 7 > n ELSE c[n] <=> b[n]
    BY <2>1, <2>2, <2>3, <2>4
  <2>6. load_PLRU(b, 7) = c
    BY <2>1, <2>5, Turned
  <2> QED BY <2>6 DEF c
<1> QED BY <1>1, <1>2, <1>3, <1>4, <1>5, <1>6, <1>7, <1>8

\* The 8-way unit's new bits, way by way.
LEMMA Load8 ==
    ASSUME Ways = 8, NEW b \in Bits, NEW w \in 0 .. 7
    PROVE  load_PLRU_8(b, w) = load_PLRU(b, w)
<1>1. CASE w = 0
  <2>1. w = 0 /\ w # 1 /\ w # 2 /\ w # 3 /\ w # 4 /\ w # 5 /\ w # 6 /\ w # 7
    BY <1>1
  <2>2. load_PLRU_8(b, w) = [b EXCEPT ![3] = FALSE, ![1] = FALSE, ![0] = FALSE]
    BY <2>1, Zenon DEF load_PLRU_8
  <2> QED BY <1>1, <2>2, Loaded8
<1>2. CASE w = 1
  <2>1. w = 1 /\ w # 0 /\ w # 2 /\ w # 3 /\ w # 4 /\ w # 5 /\ w # 6 /\ w # 7
    BY <1>2
  <2>2. load_PLRU_8(b, w) = [b EXCEPT ![3] = FALSE, ![1] = FALSE, ![0] = TRUE]
    BY <2>1, Zenon DEF load_PLRU_8
  <2> QED BY <1>2, <2>2, Loaded8
<1>3. CASE w = 2
  <2>1. w = 2 /\ w # 0 /\ w # 1 /\ w # 3 /\ w # 4 /\ w # 5 /\ w # 6 /\ w # 7
    BY <1>3
  <2>2. load_PLRU_8(b, w) = [b EXCEPT ![3] = FALSE, ![1] = TRUE, ![2] = FALSE]
    BY <2>1, Zenon DEF load_PLRU_8
  <2> QED BY <1>3, <2>2, Loaded8
<1>4. CASE w = 3
  <2>1. w = 3 /\ w # 0 /\ w # 1 /\ w # 2 /\ w # 4 /\ w # 5 /\ w # 6 /\ w # 7
    BY <1>4
  <2>2. load_PLRU_8(b, w) = [b EXCEPT ![3] = FALSE, ![1] = TRUE, ![2] = TRUE]
    BY <2>1, Zenon DEF load_PLRU_8
  <2> QED BY <1>4, <2>2, Loaded8
<1>5. CASE w = 4
  <2>1. w = 4 /\ w # 0 /\ w # 1 /\ w # 2 /\ w # 3 /\ w # 5 /\ w # 6 /\ w # 7
    BY <1>5
  <2>2. load_PLRU_8(b, w) = [b EXCEPT ![3] = TRUE, ![5] = FALSE, ![4] = FALSE]
    BY <2>1, Zenon DEF load_PLRU_8
  <2> QED BY <1>5, <2>2, Loaded8
<1>6. CASE w = 5
  <2>1. w = 5 /\ w # 0 /\ w # 1 /\ w # 2 /\ w # 3 /\ w # 4 /\ w # 6 /\ w # 7
    BY <1>6
  <2>2. load_PLRU_8(b, w) = [b EXCEPT ![3] = TRUE, ![5] = FALSE, ![4] = TRUE]
    BY <2>1, Zenon DEF load_PLRU_8
  <2> QED BY <1>6, <2>2, Loaded8
<1>7. CASE w = 6
  <2>1. w = 6 /\ w # 0 /\ w # 1 /\ w # 2 /\ w # 3 /\ w # 4 /\ w # 5 /\ w # 7
    BY <1>7
  <2>2. load_PLRU_8(b, w) = [b EXCEPT ![3] = TRUE, ![5] = TRUE, ![6] = FALSE]
    BY <2>1, Zenon DEF load_PLRU_8
  <2> QED BY <1>7, <2>2, Loaded8
<1>8. CASE w = 7
  <2>1. w = 7 /\ w # 0 /\ w # 1 /\ w # 2 /\ w # 3 /\ w # 4 /\ w # 5 /\ w # 6
    BY <1>8
  <2>2. load_PLRU_8(b, w) = [b EXCEPT ![3] = TRUE, ![5] = TRUE, ![6] = TRUE]
    BY <2>1, Zenon DEF load_PLRU_8
  <2> QED BY <1>8, <2>2, Loaded8
<1> QED BY <1>1, <1>2, <1>3, <1>4, <1>5, <1>6, <1>7, <1>8

\* The 4-way unit's new bits are those of the left half of the tree.
LEMMA Load4 ==
    ASSUME Ways = 8, NEW b \in Bits, NEW w \in 0 .. 3, NEW n \in 0 .. 2
    PROVE  load_PLRU_4(b, w)[n] = load_PLRU(b, w)[n]
<1>0. b \in [0 .. 6 -> BOOLEAN] /\ n \in 0 .. 6 /\ n # 3
  BY Tree8 DEF Bits
<1>1. CASE w = 0
  <2>1. w = 0 /\ w # 1 /\ w # 2 /\ w # 3
    BY <1>1
  <2>2. load_PLRU_4(b, w) = [b EXCEPT ![1] = FALSE, ![0] = FALSE]
    BY <2>1, Zenon DEF load_PLRU_4
  <2>3. load_PLRU(b, w) = [b EXCEPT ![3] = FALSE, ![1] = FALSE, ![0] = FALSE]
    BY <1>1, Loaded8
  <2>4. [b EXCEPT ![3] = FALSE, ![1] = FALSE, ![0] = FALSE][n] = [b EXCEPT ![1] = FALSE, ![0] = FALSE][n]
    BY <1>0
  <2> QED BY <2>2, <2>3, <2>4
<1>2. CASE w = 1
  <2>1. w = 1 /\ w # 0 /\ w # 2 /\ w # 3
    BY <1>2
  <2>2. load_PLRU_4(b, w) = [b EXCEPT ![1] = FALSE, ![0] = TRUE]
    BY <2>1, Zenon DEF load_PLRU_4
  <2>3. load_PLRU(b, w) = [b EXCEPT ![3] = FALSE, ![1] = FALSE, ![0] = TRUE]
    BY <1>2, Loaded8
  <2>4. [b EXCEPT ![3] = FALSE, ![1] = FALSE, ![0] = TRUE][n] = [b EXCEPT ![1] = FALSE, ![0] = TRUE][n]
    BY <1>0
  <2> QED BY <2>2, <2>3, <2>4
<1>3. CASE w = 2
  <2>1. w = 2 /\ w # 0 /\ w # 1 /\ w # 3
    BY <1>3
  <2>2. load_PLRU_4(b, w) = [b EXCEPT ![1] = TRUE, ![2] = FALSE]
    BY <2>1, Zenon DEF load_PLRU_4
  <2>3. load_PLRU(b, w) = [b EXCEPT ![3] = FALSE, ![1] = TRUE, ![2] = FALSE]
    BY <1>3, Loaded8
  <2>4. [b EXCEPT ![3] = FALSE, ![1] = TRUE, ![2] = FALSE][n] = [b EXCEPT ![1] = TRUE, ![2] = FALSE][n]
    BY <1>0
  <2> QED BY <2>2, <2>3, <2>4
<1>4. CASE w = 3
  <2>1. w = 3 /\ w # 0 /\ w # 1 /\ w # 2
    BY <1>4
  <2>2. load_PLRU_4(b, w) = [b EXCEPT ![1] = TRUE, ![2] = TRUE]
    BY <2>1, Zenon DEF load_PLRU_4
  <2>3. load_PLRU(b, w) = [b EXCEPT ![3] = FALSE, ![1] = TRUE, ![2] = TRUE]
    BY <1>4, Loaded8
  <2>4. [b EXCEPT ![3] = FALSE, ![1] = TRUE, ![2] = TRUE][n] = [b EXCEPT ![1] = TRUE, ![2] = TRUE][n]
    BY <1>0
  <2> QED BY <2>2, <2>3, <2>4
<1> QED BY <1>1, <1>2, <1>3, <1>4

\* The 4-way unit's victim turns away from the bits above it.
LEMMA Replace4 ==
    ASSUME Ways = 8, NEW b \in Bits, NEW n \in 0 .. 2, Under(which_replace_4(b), n)
    PROVE  (which_replace_4(b) > n) <=> ~b[n]
<1> DEFINE r == which_replace_4(b)
<1>1. /\ r \in 0 .. 3 /\ ((r > 1) <=> ~b[1])
      /\ r \in 0 .. 1 => ((r > 0) <=> ~b[0])
      /\ r \in 2 .. 3 => ((r > 2) <=> ~b[2])
  BY DEF which_replace_4
<1>2. Under(r, n)
  OBVIOUS
<1> HIDE DEF r
<1>3. (r > n) <=> ~b[n]
  <2>1. n = 0 \/ n = 1 \/ n = 2
    OBVIOUS
  <2> QED BY <1>1, <1>2, <2>1, Tree8
<1> QED BY <1>3 DEF r

\* The bodies that the control units write out case by case are the tree policy.
THEOREM BodiesAreTheTree == ASSUME Ways = 8 PROVE Spec => []CodeIsTheTree
<1>1. IInv => CodeIsTheTree
  <2> SUFFICES ASSUME IInv PROVE CodeIsTheTree
    OBVIOUS
  <2>1. LRU \in Bits /\ Way = 0 .. 7
    BY Tree8 DEF IInv
  <2>2. \A w \in Way : load_PLRU_8(LRU, w) = load_PLRU(LRU, w)
    BY <2>1, Load8
  <2>3. which_replace_8(LRU) = which_replace(LRU)
    BY <2>1, Replace8
  <2>4. \A w \in 0 .. 3, n \in 0 .. 2 : load_PLRU_4(LRU, w)[n] = load_PLRU(LRU, w)[n]
    BY <2>1, Load4
  <2>5. \A n \in 0 .. 2 : Under(which_replace_4(LRU), n)
                            => ((which_replace_4(LRU) > n) <=> ~LRU[n])
    BY <2>1, Replace4
  <2> QED BY <2>2, <2>3, <2>4, <2>5 DEF CodeIsTheTree
<1> QED BY <1>1, ReplacementInductive, PTL
=============================================================================
