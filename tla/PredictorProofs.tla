--------------------------- MODULE PredictorProofs ---------------------------
(* Both pattern tables learn a branch that keeps going one way, for every width   *)
(* of the histories, tables and program counters.  The argument is the same for   *)
(* the two: after as many equal outcomes as the history is long, the history      *)
(* consists of that outcome and stays as it is; from then on every outcome trains *)
(* one and the same entry, and two trainings take a counter over the middle.      *)
EXTENDS TournamentPredictor, TLAPS

\* A history of width w agrees with its last n outcomes, all of them t.
Agrees(x, t, n, w) == \A b \in 0 .. w - 1 : b < n => (b \in x <=> t)

\* A counter after n outcomes t of which the last n - w trained it.
Settled(c, t, n, w) ==
    /\ n > w => (t => SaysTaken(c)) /\ (~t => c # "STRONGLY_TAKEN")
    /\ n > w + 1 => (~t => ~SaysTaken(c))

(* What the shift of a history does: it keeps its width and agrees with one more   *)
(* outcome, and a history that is all one outcome does not change.                 *)
LEMMA ShiftAgrees ==
    ASSUME NEW w \in Nat, NEW x \in Word(w), NEW t \in BOOLEAN, NEW n \in Nat,
           Agrees(x, t, n, w)
    PROVE  /\ Shifted(x, t, w) \in Word(w)
           /\ Agrees(Shifted(x, t, w), t, n + 1, w)
           /\ n >= w => Shifted(x, t, w) = x
<1> DEFINE y == Shifted(x, t, w)
<1>1. \A b \in 0 .. w - 1 : b \in y <=> (b - 1 \in x \/ (b = 0 /\ t))
  BY DEF Shifted, Low, Word
<1>2. y \in Word(w)
  BY DEF Shifted, Low, Word
<1>3. Agrees(y, t, n + 1, w)
  <2> SUFFICES ASSUME NEW b \in 0 .. w - 1, b < n + 1
               PROVE  b \in y <=> t
    BY DEF Agrees
  <2>1. CASE b = 0
    BY <1>1, <2>1 DEF Word
  <2>2. CASE b # 0
    BY <1>1, <2>2 DEF Agrees
  <2> QED
    BY <2>1, <2>2
<1>4. ASSUME n >= w PROVE y = x
  <2>1. \A b \in 0 .. w - 1 : b \in y <=> b \in x
    BY <1>3, <1>4 DEF Agrees
  <2> QED
    BY <2>1, <1>2 DEF Word
<1> QED
  BY <1>2, <1>3, <1>4

(* The first outcome of a run: the newest bit of the history is that outcome, and   *)
(* a history of no bits stays empty.                                                *)
LEMMA ShiftStarts ==
    ASSUME NEW w \in Nat, NEW x \in Word(w), NEW t \in BOOLEAN
    PROVE  /\ Shifted(x, t, w) \in Word(w)
           /\ Agrees(Shifted(x, t, w), t, 1, w)
           /\ w = 0 => Shifted(x, t, w) = x
<1>1. Agrees(x, t, 0, w)
  BY DEF Agrees
<1> QED
  BY <1>1, ShiftAgrees

(* What an outcome does to a counter: it stays a counter and is one outcome further. *)
LEMMA TrainedSettles ==
    ASSUME NEW c \in Counter, NEW t \in BOOLEAN, NEW n \in Nat, NEW w \in Nat,
           Settled(c, t, n, w)
    PROVE  /\ Trained(c, t) \in Counter
           /\ n >= w => Settled(Trained(c, t), t, n + 1, w)
<1>1. CASE t
  BY <1>1 DEF Settled, Trained, SaysTaken, Counter
<1>2. CASE ~t
  BY <1>2 DEF Settled, Trained, SaysTaken, Counter
<1> QED
  BY <1>1, <1>2

-----------------------------------------------------------------------------
(* The global predictor. *)

StreakType == streak \in [pc : PC, taken : BOOLEAN, len : Nat] /\ streak.len <= MaxStreak

\* The inductive invariant of the global predictor.
GInv ==
    /\ StreakType
    /\ ghr \in Word(GBits)
    /\ gpht \in [Word(GBits) -> Counter]
    /\ Agrees(ghr, streak.taken, streak.len, GBits)
    /\ Settled(gpht[GIndex(streak.pc)], streak.taken, streak.len, GBits)

(* An index is a word, whatever the program counter. *)
LEMMA GIndexWord ==
    ASSUME ghr \in Word(GBits), NEW pc
    PROVE  GIndex(pc) \in Word(GBits)
BY DEF GIndex, Xor, Low, Word

(* The history of the latest run is counted as the code resolves branches: a run    *)
(* goes on, up to the cap, or a new one starts; a cycle without an unstalled update  *)
(* leaves it alone.                                                                  *)
LEMMA StreakStep ==
    ASSUME StreakType, NEW p \in Ports, streak' = Counted(p)
    PROVE  /\ StreakType'
           /\ ~(p.load /\ ~p.stall) => streak' = streak
           /\ p.load /\ ~p.stall =>
                /\ streak'.pc = p.pc_mem /\ streak'.taken = p.taken
                /\ \/ streak'.len = 1
                   \/ /\ streak.pc = p.pc_mem /\ streak.taken = p.taken
                      /\ streak'.len <= streak.len + 1
                      /\ \/ streak'.len = streak.len + 1
                         \/ streak.len = MaxStreak /\ streak'.len = streak.len
<1>1. MaxStreak \in Nat /\ MaxStreak >= 2 /\ MaxStreak >= GBits + 2 /\ MaxStreak >= LBits + 2
  BY WidthAssumption DEF MaxStreak
<1>2. p.pc_mem \in PC /\ p.taken \in BOOLEAN
  BY DEF Ports
<1>3. CASE ~p.load \/ p.stall
  BY <1>1, <1>3 DEF Counted, StreakType
<1>4. CASE p.load /\ ~p.stall /\ streak.pc = p.pc_mem /\ streak.taken = p.taken
  <2>1. streak' = [streak EXCEPT !.len = IF @ < MaxStreak THEN @ + 1 ELSE @]
    BY <1>4 DEF Counted
  <2> QED
    BY <1>1, <1>2, <1>4, <2>1 DEF StreakType
<1>5. CASE p.load /\ ~p.stall /\ ~(streak.pc = p.pc_mem /\ streak.taken = p.taken)
  <2>1. streak' = [pc |-> p.pc_mem, taken |-> p.taken, len |-> 1]
    BY <1>5 DEF Counted
  <2> QED
    BY <1>1, <1>2, <1>5, <2>1 DEF StreakType
<1> QED
  BY <1>3, <1>4, <1>5

(* The invariant holds after reset. *)
LEMMA GInvInit == Init => GInv
<1> SUFFICES ASSUME Init PROVE GInv
  OBVIOUS
<1>1. StreakType
  BY WidthAssumption DEF Init, StreakType, MaxStreak, PC, Word
<1>2. ghr \in Word(GBits) /\ gpht \in [Word(GBits) -> Counter]
  BY DEF Init, Word, Counter
<1> QED
  BY <1>1, <1>2, WidthAssumption DEF Init, GInv, Agrees, Settled

(* Every cycle keeps it: lookups and stalled updates change neither table nor run;  *)
(* an update shifts the history and trains the entry the history named before.      *)
LEMMA GInvStep ==
    ASSUME GInv, [Next]_vars
    PROVE  GInv'
<1> USE WidthAssumption
<1>1. CASE UNCHANGED vars
  BY <1>1 DEF vars, gvars, GInv, StreakType, GIndex
<1>2. ASSUME NEW p \in Ports, Cycle(p) PROVE GInv'
  <2>0. GlobalStep(p) /\ streak' = Counted(p) /\ StreakType
    BY <1>2 DEF Cycle, GInv
  <2>1. StreakType'
    BY <2>0, StreakStep
  <2>2. CASE ~(p.load /\ ~p.stall)
    <3>1. streak' = streak
      BY <2>0, <2>2, StreakStep
    <3>2. ghr' = ghr /\ gpht' = gpht
      BY <2>0, <2>2 DEF GlobalStep
    <3> QED
      BY <2>1, <3>1, <3>2 DEF GInv, GIndex
  <2>3. CASE p.load /\ ~p.stall
    <3> DEFINE t == p.taken
               i == GIndex(p.pc_mem)
    <3>1. t \in BOOLEAN
      BY DEF Ports
    <3>2. ghr' = Shifted(ghr, t, GBits) /\ gpht' = [gpht EXCEPT ![i] = Trained(@, t)]
      BY <2>0, <2>3 DEF GlobalStep
    <3>3. streak'.pc = p.pc_mem /\ streak'.taken = t
      BY <2>0, <2>3, StreakStep
    <3>4. i \in Word(GBits) /\ gpht[i] \in Counter
      BY GIndexWord DEF GInv
    <3>5. CASE streak'.len = 1
      <4>1. ghr' \in Word(GBits) /\ Agrees(ghr', t, 1, GBits) /\ (GBits = 0 => ghr' = ghr)
        BY <3>1, <3>2, ShiftStarts DEF GInv
      <4>2. Settled(gpht[i], t, 0, GBits)
        BY DEF Settled
      <4>3. Trained(gpht[i], t) \in Counter /\ (0 >= GBits => Settled(Trained(gpht[i], t), t, 0 + 1, GBits))
        BY <3>1, <3>4, <4>2, TrainedSettles
      <4>4. gpht' \in [Word(GBits) -> Counter] /\ gpht'[i] = Trained(gpht[i], t)
        BY <3>2, <3>4, <4>3 DEF GInv
      <4>5. Settled(gpht'[GIndex(streak.pc)'], t, 1, GBits)
        <5>1. CASE GBits = 0
          <6>1. GIndex(streak.pc)' = i
            BY <3>3, <4>1, <5>1 DEF GIndex
          <6> QED
            BY <4>3, <4>4, <5>1, <6>1
        <5>2. CASE GBits # 0
          BY <5>2 DEF Settled
        <5> QED
          BY <5>1, <5>2
      <4> QED
        BY <2>1, <3>3, <3>5, <4>1, <4>4, <4>5 DEF GInv
    <3>6. CASE streak'.len # 1
      <4> DEFINE n == streak.len
      <4>1. /\ streak.pc = p.pc_mem /\ streak.taken = t /\ n \in Nat
            /\ \/ streak'.len = n + 1
               \/ n = MaxStreak /\ streak'.len = n
        BY <2>0, <2>3, <3>6, StreakStep DEF StreakType
      <4>2. /\ ghr' \in Word(GBits) /\ Agrees(ghr', t, n + 1, GBits)
            /\ n >= GBits => ghr' = ghr
        BY <3>1, <3>2, <4>1, ShiftAgrees DEF GInv
      <4>3. Trained(gpht[i], t) \in Counter /\ (n >= GBits => Settled(Trained(gpht[i], t), t, n + 1, GBits))
        BY <3>1, <3>4, <4>1, TrainedSettles DEF GInv
      <4>4. gpht' \in [Word(GBits) -> Counter] /\ gpht'[i] = Trained(gpht[i], t)
        BY <3>2, <3>4, <4>3 DEF GInv
      <4>5. Settled(gpht'[GIndex(streak.pc)'], t, n + 1, GBits)
        <5>1. CASE n >= GBits
          <6>1. GIndex(streak.pc)' = i
            BY <3>3, <4>2, <5>1 DEF GIndex
          <6> QED
            BY <4>3, <4>4, <5>1, <6>1
        <5>2. CASE ~(n >= GBits)
          BY <4>1, <5>2 DEF Settled
        <5> QED
          BY <5>1, <5>2
      <4>6. Agrees(ghr', t, streak'.len, GBits)
        BY <4>1, <4>2 DEF Agrees
      <4>7. Settled(gpht'[GIndex(streak.pc)'], t, streak'.len, GBits)
        BY <4>1, <4>5 DEF Settled
      <4> QED
        BY <2>1, <3>3, <4>2, <4>4, <4>6, <4>7 DEF GInv
    <3> QED
      BY <3>5, <3>6
  <2> QED
    BY <2>2, <2>3
<1> QED
  BY <1>1, <1>2 DEF Next

(* The global table learns (global_branch_predictor.sv lines 83-149), for every      *)
(* width of history and program counter and every order of lookups, updates and      *)
(* stalls.                                                                           *)
THEOREM GlobalLearning == Spec => []GlobalLearns
<1>1. GInv => GlobalLearns
  <2> SUFFICES ASSUME GInv, streak.len >= GBits + 2
               PROVE  SaysTaken(gpht[GIndex(streak.pc)]) = streak.taken
    BY DEF GlobalLearns
  <2> DEFINE c == gpht[GIndex(streak.pc)]
  <2>1. streak.taken \in BOOLEAN /\ streak.len \in Nat
    BY DEF GInv, StreakType
  <2>2. (streak.taken => SaysTaken(c)) /\ (~streak.taken => ~SaysTaken(c))
    BY <2>1, WidthAssumption DEF GInv, Settled
  <2> QED
    BY <2>1, <2>2 DEF SaysTaken
<1> QED
  BY <1>1, GInvInit, GInvStep, PTL DEF Spec

-----------------------------------------------------------------------------
(* The local predictor. *)

LIdx == LhrIndex(streak.pc)

\* The inductive invariant of the local predictor: as the global one, with the
\* history register of the branch in the place of the global history.
LInv ==
    /\ StreakType
    /\ lhr \in [Histories -> Word(LBits)]
    /\ lpht \in [Word(LBits) -> Counter]
    /\ LIdx \in Histories =>
         /\ Agrees(lhr[LIdx], streak.taken, streak.len, LBits)
         /\ Settled(lpht[lhr[LIdx]], streak.taken, streak.len, LBits)

(* The invariant holds after reset. *)
LEMMA LInvInit == Init => LInv
<1> SUFFICES ASSUME Init PROVE LInv
  OBVIOUS
<1>1. StreakType
  BY WidthAssumption DEF Init, StreakType, MaxStreak, PC, Word
<1>2. lhr \in [Histories -> Word(LBits)] /\ lpht \in [Word(LBits) -> Counter]
  BY DEF Init, Word, Counter
<1> QED
  BY <1>1, <1>2, WidthAssumption DEF Init, LInv, Agrees, Settled

(* Every cycle keeps it.  An outcome of a branch without a history register may      *)
(* train any entry, but then it is the latest run, of which nothing is claimed.      *)
LEMMA LInvStep ==
    ASSUME LInv, [Next]_vars
    PROVE  LInv'
<1> USE WidthAssumption
<1>1. CASE UNCHANGED vars
  BY <1>1 DEF vars, lvars, LInv, StreakType, LIdx
<1>2. ASSUME NEW p \in Ports, Cycle(p) PROVE LInv'
  <2>0. LocalStep(p) /\ streak' = Counted(p) /\ StreakType
    BY <1>2 DEF Cycle, LInv
  <2>1. StreakType'
    BY <2>0, StreakStep
  <2>2. CASE ~(p.load /\ ~p.stall)
    <3>1. streak' = streak
      BY <2>0, <2>2, StreakStep
    <3>2. lhr' = lhr /\ lpht' = lpht
      BY <2>0, <2>2 DEF LocalStep, LocalTrain
    <3> QED
      BY <2>1, <3>1, <3>2 DEF LInv, LIdx
  <2>3. CASE p.load /\ ~p.stall
    <3> DEFINE t == p.taken
               i == LhrIndex(p.pc_mem)
    <3>1. t \in BOOLEAN
      BY DEF Ports
    <3>2. streak'.pc = p.pc_mem /\ streak'.taken = t /\ LIdx' = i
      BY <2>0, <2>3, StreakStep DEF LIdx
    <3>3. CASE i \notin Histories
      <4>1. \/ \E k \in Word(LBits) : LocalTrain(p, k)
            \/ lhr' = lhr /\ lpht' = lpht
        BY <2>0, <3>3 DEF LocalStep, ReadHistory
      <4>2. CASE lhr' = lhr /\ lpht' = lpht
        BY <2>1, <3>2, <3>3, <4>2 DEF LInv
      <4>3. ASSUME NEW k \in Word(LBits), LocalTrain(p, k) PROVE LInv'
        <5>1. lpht' = [lpht EXCEPT ![k] = Trained(@, t)]
          BY <2>3, <4>3 DEF LocalTrain
        <5>2. lhr' = [j \in Histories |-> lhr[j]]
          BY <2>3, <3>3, <4>3 DEF LocalTrain
        <5>3. Trained(lpht[k], t) \in Counter
          BY <4>3 DEF Trained, Counter
        <5>4. lpht' \in [Word(LBits) -> Counter]
          BY <5>1, <5>3 DEF LInv
        <5>5. lhr' \in [Histories -> Word(LBits)]
          BY <5>2 DEF LInv
        <5> QED
          BY <2>1, <3>2, <3>3, <5>4, <5>5 DEF LInv
      <4> QED
        BY <4>1, <4>2, <4>3
    <3>4. CASE i \in Histories
      <4> DEFINE h == lhr[i]
      <4>1. h \in Word(LBits) /\ lpht[h] \in Counter
        BY <3>4 DEF LInv
      <4>2. LocalTrain(p, h)
        BY <2>0, <2>3, <3>4 DEF LocalStep, ReadHistory
      <4>3. lhr' = [j \in Histories |-> IF j = i THEN Shifted(h, t, LBits) ELSE lhr[j]]
        BY <2>3, <4>2 DEF LocalTrain
      <4>4. lpht' = [lpht EXCEPT ![h] = Trained(@, t)]
        BY <2>3, <4>2 DEF LocalTrain
      <4>5. lhr'[i] = Shifted(h, t, LBits)
        BY <3>4, <4>3
      <4>6. CASE streak'.len = 1
        <5>1. Shifted(h, t, LBits) \in Word(LBits) /\ Agrees(Shifted(h, t, LBits), t, 1, LBits)
              /\ (LBits = 0 => Shifted(h, t, LBits) = h)
          BY <3>1, <4>1, ShiftStarts
        <5>2. Settled(lpht[h], t, 0, LBits)
          BY DEF Settled
        <5>3. Trained(lpht[h], t) \in Counter /\ (0 >= LBits => Settled(Trained(lpht[h], t), t, 0 + 1, LBits))
          BY <3>1, <4>1, <5>2, TrainedSettles
        <5>4. lpht' \in [Word(LBits) -> Counter] /\ lpht'[h] = Trained(lpht[h], t)
          BY <4>1, <4>4, <5>3 DEF LInv
        <5>5. Settled(lpht'[lhr'[i]], t, 1, LBits)
          <6>1. CASE LBits = 0
            BY <4>5, <5>1, <5>3, <5>4, <6>1
          <6>2. CASE LBits # 0
            BY <6>2 DEF Settled
          <6> QED
            BY <6>1, <6>2
        <5>6. lhr' \in [Histories -> Word(LBits)]
          BY <4>3, <5>1 DEF LInv
        <5> QED
          BY <2>1, <3>2, <4>5, <4>6, <5>1, <5>4, <5>5, <5>6 DEF LInv
      <4>7. CASE streak'.len # 1
        <5> DEFINE n == streak.len
        <5>1. /\ streak.pc = p.pc_mem /\ streak.taken = t /\ n \in Nat
              /\ \/ streak'.len = n + 1
                 \/ n = MaxStreak /\ streak'.len = n
          BY <2>0, <2>3, <4>7, StreakStep DEF StreakType
        <5>0. Agrees(h, t, n, LBits) /\ Settled(lpht[h], t, n, LBits)
          BY <3>4, <5>1 DEF LInv, LIdx
        <5>2. /\ Shifted(h, t, LBits) \in Word(LBits)
              /\ Agrees(Shifted(h, t, LBits), t, n + 1, LBits)
              /\ n >= LBits => Shifted(h, t, LBits) = h
          BY <3>1, <4>1, <5>1, <5>0, ShiftAgrees
        <5>3. Trained(lpht[h], t) \in Counter /\ (n >= LBits => Settled(Trained(lpht[h], t), t, n + 1, LBits))
          BY <3>1, <4>1, <5>1, <5>0, TrainedSettles
        <5>4. lpht' \in [Word(LBits) -> Counter] /\ lpht'[h] = Trained(lpht[h], t)
          BY <4>1, <4>4, <5>3 DEF LInv
        <5>5. Settled(lpht'[lhr'[i]], t, n + 1, LBits)
          <6>1. CASE n >= LBits
            BY <4>5, <5>2, <5>3, <5>4, <6>1
          <6>2. CASE ~(n >= LBits)
            BY <5>1, <6>2 DEF Settled
          <6> QED
            BY <6>1, <6>2
        <5>6. lhr' \in [Histories -> Word(LBits)]
          BY <4>3, <5>2 DEF LInv
        <5>7. Agrees(lhr'[i], t, streak'.len, LBits)
          BY <4>5, <5>1, <5>2 DEF Agrees
        <5>8. Settled(lpht'[lhr'[i]], t, streak'.len, LBits)
          BY <5>1, <5>5 DEF Settled
        <5> QED
          BY <2>1, <3>2, <5>4, <5>6, <5>7, <5>8 DEF LInv
      <4> QED
        BY <4>6, <4>7
    <3> QED
      BY <3>3, <3>4
  <2> QED
    BY <2>2, <2>3
<1> QED
  BY <1>1, <1>2 DEF Next

(* So does the local table, for the branches that have a history register            *)
(* (local_branch_predictor.sv lines 87-156).                                         *)
THEOREM LocalLearning == Spec => []LocalLearns
<1>1. LInv => LocalLearns
  <2> SUFFICES ASSUME LInv, streak.len >= LBits + 2, LIdx \in Histories
               PROVE  SaysTaken(lpht[lhr[LIdx]]) = streak.taken
    BY DEF LocalLearns, LIdx
  <2> DEFINE c == lpht[lhr[LIdx]]
  <2>1. streak.taken \in BOOLEAN /\ streak.len \in Nat
    BY DEF LInv, StreakType
  <2>2. (streak.taken => SaysTaken(c)) /\ (~streak.taken => ~SaysTaken(c))
    BY <2>1, WidthAssumption DEF LInv, Settled
  <2> QED
    BY <2>1, <2>2 DEF SaysTaken
<1> QED
  BY <1>1, LInvInit, LInvStep, PTL DEF Spec

-----------------------------------------------------------------------------
(* The latched predictions. *)

\* Each of the two latches is up only for a branch, or while the fetch stands.
FreshLatches ==
    /\ gflush /\ ~port.stall => port.read
    /\ lflush /\ ~port.stall => port.read

(* No latched answer of either predictor outlives its lookup, so none reaches an      *)
(* instruction that is no branch (branch_predictor.sv lines 73-86), whichever of them *)
(* the meta table chooses.                                                            *)
THEOREM OnlyBranches == Spec => []PredictsBranchesOnly
<1>1. Init => FreshLatches
  BY DEF Init, FreshLatches
<1>2. FreshLatches /\ [Next]_vars => FreshLatches'
  <2> SUFFICES ASSUME FreshLatches, [Next]_vars PROVE FreshLatches'
    OBVIOUS
  <2>1. CASE UNCHANGED vars
    BY <2>1 DEF vars, gvars, lvars, FreshLatches
  <2>2. ASSUME NEW p \in Ports, Cycle(p) PROVE FreshLatches'
    <3>1. port'.read = p.read /\ port'.stall = p.stall
      BY <2>2 DEF Cycle
    <3>2. p.read \in BOOLEAN /\ p.stall \in BOOLEAN
      BY DEF Ports
    <3>3. gflush' = GlobalFlush(p)
      BY <2>2 DEF Cycle, GlobalStep
    <3>4. (\E h \in ReadHistory(LhrIndex(p.pc)) : lflush' = LocalFlush(p, h)) \/ p.read
      BY <2>2 DEF Cycle, LocalStep
    <3>5. gflush' /\ ~p.stall => p.read
      BY <3>2, <3>3 DEF GlobalFlush
    <3>6. lflush' /\ ~p.stall => p.read
      BY <3>2, <3>4 DEF LocalFlush
    <3> QED
      BY <3>1, <3>5, <3>6 DEF FreshLatches
  <2> QED
    BY <2>1, <2>2 DEF Next
<1>3. FreshLatches => PredictsBranchesOnly
  BY DEF FreshLatches, PredictsBranchesOnly, flush
<1> QED
  BY <1>1, <1>2, <1>3, PTL DEF Spec

\* The registers the two invariants do not speak of.
RestType ==
    /\ mpht \in [Word(MBits) -> Counter] /\ mindex \subseteq Word(MBits)
    /\ gflush \in BOOLEAN /\ lflush \in BOOLEAN /\ sel \in BOOLEAN
    /\ port \in [read : BOOLEAN, stall : BOOLEAN]

(* The predictor's registers keep their widths: no index leaves its table, whatever a *)
(* build reads beyond the local histories, and the meta predictor's writes hit entries *)
(* that exist.                                                                         *)
THEOREM TypeCorrect == Spec => []TypeOK
<1>1. Init => RestType
  <2> SUFFICES ASSUME Init PROVE RestType
    OBVIOUS
  <2>1. mpht \in [Word(MBits) -> Counter] /\ mindex \subseteq Word(MBits)
    BY DEF Init, Counter
  <2>2. gflush \in BOOLEAN /\ lflush \in BOOLEAN /\ sel \in BOOLEAN
    BY Zenon DEF Init
  <2>3. port \in [read : BOOLEAN, stall : BOOLEAN]
    BY DEF Init
  <2> QED
    BY <2>1, <2>2, <2>3 DEF RestType
<1>2. RestType /\ [Next]_vars => RestType'
  <2> SUFFICES ASSUME RestType, [Next]_vars PROVE RestType'
    OBVIOUS
  <2>1. CASE UNCHANGED vars
    BY <2>1 DEF vars, gvars, lvars, mvars, RestType
  <2>2. ASSUME NEW p \in Ports, Cycle(p) PROVE RestType'
    <3>1. p.read \in BOOLEAN /\ p.stall \in BOOLEAN /\ p.load \in BOOLEAN
      BY DEF Ports
    <3>2. gflush' \in BOOLEAN
      BY <2>2, <3>1 DEF Cycle, GlobalStep, GlobalFlush, RestType, SaysTaken
    <3>3. lflush' \in BOOLEAN
      <4>1. lflush \in BOOLEAN
        BY DEF RestType
      <4>2. CASE lflush' = lflush
        BY <4>1, <4>2
      <4>3. ASSUME NEW h, lflush' = LocalFlush(p, h) PROVE lflush' \in BOOLEAN
        <5>1. SaysTaken(lpht[h]) \in BOOLEAN
          BY DEF SaysTaken
        <5>2. LocalFlush(p, h) \in {SaysTaken(lpht[h]), lflush, FALSE}
          BY Zenon DEF LocalFlush
        <5> QED
          BY <4>1, <4>3, <5>1, <5>2
      <4> QED
        BY <2>2, <4>2, <4>3 DEF Cycle, LocalStep
    <3>4. sel' \in BOOLEAN
      <4>1. sel' \in {SaysTaken(mpht[MIndex(p.pc)]), sel, FALSE}
        BY <2>2, Zenon DEF Cycle, MetaStep
      <4>2. SaysTaken(mpht[MIndex(p.pc)]) \in BOOLEAN /\ sel \in BOOLEAN
        BY DEF SaysTaken, RestType
      <4> QED
        BY <4>1, <4>2
    <3>5. mindex' \subseteq Word(MBits)
      BY <2>2 DEF Cycle, MetaStep, RestType, MIndex, Low, Word
    <3>6. mpht' \in [Word(MBits) -> Counter]
      BY <2>2 DEF Cycle, MetaStep, RestType, Counter
    <3>7. port' \in [read : BOOLEAN, stall : BOOLEAN]
      BY <2>2, <3>1 DEF Cycle
    <3> QED
      BY <3>2, <3>3, <3>4, <3>5, <3>6, <3>7 DEF RestType
  <2> QED
    BY <2>1, <2>2 DEF Next
<1>3. GInv /\ LInv /\ RestType => TypeOK
  BY DEF GInv, LInv, RestType, TypeOK, StreakType
<1> QED
  BY <1>1, <1>2, <1>3, GInvInit, GInvStep, LInvInit, LInvStep, PTL DEF Spec
=============================================================================
