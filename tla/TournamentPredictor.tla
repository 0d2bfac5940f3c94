------------------------ MODULE TournamentPredictor ------------------------
(***************************************************************************)
(* The branch predictor of the fetch stage: a global predictor (gshare), a *)
(* local two-level predictor and the meta predictor that chooses between   *)
(* them.  One step is one clock cycle: the combinational blocks see the    *)
(* tables as the last edge left them, the edge then writes the tables.     *)
(* Outputs that a block does not assign keep their value.                  *)
(*                                                                         *)
(* A word is the set of its bits that are 1, so that xor is symmetric      *)
(* difference and a program counter is its low bits.                       *)
(***************************************************************************)
EXTENDS Naturals, FiniteSets, Sequences

CONSTANTS
    GBits,       \* width of the global history and of its table's index
    LBits,       \* width of a local history and of its table's index
    MBits,       \* width of the meta predictor's index
    LhrBits,     \* bits of the program counter that index the histories
    RegBits,     \* the histories there are: those with an index this wide
    PcBits       \* bits of the program counter that branches differ in

ASSUME WidthAssumption ==
    /\ {GBits, LBits, MBits, LhrBits, RegBits, PcBits} \subseteq Nat
    /\ RegBits <= LhrBits

Word(w)    == SUBSET (0 .. w - 1)
Low(x, w)  == x \cap (0 .. w - 1)
Xor(x, y)  == (x \ y) \cup (y \ x)

Shifted(x, bit, w) == Low({b + 1 : b \in x} \cup (IF bit THEN {0} ELSE {}), w)

Counter == {"STRONGLY_TAKEN", "WEAKLY_TAKEN", "WEAKLY_NOT_TAKEN", "STRONGLY_NOT_TAKEN"}
SaysTaken(c) == c \in {"STRONGLY_TAKEN", "WEAKLY_TAKEN"}

\* A slip: the counter goes down one state too far.
TrainedTooFar(c, taken) ==
    IF taken THEN IF SaysTaken(c) THEN "STRONGLY_TAKEN" ELSE "STRONGLY_NOT_TAKEN"
    ELSE "STRONGLY_NOT_TAKEN"

\* updated_pstate, the same in the three predictors.
Trained(c, taken) ==
    IF taken THEN IF SaysTaken(c) THEN "STRONGLY_TAKEN" ELSE "WEAKLY_TAKEN"
    ELSE IF c = "STRONGLY_TAKEN" THEN "WEAKLY_TAKEN"
    ELSE IF c = "WEAKLY_TAKEN" THEN "WEAKLY_NOT_TAKEN" ELSE "STRONGLY_NOT_TAKEN"

VARIABLES
    ghr, gpht, gflush,        \* global: history, table, prediction
    lhr, lpht, lflush,        \* local: histories, table, prediction
    mpht, mindex, sel,        \* meta: table, index looked up last, choice
    port,                     \* read and stall of the last cycle
    streak                    \* history: the latest run of equal outcomes

gvars == <<ghr, gpht, gflush>>
lvars == <<lhr, lpht, lflush>>
mvars == <<mpht, mindex, sel>>
vars  == <<gvars, lvars, mvars, port, streak>>

PC == Word(PcBits)

\* What the fetch stage and the memory stage ask of one cycle: read, a branch
\* is fetched from pc; load, a branch at pc_mem is resolved.  The inputs that
\* no one looks at in the cycle are left at rest.
Ports == {p \in [read : BOOLEAN, load : BOOLEAN, stall : BOOLEAN, taken : BOOLEAN,
                 pc : PC, pc_mem : PC] :
             /\ ~p.read => p.pc = {}
             /\ ~p.load => p.pc_mem = {} /\ ~p.taken}

----------------------------------------------------------------------------
(* Global: history and program counter, combined, index one table. *)

GIndex(pc) == Xor(Low(pc, GBits), ghr)

\* A slip: the prediction is dropped by an update only.
GlobalFlushKept(p) ==
    IF p.load THEN FALSE
    ELSE IF p.stall \/ ~p.read THEN gflush
    ELSE SaysTaken(gpht[GIndex(p.pc)])

\* An update in the same cycle silences the lookup; a stalled lookup keeps
\* what it said.
GlobalFlush(p) ==
    IF p.load THEN FALSE
    ELSE IF p.stall THEN gflush
    ELSE p.read /\ SaysTaken(gpht[GIndex(p.pc)])

GlobalStep(p) ==
    /\ gflush' = GlobalFlush(p)
    /\ IF p.load /\ ~p.stall
       THEN /\ ghr' = Shifted(ghr, p.taken, GBits)
            /\ gpht' = [gpht EXCEPT ![GIndex(p.pc_mem)] = Trained(@, p.taken)]
       ELSE UNCHANGED <<ghr, gpht>>

----------------------------------------------------------------------------
(* Local: a history of its own for each index, one table for all. *)

LhrIndex(pc) == Low(pc, LhrBits)
Histories    == Word(RegBits)

\* The values local_hist_registers[lhr_index] can have.  Only Histories exist:
\* what a build reads beyond them is not defined, a write there is lost.
ReadHistory(i) == IF i \in Histories THEN {lhr[i]} ELSE Word(LBits)

\* h is the history read for the branch fetched: the lookup ignores stalls.
LocalFlush(p, h) == IF p.read THEN SaysTaken(lpht[h])
                    ELSE IF p.stall THEN lflush ELSE FALSE

\* A slip: the outcome goes to the history of the branch that is fetched.
LocalTrainFetched(p, k) ==
    IF p.load /\ ~p.stall
    THEN /\ lhr' = [i \in Histories |->
                       IF p.read /\ i = LhrIndex(p.pc)
                       THEN Shifted(k, p.taken, LBits) ELSE lhr[i]]
         /\ lpht' = [lpht EXCEPT ![k] = Trained(@, p.taken)]
    ELSE UNCHANGED <<lhr, lpht>>

\* k is the history read for the branch resolved.
LocalTrain(p, k) ==
    IF p.load /\ ~p.stall
    THEN /\ lhr' = [i \in Histories |->
                       IF i = LhrIndex(p.pc_mem) THEN Shifted(k, p.taken, LBits) ELSE lhr[i]]
         /\ lpht' = [lpht EXCEPT ![k] = Trained(@, p.taken)]
    ELSE UNCHANGED <<lhr, lpht>>

\* Beyond the histories a simulator reads unknown bits, which select no entry:
\* the prediction stays and nothing is trained.
LocalStep(p) ==
    /\ \/ \E h \in ReadHistory(LhrIndex(p.pc)) : lflush' = LocalFlush(p, h)
       \/ p.read /\ LhrIndex(p.pc) \notin Histories /\ UNCHANGED lflush
    /\ \/ \E k \in ReadHistory(LhrIndex(p.pc_mem)) : LocalTrain(p, k)
       \/ p.load /\ LhrIndex(p.pc_mem) \notin Histories /\ UNCHANGED <<lhr, lpht>>

----------------------------------------------------------------------------
(* Meta: taken chooses the local predictor, not taken the global one. *)

MIndex(pc) == Low(pc, MBits)

\* The block that computes updated_pstate and the index of the branch resolved
\* comes after "if (~read) ... else if (read)" and is never entered: an edge
\* with load writes updated_pstate as it was at the start (a two-state enum,
\* so the value 0) to the entry of the branch looked up last, if there was one.
MetaStep(p) ==
    /\ sel' = IF p.read THEN SaysTaken(mpht[MIndex(p.pc)])
              ELSE IF p.stall THEN sel ELSE FALSE
    /\ mindex' = IF p.read THEN {MIndex(p.pc)} ELSE mindex
    /\ mpht' = [x \in Word(MBits) |->
                   IF p.load /\ ~p.stall /\ x \in mindex' THEN "STRONGLY_TAKEN" ELSE mpht[x]]

----------------------------------------------------------------------------

\* br_pred_blkbox: the prediction the fetch stage acts on.
flush == IF sel THEN lflush ELSE gflush

\* History: how often in a row the branch at pc was resolved the same way.
MaxStreak == 2 + (IF GBits > LBits THEN GBits ELSE LBits)

Counted(p) ==
    IF ~p.load \/ p.stall THEN streak
    ELSE IF streak.pc = p.pc_mem /\ streak.taken = p.taken
         THEN [streak EXCEPT !.len = IF @ < MaxStreak THEN @ + 1 ELSE @]
         ELSE [pc |-> p.pc_mem, taken |-> p.taken, len |-> 1]

Init ==
    /\ ghr = {} /\ gpht = [x \in Word(GBits) |-> "WEAKLY_NOT_TAKEN"] /\ gflush = FALSE
    /\ lhr = [i \in Histories |-> {}]
    /\ lpht = [x \in Word(LBits) |-> "WEAKLY_NOT_TAKEN"] /\ lflush = FALSE
    /\ mpht = [x \in Word(MBits) |-> "WEAKLY_NOT_TAKEN"] /\ mindex = {} /\ sel = FALSE
    /\ port = [read |-> FALSE, stall |-> FALSE]
    /\ streak = [pc |-> {}, taken |-> FALSE, len |-> 0]

Cycle(p) ==
    /\ GlobalStep(p)
    /\ LocalStep(p)
    /\ MetaStep(p)
    /\ port' = [read |-> p.read, stall |-> p.stall]
    /\ streak' = Counted(p)

Next == \E p \in Ports : Cycle(p)

Spec == Init /\ [][Next]_vars

----------------------------------------------------------------------------
(* Properties. *)

\* Histories, tables, latches and choices keep their widths.
TypeOK ==
    /\ ghr \in Word(GBits) /\ gpht \in [Word(GBits) -> Counter]
    /\ lhr \in [Histories -> Word(LBits)] /\ lpht \in [Word(LBits) -> Counter]
    /\ mpht \in [Word(MBits) -> Counter] /\ mindex \subseteq Word(MBits)
    /\ {gflush, lflush, sel} \subseteq BOOLEAN
    /\ port \in [read : BOOLEAN, stall : BOOLEAN]
    /\ streak \in [pc : PC, taken : BOOLEAN, len : 0 .. MaxStreak]

\* Only a branch is predicted taken: once the fetch moves, no latched answer
\* to an earlier lookup sends it anywhere.  The pipeline depends on it: for
\* another instruction there is no predicted address.
PredictsBranchesOnly == flush /\ ~port.stall => port.read

\* A branch that keeps going one way is predicted that way: after as many
\* equal outcomes as the history is long, and two more for the counter, the
\* global table agrees with them, whatever lookups, stalls and other branches
\* came before and between.
GlobalLearns ==
    streak.len >= GBits + 2 => SaysTaken(gpht[GIndex(streak.pc)]) = streak.taken

\* So does the local table, for the branches that have a history register;
\* since both agree, it does not matter which of them the meta table chooses.
LocalLearns ==
    streak.len >= LBits + 2 /\ LhrIndex(streak.pc) \in Histories
        => SaysTaken(lpht[lhr[LhrIndex(streak.pc)]]) = streak.taken

\* What the final report says of all three tables: they are two-bit counters
\* updated with the outcomes the memory stage finds.  Two equal outcomes of a
\* branch in a row take its entry over the middle, to the side of the outcome;
\* for the meta table that side is the choice (meta_predictor.sv line 22).
MetaFollowsOutcomes ==
    streak.len >= 2 => SaysTaken(mpht[MIndex(streak.pc)]) = streak.taken
=============================================================================
