------------------------------ MODULE Pipeline ------------------------------
(***************************************************************************)
(* The five stages: program counter and fetch multiplexer, the registers   *)
(* IF/ID, ID/EX, EX/MEM and MEM/WB, the register file, the stall unit, the *)
(* forwarding unit and the branch checker of the memory stage.  One step   *)
(* is one clock edge.  The cycle's inputs are chosen freely: whether a     *)
(* cache misses, which instruction the fetch returns, what the predictor   *)
(* says of a branch.                                                       *)
(*                                                                         *)
(* An address is known by what it is to the program: the n-th instruction  *)
(* of the program's execution (n counted modulo Window) or WrongPath.      *)
(* Which way a branch goes is decided when it is fetched, the prediction   *)
(* independently of it.                                                    *)
(*                                                                         *)
(* The top level that connects the stages (mp4.sv) is not in the           *)
(* repository.  Its wires follow the port names, and top.sv, which looks   *)
(* into it, shows that stall_pc of the fetch is pc_stall of the stall      *)
(* unit.  The one that nothing settles is the external checker_taken.      *)
(***************************************************************************)
EXTENDS ForwardingUnit

CONSTANT Window

ASSUME WindowAssumption == Window \in Nat /\ Window > 5

VARIABLES
    pc,            \* the program counter: a position or WrongPath
    if_id,         \* instruction word, position, outcome, prediction
    id_ex,         \* decoded instruction with the register values it read
    ex_mem,        \* executed instruction, what its units used, its result
    mem_wb,        \* destination and result
    data,          \* the register file
    mispredicted,  \* the checker's output, a latch while a jump is there
    committed,     \* history: position of the next instruction to finish
    idle,          \* history: cycles with both caches answering since then
    lost           \* history: a redirection found the program counter stalled

vars == <<pc, if_id, id_ex, ex_mem, mem_wb, data, mispredicted, committed, idle, lost>>

Position  == 0 .. Window - 1
WrongPath == -1
Bubble    == -2
After(n)  == (n + 1) % Window

\* The address that follows position n if ok holds there.
Step(n, ok) == IF n \in Position /\ ok THEN After(n) ELSE WrongPath

----------------------------------------------------------------------------
(* Decode. *)

\* The identifiers instr_decode.sv takes from an instruction word and the
\* control bits of WordGenerator.sv.
Decoded(i) ==
    [op  |-> i.op,
     rs1 |-> IF i.op \in {"op_jalr", "op_load", "op_imm", "op_reg", "op_br", "op_store"}
             THEN i.rs1 ELSE 0,
     rs2 |-> IF i.op \in {"op_reg", "op_br", "op_store"} THEN i.rs2 ELSE 0,
     rd  |-> IF i.op \in {"op_br", "op_store"} THEN 0 ELSE i.rd,
     read_mem  |-> i.op = "op_load",
     write_reg |-> i.op \notin {"op_br", "op_store"}]

\* The register file read in the cycle in which MEM/WB writes it.
Read(r) == IF r = mem_wb.rd /\ mem_wb.rd # 0 THEN mem_wb.v
           ELSE IF r = 0 THEN 0 ELSE data[r]

----------------------------------------------------------------------------
(* Execute: the multiplexers behind the forwarding unit. *)

\* The memory stage's forwarding_val_out: a load has none yet.
ExMemValue == IF ex_mem.op = "op_load" THEN 0 ELSE ex_mem.v

Selected(sel, own) ==
    IF sel = "ExMem" THEN ExMemValue ELSE IF sel = "MemWb" THEN mem_wb.v ELSE own

alumux1_out ==
    Selected(alumux1_sel(id_ex, ex_mem, mem_wb),
             IF id_ex.op \in {"op_auipc", "op_jal", "op_br"} THEN Pc ELSE id_ex.reg_1)
alumux2_out ==
    Selected(alumux2_sel(id_ex, ex_mem, mem_wb),
             IF id_ex.op = "op_reg" THEN id_ex.reg_2 ELSE Imm)
cmpmux1_out == Selected(cmpmux1_sel(id_ex, ex_mem, mem_wb), id_ex.reg_1)
cmpmux2_out ==
    Selected(cmpmux2_sel(id_ex, ex_mem, mem_wb),
             IF id_ex.op = "op_imm" THEN Imm ELSE id_ex.reg_2)
rs2passmux_out == Selected(rs2passmux_sel(id_ex, ex_mem, mem_wb), id_ex.reg_2)

\* What the instruction in the execute stage makes use of.
Used ==
    (IF id_ex.op = "op_lui" THEN {}
     ELSE {<<"alu1", alumux1_out>>, <<"alu2", alumux2_out>>})
    \cup (IF id_ex.op \in {"op_br", "op_imm", "op_reg"}
          THEN {<<"cmp1", cmpmux1_out>>, <<"cmp2", cmpmux2_out>>} ELSE {})
    \cup (IF id_ex.op = "op_store" THEN {<<"wdata", rs2passmux_out>>} ELSE {})

----------------------------------------------------------------------------
(* The branch checker of the memory stage. *)

flush ==
    \/ ex_mem.op \in {"op_jal", "op_jalr"}
    \/ ex_mem.op = "op_br" /\ ex_mem.taken # ex_mem.pred

\* Not assigned for a jump: the value of the cycle before stays.
checker_mispredicted ==
    IF ex_mem.op \in {"op_jal", "op_jalr"} THEN mispredicted
    ELSE ex_mem.op = "op_br" /\ ~ex_mem.taken /\ ex_mem.pred

----------------------------------------------------------------------------
(* The stall unit. *)

\* A slip: the stall for every instruction whose result is used at once.
AnyUse(d) == id_ex.rd = d.rs1 \/ id_ex.rd = d.rs2

LoadUse(d) == id_ex.read_mem /\ (id_ex.rd = d.rs1 \/ id_ex.rd = d.rs2)

\* Which registers stand still.  A miss stops them all; a load in the
\* execute stage whose user is being decoded stops the front and has ID/EX
\* take a no-op.
stall(miss) ==
    LET use == ~miss /\ LoadUse(Decoded(if_id.i))
    IN  [pc |-> miss \/ use, if_id |-> miss \/ use, id_ex |-> miss \/ use,
         ex_mem |-> miss, mem_wb |-> miss, nop_id_ex |-> use]

\* External.  A fetch from the target of the memory stage is what flush asks for.
checker_taken == flush

----------------------------------------------------------------------------
(* Fetch. *)

\* An instruction leaving the fetch stage: its position is the program
\* counter, its outcome and its prediction matter to branches only.
Fetched ==
    [i : {i \in Instr : ~IsBranch(i)}, n : {pc}, taken : {FALSE}, pred : {FALSE}]
    \cup [i : {i \in Instr : IsBranch(i)}, n : {pc},
          taken : BOOLEAN, pred : BOOLEAN]

\* The addresses the fetch multiplexer chooses from: the next one, the
\* predicted one, the memory stage's target and its fall-through.
pcp4(f)        == Step(f.n, ~IsJump(f.i) /\ ~f.taken)
br_pred_pc(f)  == Step(f.n, f.taken)
alu_out_mem    == Step(ex_mem.n, ex_mem.op # "op_br" \/ ex_mem.taken)
mispredicted_new_pc_p4 == Step(ex_mem.n, ex_mem.op = "op_br" /\ ~ex_mem.taken)

\* A slip: the prediction for the branch being fetched beats the redirection.
pc_sel_out_predicted(f) ==
    IF checker_mispredicted THEN mispredicted_new_pc_p4
    ELSE IF f.pred THEN br_pred_pc(f)
    ELSE IF checker_taken \/ ex_mem.op \in {"op_jal", "op_jalr"} THEN alu_out_mem
    ELSE pcp4(f)

pc_sel_out(f) ==
    IF checker_mispredicted THEN mispredicted_new_pc_p4
    ELSE IF f.pred /\ ~checker_taken THEN br_pred_pc(f)
    ELSE IF checker_taken \/ ex_mem.op \in {"op_jal", "op_jalr"} THEN alu_out_mem
    ELSE pcp4(f)

----------------------------------------------------------------------------
(* The pipeline registers, each as its always_ff block writes it. *)

NopIfId == [i |-> Nop, n |-> Bubble, taken |-> FALSE, pred |-> FALSE]

NextIfId(f, s) == IF flush THEN NopIfId ELSE IF s.if_id THEN if_id ELSE f

\* An instruction in ID/EX: i is the instruction word it came from.
InIdEx(i, n, taken, pred, a, b) ==
    LET d == Decoded(i)
    IN  [op |-> d.op, rs1 |-> d.rs1, rs2 |-> d.rs2, rd |-> d.rd,
         read_mem |-> d.read_mem, write_reg |-> d.write_reg,
         i |-> i, n |-> n, taken |-> taken, pred |-> pred, reg_1 |-> a, reg_2 |-> b]

NopIdEx == InIdEx(Nop, Bubble, FALSE, FALSE, 0, 0)

NextIdEx(s) ==
    IF flush \/ s.nop_id_ex THEN NopIdEx
    ELSE IF s.id_ex THEN id_ex
    ELSE InIdEx(if_id.i, if_id.n, if_id.taken, if_id.pred,
                Read(Decoded(if_id.i).rs1), Read(Decoded(if_id.i).rs2))

InExMem(d, used, v) ==
    [op |-> d.op, rd |-> d.rd, write_reg |-> d.write_reg, i |-> d.i, n |-> d.n,
     taken |-> d.taken, pred |-> d.pred, used |-> used, v |-> v]

NopExMem == InExMem(NopIdEx, {}, 0)

\* A slip: EX/MEM takes the instruction behind a branch that is redirecting.
NextExMemUnflushed(s, v) ==
    IF s.ex_mem THEN ex_mem
    ELSE InExMem(id_ex, IF id_ex.n = Bubble THEN {} ELSE Used, v)

\* While stalling keep the branch, or the instruction that waits for memory.
NextExMem(s, v) ==
    IF s.ex_mem THEN ex_mem
    ELSE IF flush THEN NopExMem
    ELSE InExMem(id_ex, IF id_ex.n = Bubble THEN {} ELSE Used, v)

NextMemWb(s) ==
    IF s.mem_wb THEN mem_wb
    ELSE [rd |-> ex_mem.rd, write_reg |-> ex_mem.write_reg, v |-> ex_mem.v]

NextData == [r \in Reg |-> IF mem_wb.write_reg /\ r = mem_wb.rd /\ r # 0
                           THEN mem_wb.v ELSE data[r]]

----------------------------------------------------------------------------
(* The clock. *)

Init ==
    /\ pc = 0
    /\ if_id = NopIfId
    /\ id_ex = NopIdEx
    /\ ex_mem = NopExMem
    /\ mem_wb = [rd |-> 0, write_reg |-> FALSE, v |-> 0]
    /\ data = [r \in Reg |-> 0]
    /\ mispredicted = FALSE
    /\ committed = 0
    /\ idle = 0
    /\ lost = FALSE

\* The back of the pipeline on one edge; v is the result of the execute stage.
Back(s, v) ==
    /\ id_ex' = NextIdEx(s)
    /\ mem_wb' = NextMemWb(s)
    /\ data' = NextData
    /\ mispredicted' = checker_mispredicted
    /\ committed' = IF s.mem_wb \/ ex_mem.n = Bubble THEN committed
                    ELSE After(committed)
    /\ idle' = IF s.mem_wb THEN idle ELSE IF ex_mem.n = Bubble THEN idle + 1 ELSE 0
    /\ ex_mem' = NextExMem(s, v)

\* The front on the same edge; f is what the fetch offers.  The program counter
\* stands still for a load although the instruction that redirects leaves.
Front(s, f) ==
    /\ pc' = IF s.pc THEN pc ELSE pc_sel_out(f)
    /\ if_id' = NextIfId(f, s)
    /\ lost' = (lost \/ (flush /\ s.pc /\ ~s.ex_mem))

\* A cache does not answer: the fetch has nothing to offer.
CacheMiss == Back(stall(TRUE), 0) /\ Front(stall(TRUE), NopIfId)

\* Both caches answer.
Cycle ==
    /\ \E v \in (IF id_ex.rd = 0 THEN {0} ELSE Value) : Back(stall(FALSE), v)
    /\ \E f \in Fetched : Front(stall(FALSE), f)

Next == CacheMiss \/ Cycle

Spec == Init /\ [][Next]_vars

----------------------------------------------------------------------------
(* Properties. *)

\* Every register holds what its ports can carry, and as long as no redirection was
\* lost the memory stage holds no instruction of a wrong path.
TypeOK ==
    /\ pc \in Position \cup {WrongPath}
    /\ if_id.i \in Instr \cup {Nop} /\ if_id.n \in Position \cup {WrongPath, Bubble}
    /\ id_ex.i \in Instr \cup {Nop} /\ id_ex.n \in Position \cup {WrongPath, Bubble}
    /\ {id_ex.reg_1, id_ex.reg_2} \subseteq Value
    /\ ex_mem.i \in Instr \cup {Nop} /\ ex_mem.n \in Position \cup {WrongPath, Bubble}
    /\ ex_mem.n = WrongPath => lost
    /\ ex_mem.v \in Value
    /\ mem_wb \in [rd : Reg, write_reg : BOOLEAN, v : Value]
    /\ data \in [Reg -> Value]
    /\ mispredicted \in BOOLEAN
    /\ committed \in Position /\ idle \in Nat /\ lost \in BOOLEAN

\* The registers as the finished instructions left them.
ArchRegs == NextData

Arch == INSTANCE SequentialCpu WITH regs <- ArchRegs, next <- committed

\* The pipeline is a sequential processor: what leaves the memory stage is
\* the next instruction of the program, it was computed from the registers
\* that all its predecessors left, and nothing else changes the registers:
\* no instruction is skipped, doubled, reordered or run from a wrong path,
\* whatever the stalls, flushes and forwarding did to it.  The monitor of the
\* test bench (rvfimon.v line 294) asserts as much of the addresses; it does not
\* hold, since a redirection can be lost.
CommitsSequentially ==
    Arch!Init /\ [][IF committed' # committed THEN Arch!Execute(ex_mem)
                    ELSE UNCHANGED Arch!vars]_vars

\* The same for as long as every redirection finds the program counter free: a
\* load's user, which holds it (stall.sv line 55), is the only way to lose one.
CommitsUntilLost ==
    Arch!Init /\ [][~lost => IF committed' # committed THEN Arch!Execute(ex_mem)
                             ELSE UNCHANGED Arch!vars]_vars

\* Lost or not, forwarding, bubbles and the register file's bypass are right for
\* whatever is fetched: an instruction that leaves the memory stage was computed
\* from the registers that those before it in the pipeline left, and only it
\* changes them.
ComputesSequentially ==
    [][IF committed' # committed
       THEN /\ ex_mem.used = Operands(ex_mem.i, ArchRegs)
            /\ ArchRegs' = Written(ArchRegs, Dest(ex_mem.i), ex_mem.v)
       ELSE ArchRegs' = ArchRegs]_vars

\* The program never stops, and what a hazard costs is bounded: at most the
\* three stages a redirect empties (or the reset left empty) pass between one
\* instruction finishing and the next, not counting the cycles in which a
\* cache does not answer.  A load used at once costs one cycle and cannot add
\* to a redirect; no stall holds itself up and no flush repeats.
AtMostThreeIdle == idle <= 3

----------------------------------------------------------------------------
(* The inductive invariant behind these. *)

\* What follows the instruction in x into the pipeline is not what follows it
\* in the program.
Redirects(x) == IsJump(x.i) \/ (IsBranch(x.i) /\ x.taken # x.pred)

\* The position behind x, if x is at position e or a bubble.
Behind(e, x) == IF x.n = Bubble THEN e ELSE Step(e, ~Redirects(x))

\* From the memory stage to the program counter the positions follow each other,
\* and behind an instruction that redirects everything is on the wrong path, as long
\* as no redirection was lost.
InOrder ==
    LET e2 == Behind(committed, ex_mem)
        e3 == Behind(e2, id_ex)
    IN  ~lost =>
        /\ ex_mem.n \in {Bubble, committed}
        /\ id_ex.n \in {Bubble, e2}
        /\ if_id.n \in {Bubble, e3}
        /\ pc = Behind(e3, if_id)

\* The fields of a stage belong to one instruction word; a bubble is a no-op.
OneInstruction ==
    /\ if_id = [i |-> if_id.i, n |-> if_id.n, taken |-> if_id.taken, pred |-> if_id.pred]
    /\ {if_id.taken, if_id.pred} \subseteq BOOLEAN
    /\ IF if_id.n = Bubble THEN if_id.i = Nop ELSE if_id.i \in Instr
    /\ id_ex = InIdEx(id_ex.i, id_ex.n, id_ex.taken, id_ex.pred, id_ex.reg_1, id_ex.reg_2)
    /\ {id_ex.taken, id_ex.pred} \subseteq BOOLEAN
    /\ IF id_ex.n = Bubble THEN id_ex.i = Nop ELSE id_ex.i \in Instr
    /\ ex_mem.op = ex_mem.i.op /\ ex_mem.rd = Decoded(ex_mem.i).rd
    /\ ex_mem.write_reg = Decoded(ex_mem.i).write_reg
    /\ {ex_mem.taken, ex_mem.pred} \subseteq BOOLEAN
    /\ IF ex_mem.n = Bubble THEN ex_mem.i = Nop ELSE ex_mem.i \in Instr
    /\ mem_wb.rd # 0 => mem_wb.write_reg

\* A register value read in the decode stage is what the instruction must use,
\* unless the write-back stage holds a newer one.
ReadIsCurrent ==
    /\ mem_wb.rd # id_ex.rs1 \/ id_ex.rs1 = 0 => id_ex.reg_1 = ArchRegs[id_ex.rs1]
    /\ mem_wb.rd # id_ex.rs2 \/ id_ex.rs2 = 0 => id_ex.reg_2 = ArchRegs[id_ex.rs2]

\* No instruction is directly behind a load whose result it uses.
LoadIsNotForwarded ==
    ex_mem.op = "op_load" => \A r \in {id_ex.rs1, id_ex.rs2} : r = 0 \/ r # ex_mem.rd

\* The instruction in the memory stage was executed with the registers that the
\* finished instructions leave, and x0 is zero.
ExecutedInOrder ==
    /\ ex_mem.n # Bubble => ex_mem.used = Operands(ex_mem.i, ArchRegs)
    /\ data[0] = 0

\* The checker's latch never holds a misprediction when a jump opens it.
LatchIsClear == mispredicted => ~IsJump(ex_mem.i)

\* The cycles until an instruction is in the memory stage.
Coming == IF ex_mem.n # Bubble THEN 0 ELSE IF id_ex.n # Bubble THEN 1
          ELSE IF if_id.n # Bubble THEN 2 ELSE 3

IInv ==
    /\ TypeOK /\ InOrder /\ OneInstruction /\ ReadIsCurrent /\ LoadIsNotForwarded
    /\ ExecutedInOrder /\ LatchIsClear /\ idle + Coming <= 3
=============================================================================
