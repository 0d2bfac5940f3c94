-------------------------------- MODULE Isa --------------------------------
(***************************************************************************)
(* The instructions of the pipeline, as far as hazards tell them apart:    *)
(* the opcode and the three register fields of the instruction word.       *)
(* Immediates, program counters and results are data: an immediate is the  *)
(* token Imm, the program counter the token Pc, a result any Value.        *)
(*                                                                         *)
(* The second half is the reference: which registers the RV32I manual has  *)
(* an instruction read and write, whatever its fields hold.  The pipeline  *)
(* never uses it; SequentialCpu and the properties do.                     *)
(***************************************************************************)
EXTENDS Integers, FiniteSets

CONSTANTS
    Reg,      \* register numbers, x0 among them
    Value,    \* what a register can hold, 0 among it
    Instr     \* the instruction words a fetch may return

Opcode == {"op_lui", "op_auipc", "op_jal", "op_jalr", "op_br",
           "op_load", "op_store", "op_imm", "op_reg"}

InstrWord == [op : Opcode, rs1 : Reg, rs2 : Reg, rd : Reg]

ASSUME RegAssumption == 0 \in Reg /\ Reg \subseteq Nat
ASSUME ValueAssumption == 0 \in Value /\ Value \subseteq Nat
ASSUME InstrAssumption == Instr \subseteq InstrWord

Imm == -1
Pc  == -2

\* addi x0, x0, 0: what a flushed register holds.
Nop == [op |-> "op_imm", rs1 |-> 0, rs2 |-> 0, rd |-> 0]

IsBranch(i) == i.op = "op_br"
IsJump(i)   == i.op \in {"op_jal", "op_jalr"}

----------------------------------------------------------------------------
(* The reference. *)

\* The register an instruction writes: none (x0) for branches and stores.
Dest(i) == IF i.op \in {"op_br", "op_store"} THEN 0 ELSE i.rd

\* What the units that matter to an instruction must be given when the
\* registers hold regs: pairs of an input and the value on it.
Operands(i, regs) ==
    LET a == regs[i.rs1]
        b == regs[i.rs2]
    IN  IF i.op = "op_lui" THEN {}
        ELSE IF i.op \in {"op_auipc", "op_jal"}
             THEN {<<"alu1", Pc>>, <<"alu2", Imm>>}
        ELSE IF i.op \in {"op_jalr", "op_load"}
             THEN {<<"alu1", a>>, <<"alu2", Imm>>}
        ELSE IF i.op = "op_imm"
             THEN {<<"alu1", a>>, <<"alu2", Imm>>, <<"cmp1", a>>, <<"cmp2", Imm>>}
        ELSE IF i.op = "op_reg"
             THEN {<<"alu1", a>>, <<"alu2", b>>, <<"cmp1", a>>, <<"cmp2", b>>}
        ELSE IF i.op = "op_store"
             THEN {<<"alu1", a>>, <<"alu2", Imm>>, <<"wdata", b>>}
        ELSE {<<"alu1", Pc>>, <<"alu2", Imm>>, <<"cmp1", a>>, <<"cmp2", b>>}

\* The registers after an instruction whose result is v.
Written(regs, rd, v) == IF rd = 0 THEN regs ELSE [regs EXCEPT ![rd] = v]
=============================================================================
