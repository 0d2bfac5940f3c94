----------------------------- MODULE MCPipeline -----------------------------
(***************************************************************************)
(* Two registers besides x0.  lui and auipc are left out: they read no     *)
(* register, and jal stands for them.  The unused fields of an instruction *)
(* word name a register too, so that a decoder that looked at them would   *)
(* be seen.                                                                *)
(***************************************************************************)
EXTENDS Pipeline

I(op, a, b, d) == [op |-> op, rs1 |-> a, rs2 |-> b, rd |-> d]

MCInstr ==
    {I("op_reg", 1, 2, 1), I("op_imm", 1, 2, 2), I("op_load", 1, 1, 2),
     I("op_load", 0, 1, 0), I("op_store", 2, 1, 1), I("op_br", 1, 2, 1),
     I("op_jal", 1, 1, 1), I("op_jalr", 1, 1, 0)}
=============================================================================
