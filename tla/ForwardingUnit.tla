--------------------------- MODULE ForwardingUnit ---------------------------
(***************************************************************************)
(* forwardingunit.sv: which of the three sources each input of the execute *)
(* stage takes: what its own multiplexer selects ("own"), the result of    *)
(* the instruction in the memory stage ("ExMem") or of the one in the      *)
(* write-back stage ("MemWb").  x, m and w are the instructions in the     *)
(* execute, memory and write-back stages, with the identifiers the decoder *)
(* gave them and the control bits of their control words.                  *)
(***************************************************************************)
EXTENDS Isa

\* The two halves of every forwarding condition, for the source register r.
FromExMem(r, m) == m.write_reg /\ m.rd = r /\ r # 0

\* A slip: the older of two results wins.
FromMemWbAlways(r, m, w) == w.write_reg /\ w.rd = r /\ r # 0

FromMemWb(r, m, w) == w.write_reg /\ ~(m.write_reg /\ m.rd = r) /\ w.rd = r /\ r # 0

\* The condition on MEM/WB is assigned last: it wins where both hold.
Source(r, m, w) == IF FromMemWb(r, m, w) THEN "MemWb"
                   ELSE IF FromExMem(r, m) THEN "ExMem" ELSE "own"

\* A branch computes its target in the ALU: its operands are compared only.
alumux1_sel(x, m, w) == IF x.op = "op_br" THEN "own" ELSE Source(x.rs1, m, w)

\* A store computes its address in the ALU: rs2 goes through the pass mux.
alumux2_sel(x, m, w) ==
    IF x.op \in {"op_br", "op_store"} THEN "own" ELSE Source(x.rs2, m, w)

cmpmux1_sel(x, m, w) == Source(x.rs1, m, w)
cmpmux2_sel(x, m, w) == Source(x.rs2, m, w)

\* The path of a store's data: the write-back stage's write_reg is not asked.
rs2passmux_sel(x, m, w) ==
    IF x.op # "op_store" \/ x.rs2 = 0 THEN "own"
    ELSE IF ~(m.write_reg /\ m.rd = x.rs2) /\ w.rd = x.rs2 THEN "MemWb"
    ELSE IF m.write_reg /\ m.rd = x.rs2 THEN "ExMem" ELSE "own"
=============================================================================
