--------------------------- MODULE PipelineProofs ---------------------------
(***************************************************************************)
(* The pipeline computes as a sequential processor and loses at most three *)
(* cycles to a hazard, for all sets of registers, of values and of         *)
(* instruction words and for every window of positions; and as long as no  *)
(* redirection finds the program counter stalled it follows the program.   *)
(***************************************************************************)
EXTENDS Pipeline, TLAPS

----------------------------------------------------------------------------
(* Positions, instructions and registers. *)

\* Counting positions.
LEMMA Positions ==
    /\ \A n \in Position : After(n) \in Position /\ After(n) # n
    /\ 0 \in Position /\ WrongPath \notin Position /\ Bubble \notin Position
    /\ WrongPath # Bubble
<1>1. ASSUME NEW n \in 0 .. Window - 1
      PROVE  (n + 1) % Window = IF n + 1 = Window THEN 0 ELSE n + 1
  BY WindowAssumption
<1> QED BY <1>1, WindowAssumption DEF Position, After, WrongPath, Bubble

\* The address that follows a position or the wrong path.
LEMMA Steps ==
    ASSUME NEW e \in Position \cup {WrongPath}, NEW ok \in BOOLEAN
    PROVE  /\ Step(e, ok) \in Position \cup {WrongPath}
           /\ Step(WrongPath, ok) = WrongPath
           /\ Step(e, FALSE) = WrongPath
           /\ e \in Position => Step(e, TRUE) = After(e)
BY Positions DEF Step

\* What the decoder makes of an instruction word.
LEMMA Decoding ==
    ASSUME NEW i \in Instr \cup {Nop}
    PROVE  /\ i \in InstrWord
           /\ Decoded(i).op = i.op
           /\ Decoded(i).rs1 \in Reg /\ Decoded(i).rs2 \in Reg /\ Decoded(i).rd \in Reg
           /\ Decoded(i).rd = Dest(i)
           /\ Decoded(i).write_reg \in BOOLEAN /\ Decoded(i).read_mem \in BOOLEAN
           /\ Decoded(i).rd # 0 => Decoded(i).write_reg
           /\ Decoded(i).read_mem <=> i.op = "op_load"
<1>1. i \in InstrWord
  BY InstrAssumption, RegAssumption DEF InstrWord, Opcode, Nop
<1> QED BY <1>1, RegAssumption DEF InstrWord, Decoded, Dest

\* A no-op reads nothing, writes nothing and goes on.
LEMMA Nops ==
    /\ Decoded(Nop).op = "op_imm" /\ Decoded(Nop).rs1 = 0 /\ Decoded(Nop).rs2 = 0
    /\ Decoded(Nop).rd = 0 /\ Decoded(Nop).read_mem = FALSE
    /\ ~IsJump(Nop) /\ ~IsBranch(Nop)
BY DEF Nop, Decoded, IsJump, IsBranch

\* The instruction in ID/EX.
LEMMA IdEx ==
    ASSUME NEW i, NEW n, NEW t, NEW p, NEW a, NEW b, NEW x, x = InIdEx(i, n, t, p, a, b)
    PROVE  /\ x.i = i /\ x.n = n /\ x.taken = t /\ x.pred = p /\ x.reg_1 = a /\ x.reg_2 = b
           /\ x.op = Decoded(i).op /\ x.rs1 = Decoded(i).rs1 /\ x.rs2 = Decoded(i).rs2
           /\ x.rd = Decoded(i).rd /\ x.read_mem = Decoded(i).read_mem
           /\ x.write_reg = Decoded(i).write_reg
BY DEF InIdEx

\* The finished instructions' registers: their types, and x0.
LEMMA ArchTypes ==
    ASSUME TypeOK, ExecutedInOrder
    PROVE  ArchRegs \in [Reg -> Value] /\ ArchRegs[0] = 0
BY RegAssumption DEF TypeOK, ExecutedInOrder, ArchRegs, NextData

\* A read of the register file sees them, the one finishing now included.
LEMMA ReadFacts ==
    ASSUME TypeOK, ExecutedInOrder, OneInstruction, NEW r \in Reg
    PROVE  Read(r) = ArchRegs[r] /\ Read(r) \in Value
BY RegAssumption, ValueAssumption
   DEF TypeOK, ExecutedInOrder, OneInstruction, ArchRegs, NextData, Read

----------------------------------------------------------------------------
(* The edges, with the stall unit's signals resolved. *)

\* The instruction being decoded waits for the load in the execute stage.
Waits == LoadUse(Decoded(if_id.i))

\* An edge without the answer of a cache.
LEMMA MissFacts ==
    ASSUME CacheMiss
    PROVE  /\ pc' = pc /\ ex_mem' = ex_mem /\ mem_wb' = mem_wb /\ committed' = committed
           /\ idle' = idle /\ data' = NextData /\ mispredicted' = checker_mispredicted
           /\ if_id' = IF flush THEN NopIfId ELSE if_id
           /\ id_ex' = IF flush THEN NopIdEx ELSE id_ex
           /\ lost' \in BOOLEAN /\ (~lost' => ~lost)
<1> DEFINE s == stall(TRUE)
<1>1. s.pc /\ s.if_id /\ s.id_ex /\ s.ex_mem /\ s.mem_wb /\ ~s.nop_id_ex
  BY DEF stall
<1>2. Back(s, 0) /\ Front(s, NopIfId)
  BY DEF CacheMiss
<1> HIDE DEF s
<1> QED BY <1>1, <1>2 DEF Back, Front, NextIdEx, NextIfId, NextMemWb, NextExMem

\* An edge with both answers.
LEMMA CycleFacts ==
    ASSUME Cycle
    PROVE  \E v \in (IF id_ex.rd = 0 THEN {0} ELSE Value), f \in Fetched :
           /\ pc' = IF Waits THEN pc ELSE pc_sel_out(f)
           /\ lost' \in BOOLEAN /\ (~lost' => ~lost /\ ~(flush /\ Waits))
           /\ if_id' = IF flush THEN NopIfId ELSE IF Waits THEN if_id ELSE f
           /\ id_ex' = IF flush \/ Waits THEN NopIdEx
                       ELSE InIdEx(if_id.i, if_id.n, if_id.taken, if_id.pred,
                                   Read(Decoded(if_id.i).rs1), Read(Decoded(if_id.i).rs2))
           /\ ex_mem' = IF flush THEN NopExMem
                        ELSE InExMem(id_ex, IF id_ex.n = Bubble THEN {} ELSE Used, v)
           /\ mem_wb' = [rd |-> ex_mem.rd, write_reg |-> ex_mem.write_reg, v |-> ex_mem.v]
           /\ data' = NextData /\ mispredicted' = checker_mispredicted
           /\ committed' = IF ex_mem.n = Bubble THEN committed ELSE After(committed)
           /\ idle' = IF ex_mem.n = Bubble THEN idle + 1 ELSE 0
<1> DEFINE s == stall(FALSE)
<1>1. /\ (s.pc <=> Waits) /\ (s.if_id <=> Waits)
      /\ (s.id_ex <=> Waits) /\ (s.nop_id_ex <=> Waits)
      /\ ~s.ex_mem /\ ~s.mem_wb
  BY DEF stall, Waits
<1>2. PICK v \in (IF id_ex.rd = 0 THEN {0} ELSE Value) : Back(s, v)
  BY DEF Cycle
<1>3. PICK f \in Fetched : Front(s, f)
  BY DEF Cycle
<1> HIDE DEF s
<1>4. /\ pc' = IF Waits THEN pc ELSE pc_sel_out(f)
      /\ lost' \in BOOLEAN /\ (~lost' => ~lost /\ ~(flush /\ Waits))
      /\ if_id' = IF flush THEN NopIfId ELSE IF Waits THEN if_id ELSE f
  BY <1>1, <1>3 DEF Front, NextIfId
<1>5. /\ id_ex' = IF flush \/ Waits THEN NopIdEx
                  ELSE InIdEx(if_id.i, if_id.n, if_id.taken, if_id.pred,
                              Read(Decoded(if_id.i).rs1), Read(Decoded(if_id.i).rs2))
      /\ ex_mem' = IF flush THEN NopExMem
                   ELSE InExMem(id_ex, IF id_ex.n = Bubble THEN {} ELSE Used, v)
      /\ mem_wb' = [rd |-> ex_mem.rd, write_reg |-> ex_mem.write_reg, v |-> ex_mem.v]
  BY <1>1, <1>2 DEF Back, NextIdEx, NextExMem, NextMemWb
<1>6. /\ data' = NextData /\ mispredicted' = checker_mispredicted
      /\ committed' = IF ex_mem.n = Bubble THEN committed ELSE After(committed)
      /\ idle' = IF ex_mem.n = Bubble THEN idle + 1 ELSE 0
  BY <1>1, <1>2 DEF Back
<1> QED BY <1>4, <1>5, <1>6

\* What a fetch offers.
LEMMA FetchFacts ==
    ASSUME NEW f \in Fetched
    PROVE  /\ f.i \in Instr /\ f.n = pc /\ f.taken \in BOOLEAN /\ f.pred \in BOOLEAN
           /\ f = [i |-> f.i, n |-> f.n, taken |-> f.taken, pred |-> f.pred]
           /\ ~IsBranch(f.i) => f.taken = FALSE /\ f.pred = FALSE
BY DEF Fetched

----------------------------------------------------------------------------
(* Program order. *)

\* A flush is a redirection in the memory stage.
LEMMA FlushFacts ==
    ASSUME IInv
    PROVE  /\ flush <=> Redirects(ex_mem)
           /\ flush => ex_mem.n # Bubble
           /\ flush /\ ~lost => ex_mem.n = committed
           /\ ~flush => ~checker_mispredicted
           /\ Redirects(ex_mem) \in BOOLEAN
<1>1. flush <=> Redirects(ex_mem)
  BY DEF IInv, OneInstruction, flush, Redirects, IsJump, IsBranch
<1>2. ex_mem.n = Bubble => ~flush
  BY <1>1, Nops DEF IInv, OneInstruction, Redirects
<1>3. ~flush => ~checker_mispredicted
  BY DEF IInv, OneInstruction, flush, checker_mispredicted
<1> QED BY <1>1, <1>2, <1>3 DEF IInv, InOrder, Redirects

\* The position behind a stage.
LEMMA BehindFacts ==
    ASSUME NEW e \in Position \cup {WrongPath}, NEW x
    PROVE  /\ Behind(e, x) \in Position \cup {WrongPath}
           /\ Behind(WrongPath, x) = WrongPath
           /\ x.n = Bubble => Behind(e, x) = e
           /\ x.n # Bubble /\ Redirects(x) => Behind(e, x) = WrongPath
           /\ x.n # Bubble /\ ~Redirects(x) /\ e \in Position => Behind(e, x) = After(e)
BY Positions DEF Behind, Step

\* Without a flush, the program goes on behind the memory stage where it finishes.
LEMMA CommitFacts ==
    ASSUME IInv, ~lost
    PROVE  /\ Behind(committed, ex_mem) \in Position \cup {WrongPath}
           /\ flush => Behind(committed, ex_mem) = WrongPath /\ pc = WrongPath
           /\ ~flush => Behind(committed, ex_mem) =
                           IF ex_mem.n = Bubble THEN committed ELSE After(committed)
<1>1. committed \in Position
  BY DEF IInv, TypeOK
<1>2. /\ Behind(committed, ex_mem) \in Position \cup {WrongPath}
      /\ flush => Behind(committed, ex_mem) = WrongPath
      /\ ~flush => Behind(committed, ex_mem) =
                      IF ex_mem.n = Bubble THEN committed ELSE After(committed)
  BY <1>1, FlushFacts, BehindFacts
<1>3. flush => pc = WrongPath
  BY <1>2, BehindFacts DEF IInv, InOrder
<1> QED BY <1>2, <1>3

\* A redirection sends the fetch to the instruction behind the one that asks for it:
\* the target, or the fall-through of a branch predicted taken.
LEMMA RedirectFacts ==
    ASSUME IInv, ~lost, flush, NEW f
    PROVE  pc_sel_out(f) = After(committed)
<1>1. committed \in Position /\ ex_mem.n = committed
  BY FlushFacts DEF IInv, TypeOK
<1>2. CASE ex_mem.op \in {"op_jal", "op_jalr"}
  <2>1. ~checker_mispredicted
    BY <1>2 DEF IInv, LatchIsClear, OneInstruction, IsJump, checker_mispredicted
  <2> QED BY <1>1, <1>2, <2>1 DEF pc_sel_out, checker_taken, alu_out_mem, Step
<1>3. CASE ex_mem.op = "op_br" /\ ex_mem.taken # ex_mem.pred
  <2>1. ex_mem.taken \in BOOLEAN /\ ex_mem.pred \in BOOLEAN
    BY DEF IInv, OneInstruction
  <2>2. CASE ex_mem.taken
    BY <1>1, <1>3, <2>1, <2>2
       DEF pc_sel_out, checker_mispredicted, checker_taken, alu_out_mem, Step
  <2>3. CASE ~ex_mem.taken
    BY <1>1, <1>3, <2>1, <2>3 DEF pc_sel_out, checker_mispredicted, mispredicted_new_pc_p4, Step
  <2> QED BY <2>2, <2>3
<1> QED BY <1>2, <1>3 DEF flush

\* Without a redirection the fetch goes on behind what it offers, on the wrong path
\* if the prediction is wrong or there is none for a jump.
LEMMA GoOnFacts ==
    ASSUME IInv, ~flush, NEW f \in Fetched
    PROVE  pc_sel_out(f) = Behind(pc, f)
<1>1. ~checker_mispredicted /\ ~checker_taken /\ ex_mem.op \notin {"op_jal", "op_jalr"}
  BY FlushFacts DEF checker_taken, flush
<1>2. f.n = pc /\ pc # Bubble /\ f.taken \in BOOLEAN /\ f.pred \in BOOLEAN
  BY FetchFacts, Positions DEF IInv, TypeOK
<1>3. Behind(pc, f) = Step(pc, ~Redirects(f))
  BY <1>2 DEF Behind
<1>4. CASE f.pred
  <2>1. IsBranch(f.i) /\ ~IsJump(f.i)
    BY <1>4, FetchFacts DEF IsBranch, IsJump
  <2>2. f.taken <=> ~Redirects(f)
    BY <1>2, <1>4, <2>1 DEF Redirects
  <2> QED BY <1>1, <1>2, <1>3, <1>4, <2>2 DEF pc_sel_out, br_pred_pc, Step
<1>5. CASE ~f.pred
  <2>1. (~IsJump(f.i) /\ ~f.taken) <=> ~Redirects(f)
    BY <1>2, <1>5, FetchFacts DEF Redirects
  <2> QED BY <1>1, <1>2, <1>3, <1>5, <2>1 DEF pc_sel_out, pcp4, Step
<1> QED BY <1>4, <1>5

\* The flushed registers.
LEMMA NopStages ==
    /\ NopIfId.i = Nop /\ NopIfId.n = Bubble /\ NopIfId.taken = FALSE /\ NopIfId.pred = FALSE
    /\ NopIdEx.i = Nop /\ NopIdEx.n = Bubble /\ NopIdEx.taken = FALSE /\ NopIdEx.pred = FALSE
    /\ NopIdEx.reg_1 = 0 /\ NopIdEx.reg_2 = 0 /\ NopIdEx.rs1 = 0 /\ NopIdEx.rs2 = 0
    /\ NopIdEx = InIdEx(NopIdEx.i, NopIdEx.n, NopIdEx.taken, NopIdEx.pred,
                        NopIdEx.reg_1, NopIdEx.reg_2)
    /\ NopExMem.i = Nop /\ NopExMem.n = Bubble /\ NopExMem.taken = FALSE /\ NopExMem.pred = FALSE
    /\ NopExMem.op = Decoded(Nop).op /\ NopExMem.rd = Decoded(Nop).rd
    /\ NopExMem.write_reg = Decoded(Nop).write_reg /\ NopExMem.v = 0 /\ NopExMem.op = "op_imm"
<1>1. /\ NopIdEx.i = Nop /\ NopIdEx.n = Bubble /\ NopIdEx.taken = FALSE /\ NopIdEx.pred = FALSE
      /\ NopIdEx.reg_1 = 0 /\ NopIdEx.reg_2 = 0 /\ NopIdEx.rs1 = 0 /\ NopIdEx.rs2 = 0
      /\ NopIdEx.op = Decoded(Nop).op /\ NopIdEx.rd = Decoded(Nop).rd
      /\ NopIdEx.write_reg = Decoded(Nop).write_reg
  BY Nops DEF NopIdEx, InIdEx
<1>2. NopIdEx = InIdEx(NopIdEx.i, NopIdEx.n, NopIdEx.taken, NopIdEx.pred,
                       NopIdEx.reg_1, NopIdEx.reg_2)
  BY <1>1 DEF NopIdEx
<1> QED BY <1>1, <1>2, Nops DEF NopIfId, NopExMem, InExMem

\* What an instruction keeps on its way to the next stage.
LEMMA MovedFacts ==
    ASSUME NEW x, NEW u, NEW v, NEW y, NEW e,
           y = InExMem(x, u, v)
    PROVE  /\ y.i = x.i /\ y.n = x.n /\ y.taken = x.taken /\ y.pred = x.pred /\ y.op = x.op
           /\ y.rd = x.rd /\ y.write_reg = x.write_reg /\ y.used = u /\ y.v = v
           /\ Behind(e, y) = Behind(e, x)
BY DEF InExMem, Behind, Redirects

\* Positions stay in order, whatever stalls, moves or is flushed, unless this edge
\* loses a redirection.
LEMMA OrderStep == ASSUME IInv, Next PROVE InOrder'
<1> SUFFICES ASSUME ~lost' PROVE InOrder'
  BY DEF InOrder
<1>0. ~lost /\ (Cycle => ~(flush /\ Waits))
  BY MissFacts, CycleFacts DEF Next
<1> DEFINE e2 == Behind(committed, ex_mem)
           e3 == Behind(e2, id_ex)
<1>1. /\ committed \in Position /\ ex_mem.n \in {Bubble, committed} /\ id_ex.n \in {Bubble, e2}
      /\ if_id.n \in {Bubble, e3} /\ pc = Behind(e3, if_id)
  BY <1>0 DEF IInv, TypeOK, InOrder
<1>2. e2 \in Position \cup {WrongPath} /\ e3 \in Position \cup {WrongPath}
  BY <1>0, CommitFacts, BehindFacts
<1>3. SUFFICES ASSUME NEW c, NEW x, NEW d, NEW i, NEW p,
                      c = committed', x = ex_mem', d = id_ex', i = if_id', p = pc'
               PROVE  /\ c \in Position /\ x.n \in {Bubble, c}
                      /\ d.n \in {Bubble, Behind(c, x)}
                      /\ i.n \in {Bubble, Behind(Behind(c, x), d)}
                      /\ p = Behind(Behind(Behind(c, x), d), i)
  BY DEF InOrder, Behind, Redirects
<1> HIDE DEF e2, e3
<1>4. CASE CacheMiss
  <2>1. /\ p = pc /\ x = ex_mem /\ c = committed
        /\ i = (IF flush THEN NopIfId ELSE if_id) /\ d = (IF flush THEN NopIdEx ELSE id_ex)
    BY <1>3, <1>4, MissFacts
  <2>2. CASE flush
    <3>1. e2 = WrongPath /\ pc = WrongPath
      BY <1>0, <2>2, CommitFacts DEF e2
    <3>2. d.n = Bubble /\ i.n = Bubble
      BY <2>1, <2>2, NopStages
    <3> QED BY <1>1, <2>1, <3>1, <3>2, BehindFacts DEF e2
  <2>3. CASE ~flush
    BY <1>1, <2>1, <2>3 DEF e2, e3
  <2> QED BY <2>2, <2>3
<1>5. CASE Cycle /\ flush
  <2>1. PICK f \in Fetched : p = pc_sel_out(f)
    BY <1>0, <1>3, <1>5, CycleFacts
  <2>2. i = NopIfId /\ d = NopIdEx /\ x = NopExMem /\ c = After(committed)
    BY <1>3, <1>5, CycleFacts, FlushFacts
  <2>3. p = c /\ c \in Position
    BY <1>0, <1>1, <1>5, <2>1, <2>2, RedirectFacts, Positions
  <2> QED BY <2>2, <2>3, NopStages, BehindFacts
<1>6. CASE Cycle /\ ~flush
  <2>1. c = e2 /\ e2 \in Position
    <3>1. c = IF ex_mem.n = Bubble THEN committed ELSE After(committed)
      BY <1>3, <1>6, CycleFacts
    <3> QED BY <1>0, <1>1, <1>6, <3>1, CommitFacts, Positions DEF e2
  <2>2. x.n = id_ex.n /\ Behind(c, x) = e3
    <3>1. PICK v : x = InExMem(id_ex, IF id_ex.n = Bubble THEN {} ELSE Used, v)
      BY <1>3, <1>6, CycleFacts
    <3> QED BY <2>1, <3>1, MovedFacts DEF e3
  <2>3. CASE Waits
    <3>1. i = if_id /\ d = NopIdEx /\ p = pc
      BY <1>3, <1>6, <2>3, CycleFacts
    <3> QED BY <1>1, <1>2, <2>1, <2>2, <3>1, NopStages, BehindFacts
  <2>4. CASE ~Waits
    <3>1. PICK f \in Fetched : p = pc_sel_out(f) /\ i = f
      BY <1>3, <1>6, <2>4, CycleFacts
    <3>2. p = Behind(pc, f) /\ f.n = pc
      BY <1>6, <3>1, GoOnFacts, FetchFacts
    <3>3. d = InIdEx(if_id.i, if_id.n, if_id.taken, if_id.pred,
                     Read(Decoded(if_id.i).rs1), Read(Decoded(if_id.i).rs2))
      BY <1>3, <1>6, <2>4, CycleFacts
    <3>4. d.i = if_id.i /\ d.n = if_id.n /\ d.taken = if_id.taken /\ d.pred = if_id.pred
      BY <3>3, IdEx
    <3>5. Behind(e3, d) = Behind(e3, if_id)
      BY <3>4 DEF Behind, Redirects
    <3> QED BY <1>1, <2>1, <2>2, <3>1, <3>2, <3>4, <3>5
  <2> QED BY <2>3, <2>4
<1> QED BY <1>4, <1>5, <1>6 DEF Next

----------------------------------------------------------------------------
(* The contents of the stages. *)

\* The instruction words and the fields that go with them.
LEMMA StageFacts ==
    ASSUME IInv
    PROVE  /\ if_id.i \in Instr \cup {Nop} /\ id_ex.i \in Instr \cup {Nop}
           /\ ex_mem.i \in Instr \cup {Nop}
           /\ id_ex.op = id_ex.i.op
           /\ id_ex.rs1 = Decoded(id_ex.i).rs1 /\ id_ex.rs2 = Decoded(id_ex.i).rs2
           /\ id_ex.rd = Decoded(id_ex.i).rd /\ id_ex.write_reg = Decoded(id_ex.i).write_reg
           /\ id_ex.read_mem = Decoded(id_ex.i).read_mem
           /\ id_ex.rs1 \in Reg /\ id_ex.rs2 \in Reg /\ id_ex.rd \in Reg
           /\ ex_mem.op = ex_mem.i.op /\ ex_mem.rd = Dest(ex_mem.i)
           /\ ex_mem.rd \in Reg /\ ex_mem.write_reg \in BOOLEAN
           /\ ex_mem.rd # 0 => ex_mem.write_reg
<1>1. /\ if_id.i \in Instr \cup {Nop} /\ id_ex.i \in Instr \cup {Nop}
      /\ ex_mem.i \in Instr \cup {Nop}
  BY DEF IInv, TypeOK
<1>2. id_ex = InIdEx(id_ex.i, id_ex.n, id_ex.taken, id_ex.pred, id_ex.reg_1, id_ex.reg_2)
  BY DEF IInv, OneInstruction
<1>3. /\ id_ex.op = Decoded(id_ex.i).op
      /\ id_ex.rs1 = Decoded(id_ex.i).rs1 /\ id_ex.rs2 = Decoded(id_ex.i).rs2
      /\ id_ex.rd = Decoded(id_ex.i).rd /\ id_ex.write_reg = Decoded(id_ex.i).write_reg
      /\ id_ex.read_mem = Decoded(id_ex.i).read_mem
  BY <1>2, IdEx
<1>4. /\ ex_mem.op = ex_mem.i.op /\ ex_mem.rd = Decoded(ex_mem.i).rd
      /\ ex_mem.write_reg = Decoded(ex_mem.i).write_reg
  BY DEF IInv, OneInstruction
<1> QED BY <1>1, <1>3, <1>4, Decoding

\* Every stage goes on holding one instruction, or a no-op.
LEMMA OneInstructionStep == ASSUME IInv, Next PROVE OneInstruction'
<1> DEFINE If(x) == /\ x = [i |-> x.i, n |-> x.n, taken |-> x.taken, pred |-> x.pred]
                    /\ {x.taken, x.pred} \subseteq BOOLEAN
                    /\ IF x.n = Bubble THEN x.i = Nop ELSE x.i \in Instr
           Id(x) == /\ x = InIdEx(x.i, x.n, x.taken, x.pred, x.reg_1, x.reg_2)
                    /\ {x.taken, x.pred} \subseteq BOOLEAN
                    /\ IF x.n = Bubble THEN x.i = Nop ELSE x.i \in Instr
           Ex(x) == /\ x.op = x.i.op /\ x.rd = Decoded(x.i).rd
                    /\ x.write_reg = Decoded(x.i).write_reg
                    /\ {x.taken, x.pred} \subseteq BOOLEAN
                    /\ IF x.n = Bubble THEN x.i = Nop ELSE x.i \in Instr
<1>1. If(if_id) /\ Id(id_ex) /\ Ex(ex_mem) /\ (mem_wb.rd # 0 => mem_wb.write_reg)
  BY DEF IInv, OneInstruction
<1>2. If(NopIfId) /\ Id(NopIdEx) /\ Ex(NopExMem)
  <2>1. If(NopIfId)
    BY NopStages DEF NopIfId
  <2>2. Id(NopIdEx)
    BY NopStages
  <2>3. Ex(NopExMem)
    <3>1. Nop.op = "op_imm"
      BY DEF Nop
    <3> QED BY <3>1, NopStages
  <2> QED BY <2>1, <2>2, <2>3
<1>3. If(if_id')
  <2>1. if_id' \in {NopIfId, if_id} \/ if_id' \in Fetched
    BY MissFacts, CycleFacts DEF Next
  <2>2. ASSUME NEW f \in Fetched PROVE If(f)
    <3>1. f.n # Bubble
      BY FetchFacts, Positions DEF IInv, TypeOK
    <3> QED BY <3>1, FetchFacts
  <2> QED BY <1>1, <1>2, <2>1, <2>2
<1>4. Id(id_ex')
  <2>1. \/ id_ex' \in {NopIdEx, id_ex}
        \/ \E a, b : id_ex' = InIdEx(if_id.i, if_id.n, if_id.taken, if_id.pred, a, b)
    BY MissFacts, CycleFacts DEF Next
  <2>2. ASSUME NEW a, NEW b, id_ex' = InIdEx(if_id.i, if_id.n, if_id.taken, if_id.pred, a, b)
        PROVE  Id(id_ex')
    <3>1. /\ id_ex'.i = if_id.i /\ id_ex'.n = if_id.n /\ id_ex'.taken = if_id.taken
          /\ id_ex'.pred = if_id.pred /\ id_ex'.reg_1 = a /\ id_ex'.reg_2 = b
      BY <2>2, IdEx
    <3> QED BY <1>1, <2>2, <3>1
  <2> QED BY <1>1, <1>2, <2>1, <2>2
<1>5. Ex(ex_mem')
  <2>1. ex_mem' \in {NopExMem, ex_mem} \/ \E u, v : ex_mem' = InExMem(id_ex, u, v)
    BY MissFacts, CycleFacts DEF Next
  <2>2. ASSUME NEW u, NEW v, ex_mem' = InExMem(id_ex, u, v)
        PROVE  Ex(ex_mem')
    BY <1>1, <2>2, MovedFacts, StageFacts
  <2> QED BY <1>1, <1>2, <2>1, <2>2
<1>6. (mem_wb.rd # 0 => mem_wb.write_reg)'
  <2>1. \/ mem_wb' = mem_wb
        \/ mem_wb' = [rd |-> ex_mem.rd, write_reg |-> ex_mem.write_reg, v |-> ex_mem.v]
    BY MissFacts, CycleFacts DEF Next
  <2> QED BY <1>1, <2>1, StageFacts
<1> QED BY <1>3, <1>4, <1>5, <1>6 DEF OneInstruction

\* The latch of the checker is clear before a jump reaches the memory stage.
LEMMA LatchStep == ASSUME IInv, Next PROVE LatchIsClear'
<1> SUFFICES ASSUME mispredicted' PROVE ~IsJump(ex_mem'.i)
  BY DEF LatchIsClear, IsJump
<1>1. checker_mispredicted
  BY MissFacts, CycleFacts DEF Next
<1>2. flush
  BY <1>1, FlushFacts
<1>3. ~IsJump(ex_mem.i)
  BY <1>1 DEF IInv, LatchIsClear, OneInstruction, IsJump, checker_mispredicted
<1>4. ex_mem' \in {ex_mem, NopExMem}
  BY <1>2, MissFacts, CycleFacts DEF Next
<1> QED BY <1>3, <1>4, NopStages, Nops

\* How far the next instruction is from the memory stage.
LEMMA IdleStep == ASSUME IInv, Next PROVE idle' \in Nat /\ (idle + Coming <= 3)'
<1>1. idle \in Nat /\ idle + Coming <= 3
  BY DEF IInv, TypeOK
<1>2. CASE CacheMiss
  <2>1. /\ ex_mem' = ex_mem /\ idle' = idle
        /\ flush \/ (id_ex' = id_ex /\ if_id' = if_id)
    BY <1>2, MissFacts
  <2> QED BY <1>1, <2>1, FlushFacts DEF Coming
<1>3. CASE Cycle /\ ex_mem.n # Bubble
  BY <1>3, CycleFacts DEF Coming
<1>4. CASE Cycle /\ ex_mem.n = Bubble
  <2>1. ~flush /\ idle' = idle + 1
    BY <1>4, CycleFacts, FlushFacts
  <2>2. ex_mem'.n = id_ex.n
    BY <1>4, <2>1, CycleFacts, MovedFacts
  <2>3. CASE id_ex.n # Bubble
    BY <1>1, <1>4, <2>1, <2>2, <2>3 DEF Coming
  <2>4. CASE id_ex.n = Bubble
    <3>1. ~Waits
      BY <2>4, StageFacts, Nops DEF Waits, LoadUse, IInv, OneInstruction
    <3>2. id_ex'.n = if_id.n
      BY <1>4, <2>1, <3>1, CycleFacts, IdEx
    <3>3. if_id'.n # Bubble
      BY <1>4, <2>1, <3>1, CycleFacts, FetchFacts, Positions DEF IInv, TypeOK
    <3> QED BY <1>1, <1>4, <2>1, <2>2, <2>4, <3>2, <3>3 DEF Coming
  <2> QED BY <2>3, <2>4
<1> QED BY <1>2, <1>3, <1>4 DEF Next

----------------------------------------------------------------------------
(* Registers and operands. *)

\* The registers of the finished instructions change with an instruction that
\* finishes, and by its result only.
LEMMA ArchStep ==
    ASSUME IInv, Next
    PROVE  /\ data' \in [Reg -> Value] /\ data'[0] = 0
           /\ mem_wb' \in [rd : Reg, write_reg : BOOLEAN, v : Value]
           /\ CacheMiss => ArchRegs' = ArchRegs
           /\ Cycle => ArchRegs' = Written(ArchRegs, ex_mem.rd, ex_mem.v)
<1>1. ArchRegs \in [Reg -> Value] /\ ArchRegs[0] = 0 /\ data' = ArchRegs
  BY ArchTypes, MissFacts, CycleFacts DEF IInv, ArchRegs, Next
<1>2. CASE CacheMiss
  <2>1. mem_wb' = mem_wb
    BY <1>2, MissFacts
  <2>2. ArchRegs' = [r \in Reg |-> IF mem_wb.write_reg /\ r = mem_wb.rd /\ r # 0
                                   THEN mem_wb.v ELSE ArchRegs[r]]
    BY <1>1, <2>1 DEF ArchRegs, NextData
  <2>3. ArchRegs' = ArchRegs
    BY <2>2 DEF ArchRegs, NextData
  <2>4. mem_wb' \in [rd : Reg, write_reg : BOOLEAN, v : Value]
    BY <2>1 DEF IInv, TypeOK
  <2>5. Cycle => ArchRegs' = Written(ArchRegs, ex_mem.rd, ex_mem.v)
    <3> SUFFICES ASSUME Cycle PROVE ArchRegs' = Written(ArchRegs, ex_mem.rd, ex_mem.v)
      OBVIOUS
    <3>1. mem_wb = [rd |-> ex_mem.rd, write_reg |-> ex_mem.write_reg, v |-> ex_mem.v]
      BY <2>1, CycleFacts
    <3>2. ArchRegs' = [r \in Reg |-> IF r = ex_mem.rd /\ r # 0 THEN ex_mem.v ELSE ArchRegs[r]]
      BY <2>2, <3>1, StageFacts
    <3> QED BY <1>1, <3>2, StageFacts DEF Written
  <2> QED BY <1>1, <2>3, <2>4, <2>5
<1>3. CASE ~CacheMiss /\ Cycle
  <2>1. mem_wb' = [rd |-> ex_mem.rd, write_reg |-> ex_mem.write_reg, v |-> ex_mem.v]
    BY <1>3, CycleFacts
  <2>2. mem_wb' \in [rd : Reg, write_reg : BOOLEAN, v : Value]
    BY <2>1, StageFacts DEF IInv, TypeOK
  <2>3. ArchRegs' = [r \in Reg |-> IF ex_mem.write_reg /\ r = ex_mem.rd /\ r # 0
                                   THEN ex_mem.v ELSE ArchRegs[r]]
    BY <1>1, <2>1 DEF ArchRegs, NextData
  <2>4. ArchRegs' = Written(ArchRegs, ex_mem.rd, ex_mem.v)
    BY <1>1, <2>3, StageFacts DEF Written
  <2> QED BY <1>1, <1>3, <2>2, <2>4
<1> QED BY <1>2, <1>3 DEF Next

\* A register that the instruction in the memory stage does not write.
LEMMA WrittenFacts ==
    ASSUME NEW regs \in [Reg -> Value], NEW d \in Reg, NEW v \in Value, NEW r \in Reg
    PROVE  /\ r = 0 \/ r # d => Written(regs, d, v)[r] = regs[r]
           /\ r # 0 /\ r = d => Written(regs, d, v)[r] = v
BY DEF Written

\* What is read in the decode stage is current unless the instruction that leaves the
\* memory stage on the same edge writes it; that one is in the write-back stage then.
LEMMA ReadStep == ASSUME IInv, Next PROVE ReadIsCurrent'
<1>1. CASE id_ex' = NopIdEx
  <2>1. id_ex'.rs1 = 0 /\ id_ex'.rs2 = 0 /\ id_ex'.reg_1 = 0 /\ id_ex'.reg_2 = 0
    BY <1>1, NopStages
  <2>2. ArchRegs'[0] = 0
    BY ArchStep, RegAssumption DEF ArchRegs, NextData
  <2> QED BY <2>1, <2>2 DEF ReadIsCurrent
<1>2. CASE CacheMiss /\ id_ex' # NopIdEx
  BY <1>2, MissFacts, ArchStep DEF IInv, ReadIsCurrent
<1>3. CASE Cycle /\ id_ex' # NopIdEx
  <2> DEFINE r1 == Decoded(if_id.i).rs1
             r2 == Decoded(if_id.i).rs2
  <2>1. id_ex' = InIdEx(if_id.i, if_id.n, if_id.taken, if_id.pred, Read(r1), Read(r2))
    BY <1>3, CycleFacts
  <2>2. id_ex'.rs1 = r1 /\ id_ex'.rs2 = r2 /\ id_ex'.reg_1 = Read(r1) /\ id_ex'.reg_2 = Read(r2)
    BY <2>1, IdEx
  <2>3. r1 \in Reg /\ r2 \in Reg
    BY Decoding, StageFacts
  <2>4. Read(r1) = ArchRegs[r1] /\ Read(r2) = ArchRegs[r2]
    BY <2>3, ReadFacts DEF IInv
  <2>5. ArchRegs' = Written(ArchRegs, ex_mem.rd, ex_mem.v) /\ mem_wb'.rd = ex_mem.rd
    BY <1>3, ArchStep, CycleFacts
  <2>6. ArchRegs \in [Reg -> Value] /\ ex_mem.rd \in Reg /\ ex_mem.v \in Value
    BY ArchTypes, StageFacts DEF IInv, TypeOK
  <2> QED BY <2>2, <2>3, <2>4, <2>5, <2>6, WrittenFacts DEF ReadIsCurrent
<1> QED BY <1>1, <1>2, <1>3 DEF Next

\* The stall unit keeps the user of a load away from it.
LEMMA LoadStep == ASSUME IInv, Next PROVE LoadIsNotForwarded'
<1>1. CASE id_ex' = NopIdEx
  BY <1>1, NopStages DEF LoadIsNotForwarded
<1>2. CASE CacheMiss /\ id_ex' # NopIdEx
  BY <1>2, MissFacts DEF IInv, LoadIsNotForwarded
<1>3. CASE Cycle /\ id_ex' # NopIdEx
  <2> DEFINE d == Decoded(if_id.i)
  <2>1. /\ ~flush /\ ~Waits
        /\ id_ex' = InIdEx(if_id.i, if_id.n, if_id.taken, if_id.pred, Read(d.rs1), Read(d.rs2))
    BY <1>3, CycleFacts
  <2>2. id_ex'.rs1 = d.rs1 /\ id_ex'.rs2 = d.rs2
    BY <2>1, IdEx
  <2>3. ex_mem'.op = id_ex.op /\ ex_mem'.rd = id_ex.rd
    BY <1>3, <2>1, CycleFacts, MovedFacts
  <2>4. id_ex.op = "op_load" => id_ex.read_mem
    BY StageFacts, Decoding
  <2> QED BY <2>1, <2>2, <2>3, <2>4 DEF LoadIsNotForwarded, Waits, LoadUse
<1> QED BY <1>1, <1>2, <1>3 DEF Next

\* The forwarding unit gives an instruction the register its predecessors leave: the
\* newest of the two results on their way, or the value read.
LEMMA SourceFacts ==
    ASSUME IInv, ~flush, NEW r \in {id_ex.rs1, id_ex.rs2}, NEW own,
           mem_wb.rd # r \/ r = 0 => own = ArchRegs[r]
    PROVE  Selected(Source(r, ex_mem, mem_wb), own) = Written(ArchRegs, ex_mem.rd, ex_mem.v)[r]
<1>1. /\ ArchRegs \in [Reg -> Value] /\ ex_mem.rd \in Reg /\ ex_mem.v \in Value /\ r \in Reg
      /\ ex_mem.rd # 0 => ex_mem.write_reg
      /\ mem_wb.rd # 0 => mem_wb.write_reg
  BY ArchTypes, StageFacts DEF IInv, TypeOK, OneInstruction
<1>2. CASE r # 0 /\ r = ex_mem.rd
  <2>1. Source(r, ex_mem, mem_wb) = "ExMem"
    BY <1>1, <1>2 DEF Source, FromMemWb, FromExMem
  <2>2. ex_mem.op # "op_load"
    BY <1>2 DEF IInv, LoadIsNotForwarded
  <2> QED BY <1>1, <1>2, <2>1, <2>2, WrittenFacts DEF Selected, ExMemValue
<1>3. CASE r # 0 /\ r # ex_mem.rd /\ r = mem_wb.rd
  <2>1. Source(r, ex_mem, mem_wb) = "MemWb"
    BY <1>1, <1>3 DEF Source, FromMemWb
  <2>2. ArchRegs[r] = mem_wb.v
    BY <1>1, <1>3 DEF ArchRegs, NextData
  <2> QED BY <1>1, <1>3, <2>1, <2>2, WrittenFacts DEF Selected
<1>4. CASE r = 0 \/ (r # ex_mem.rd /\ r # mem_wb.rd)
  <2>1. Source(r, ex_mem, mem_wb) = "own"
    BY <1>4 DEF Source, FromMemWb, FromExMem
  <2> QED BY <1>1, <1>4, <2>1, WrittenFacts DEF Selected
<1> QED BY <1>2, <1>3, <1>4

\* What an instruction is executed with is what the sequential processor gives it.
LEMMA UsedFacts ==
    ASSUME IInv, ~flush
    PROVE  Used = Operands(id_ex.i, Written(ArchRegs, ex_mem.rd, ex_mem.v))
<1> DEFINE W == Written(ArchRegs, ex_mem.rd, ex_mem.v)
           i == id_ex.i
           a == W[i.rs1]
           b == W[i.rs2]
           Src(r) == Source(r, ex_mem, mem_wb)
<1>1. i \in InstrWord /\ id_ex.op = i.op
  BY StageFacts, Decoding
<1>2. /\ id_ex.rs1 = IF i.op \in {"op_jalr", "op_load", "op_imm", "op_reg", "op_br", "op_store"}
                     THEN i.rs1 ELSE 0
      /\ id_ex.rs2 = IF i.op \in {"op_reg", "op_br", "op_store"} THEN i.rs2 ELSE 0
  BY StageFacts DEF Decoded
<1>3. /\ Selected(Src(id_ex.rs1), id_ex.reg_1) = W[id_ex.rs1]
      /\ Selected(Src(id_ex.rs2), id_ex.reg_2) = W[id_ex.rs2]
  BY SourceFacts DEF IInv, ReadIsCurrent
<1>4. \A own : Selected("own", own) = own
  BY DEF Selected
<1>5. Src(0) = "own"
  BY DEF Source, FromMemWb, FromExMem
<1>6. i.op \in {"op_jalr", "op_load", "op_imm", "op_reg", "op_store"} => alumux1_out = a
  BY <1>1, <1>2, <1>3 DEF alumux1_out, alumux1_sel
<1>7. i.op \in {"op_auipc", "op_jal", "op_br"} => alumux1_out = Pc
  BY <1>1, <1>2, <1>4, <1>5 DEF alumux1_out, alumux1_sel
<1>8. i.op = "op_reg" => alumux2_out = b
  BY <1>1, <1>2, <1>3 DEF alumux2_out, alumux2_sel
<1>9. i.op \notin {"op_reg"} => alumux2_out = Imm
  BY <1>1, <1>2, <1>4, <1>5 DEF alumux2_out, alumux2_sel
<1>10. i.op \in {"op_br", "op_imm", "op_reg"} => cmpmux1_out = a
  BY <1>1, <1>2, <1>3 DEF cmpmux1_out, cmpmux1_sel
<1>11. i.op \in {"op_br", "op_reg"} => cmpmux2_out = b
  BY <1>1, <1>2, <1>3 DEF cmpmux2_out, cmpmux2_sel
<1>12. i.op = "op_imm" => cmpmux2_out = Imm
  BY <1>1, <1>2, <1>4, <1>5 DEF cmpmux2_out, cmpmux2_sel
<1>13. ASSUME i.op = "op_store" PROVE rs2passmux_out = b
  <2>1. mem_wb.rd # 0 => mem_wb.write_reg
    BY DEF IInv, OneInstruction
  <2>2. rs2passmux_sel(id_ex, ex_mem, mem_wb) = Src(id_ex.rs2)
    BY <1>1, <1>13, <2>1 DEF rs2passmux_sel, Source, FromMemWb, FromExMem
  <2> QED BY <1>1, <1>2, <1>3, <1>13, <2>2 DEF rs2passmux_out
<1> SUFFICES Used = Operands(i, W)
  OBVIOUS
<1> HIDE DEF W, Src
<1>14. i.op \in Opcode
  BY <1>1 DEF InstrWord
<1>15. CASE i.op = "op_lui"
  BY <1>1, <1>15 DEF Used, Operands
<1>16. CASE i.op \in {"op_auipc", "op_jal"}
  BY <1>1, <1>7, <1>9, <1>16 DEF Used, Operands
<1>17. CASE i.op \in {"op_jalr", "op_load"}
  BY <1>1, <1>6, <1>9, <1>17 DEF Used, Operands
<1>18. CASE i.op = "op_imm"
  BY <1>1, <1>6, <1>9, <1>10, <1>12, <1>18 DEF Used, Operands
<1>19. CASE i.op = "op_reg"
  BY <1>1, <1>6, <1>8, <1>10, <1>11, <1>19 DEF Used, Operands
<1>20. CASE i.op = "op_store"
  BY <1>1, <1>6, <1>9, <1>13, <1>20 DEF Used, Operands
<1>21. CASE i.op = "op_br"
  BY <1>1, <1>7, <1>9, <1>10, <1>11, <1>21 DEF Used, Operands
<1> QED BY <1>14, <1>15, <1>16, <1>17, <1>18, <1>19, <1>20, <1>21 DEF Opcode

\* The instruction that enters the memory stage was executed in order.
LEMMA ExecutedStep == ASSUME IInv, Next PROVE ExecutedInOrder'
<1>1. data'[0] = 0
  BY ArchStep
<1>2. ASSUME ex_mem'.n # Bubble PROVE ex_mem'.used = Operands(ex_mem'.i, ArchRegs')
  <2>1. CASE CacheMiss
    BY <1>2, <2>1, MissFacts, ArchStep DEF IInv, ExecutedInOrder
  <2>2. CASE Cycle
    <3>1. ~flush
      BY <1>2, <2>2, CycleFacts, NopStages
    <3>2. PICK v : ex_mem' = InExMem(id_ex, IF id_ex.n = Bubble THEN {} ELSE Used, v)
      BY <2>2, <3>1, CycleFacts
    <3>3. ex_mem'.n = id_ex.n /\ ex_mem'.i = id_ex.i
      BY <3>2, MovedFacts
    <3>4. ex_mem'.used = Used
      BY <1>2, <3>2, <3>3, MovedFacts
    <3> QED BY <2>2, <3>1, <3>3, <3>4, UsedFacts, ArchStep
  <2> QED BY <2>1, <2>2 DEF Next
<1> QED BY <1>1, <1>2 DEF ExecutedInOrder, Operands, ArchRegs, NextData

----------------------------------------------------------------------------
(* The inductive invariant and what follows from it. *)

\* The fetch multiplexer gives a position or the wrong path.
LEMMA FetchTarget == ASSUME NEW f PROVE pc_sel_out(f) \in Position \cup {WrongPath}
<1>1. \A n, ok : Step(n, ok) \in Position \cup {WrongPath}
  BY Positions DEF Step
<1> QED BY <1>1 DEF pc_sel_out, mispredicted_new_pc_p4, br_pred_pc, alu_out_mem, pcp4

\* The types after an edge; that no wrong path is in the memory stage comes from the
\* order.
LEMMA TypeStep == ASSUME IInv, Next, InOrder' PROVE TypeOK'
<1>1. /\ pc \in Position \cup {WrongPath} /\ committed \in Position
      /\ if_id.n \in Position \cup {WrongPath, Bubble}
      /\ id_ex.n \in Position \cup {WrongPath, Bubble}
      /\ ex_mem.n \in Position \cup {WrongPath, Bubble}
  BY DEF IInv, TypeOK
<1>2. /\ pc' \in Position \cup {WrongPath} /\ committed' \in Position
      /\ if_id'.n \in Position \cup {WrongPath, Bubble}
      /\ id_ex'.n \in Position \cup {WrongPath, Bubble}
      /\ ex_mem'.n \in Position \cup {WrongPath, Bubble}
      /\ lost' \in BOOLEAN
  <2>1. CASE CacheMiss
    BY <1>1, <2>1, MissFacts, NopStages
  <2>2. CASE Cycle
    <3>1. pc' \in Position \cup {WrongPath} /\ lost' \in BOOLEAN
      BY <1>1, <2>2, CycleFacts, FetchTarget
    <3>2. committed' \in Position
      BY <1>1, <2>2, CycleFacts, Positions
    <3>3. if_id'.n \in Position \cup {WrongPath, Bubble}
      BY <1>1, <2>2, CycleFacts, FetchFacts, NopStages
    <3>4. id_ex' = NopIdEx \/ \E a, b : id_ex' = InIdEx(if_id.i, if_id.n, if_id.taken, if_id.pred, a, b)
      BY <2>2, CycleFacts
    <3>5. id_ex'.n \in Position \cup {WrongPath, Bubble}
      BY <1>1, <3>4, IdEx, NopStages
    <3>6. ex_mem' = NopExMem \/ \E u, v : ex_mem' = InExMem(id_ex, u, v)
      BY <2>2, CycleFacts
    <3>7. ex_mem'.n \in Position \cup {WrongPath, Bubble}
      BY <1>1, <3>6, MovedFacts, NopStages
    <3> QED BY <3>1, <3>2, <3>3, <3>5, <3>7
  <2> QED BY <2>1, <2>2 DEF Next
<1>8. ex_mem'.n = WrongPath => lost'
  BY <1>2, Positions DEF InOrder
<1>3. /\ if_id'.i \in Instr \cup {Nop} /\ id_ex'.i \in Instr \cup {Nop}
      /\ ex_mem'.i \in Instr \cup {Nop}
  <2>1. if_id' \in {NopIfId, if_id} \/ if_id' \in Fetched
    BY MissFacts, CycleFacts DEF Next
  <2>2. if_id'.i \in Instr \cup {Nop}
    BY <2>1, NopStages, FetchFacts, StageFacts
  <2>3. \/ id_ex' \in {NopIdEx, id_ex}
        \/ \E a, b : id_ex' = InIdEx(if_id.i, if_id.n, if_id.taken, if_id.pred, a, b)
    BY MissFacts, CycleFacts DEF Next
  <2>4. id_ex'.i \in Instr \cup {Nop}
    BY <2>3, NopStages, IdEx, StageFacts
  <2>5. ex_mem' \in {NopExMem, ex_mem} \/ \E u, v : ex_mem' = InExMem(id_ex, u, v)
    BY MissFacts, CycleFacts DEF Next
  <2>6. ex_mem'.i \in Instr \cup {Nop}
    BY <2>5, NopStages, MovedFacts, StageFacts
  <2> QED BY <2>2, <2>4, <2>6
<1>4. {id_ex'.reg_1, id_ex'.reg_2} \subseteq Value
  <2>1. \/ id_ex' = NopIdEx
        \/ id_ex' = id_ex
        \/ id_ex' = InIdEx(if_id.i, if_id.n, if_id.taken, if_id.pred,
                           Read(Decoded(if_id.i).rs1), Read(Decoded(if_id.i).rs2))
    BY MissFacts, CycleFacts DEF Next
  <2>2. Read(Decoded(if_id.i).rs1) \in Value /\ Read(Decoded(if_id.i).rs2) \in Value
    BY StageFacts, Decoding, ReadFacts DEF IInv
  <2> QED BY <2>1, <2>2, NopStages, IdEx, ValueAssumption DEF IInv, TypeOK
<1>5. ex_mem'.v \in Value
  <2>1. \/ ex_mem' = NopExMem
        \/ ex_mem' = ex_mem
        \/ \E u : \E v \in Value : ex_mem' = InExMem(id_ex, u, v)
    BY MissFacts, CycleFacts, ValueAssumption DEF Next
  <2> QED BY <2>1, NopStages, MovedFacts, ValueAssumption DEF IInv, TypeOK
<1>6. mispredicted' \in BOOLEAN
  <2>1. mispredicted' = checker_mispredicted
    BY MissFacts, CycleFacts DEF Next
  <2> QED BY <2>1 DEF checker_mispredicted, IInv, TypeOK
<1>7. idle' \in Nat
  BY IdleStep
<1> QED BY <1>2, <1>3, <1>4, <1>5, <1>6, <1>7, <1>8, ArchStep DEF TypeOK

\* After reset the pipeline is empty and position 0 is fetched.
LEMMA InitIInv == Init => IInv
<1> SUFFICES ASSUME Init PROVE IInv
  OBVIOUS
<1>1. /\ pc = 0 /\ if_id = NopIfId /\ id_ex = NopIdEx /\ ex_mem = NopExMem
      /\ mem_wb = [rd |-> 0, write_reg |-> FALSE, v |-> 0] /\ data = [r \in Reg |-> 0]
      /\ mispredicted = FALSE /\ committed = 0 /\ idle = 0 /\ lost = FALSE
  BY DEF Init
<1>2. TypeOK
  BY <1>1, NopStages, Positions, RegAssumption, ValueAssumption DEF TypeOK
<1>3. InOrder
  BY <1>1, NopStages, Positions, BehindFacts DEF InOrder
<1>4. OneInstruction
  <2>1. Nop.op = "op_imm"
    BY DEF Nop
  <2>2. NopIfId = [i |-> NopIfId.i, n |-> NopIfId.n, taken |-> NopIfId.taken, pred |-> NopIfId.pred]
    BY DEF NopIfId
  <2> QED BY <1>1, <2>1, <2>2, NopStages DEF OneInstruction
<1>5. ArchRegs = [r \in Reg |-> 0]
  BY <1>1 DEF ArchRegs, NextData
<1>6. ReadIsCurrent /\ LoadIsNotForwarded /\ ExecutedInOrder /\ LatchIsClear
  BY <1>1, <1>5, NopStages, RegAssumption
     DEF ReadIsCurrent, LoadIsNotForwarded, ExecutedInOrder, LatchIsClear
<1>7. idle + Coming <= 3
  BY <1>1 DEF Coming
<1> QED BY <1>2, <1>3, <1>4, <1>6, <1>7 DEF IInv

\* The inductive invariant: order, one instruction to a stage, and each operand in a
\* register or one forward away.
THEOREM Inductive == Spec => []IInv
<1>1. IInv /\ [Next]_vars => IInv'
  <2> SUFFICES ASSUME IInv, [Next]_vars PROVE IInv'
    OBVIOUS
  <2>1. CASE Next
    BY <2>1, OrderStep, TypeStep, OneInstructionStep, ReadStep, LoadStep, ExecutedStep,
       LatchStep, IdleStep DEF IInv
  <2>2. CASE UNCHANGED vars
    BY <2>2 DEF vars, IInv, TypeOK, InOrder, Behind, Redirects, OneInstruction, ReadIsCurrent,
                ArchRegs, NextData, LoadIsNotForwarded, ExecutedInOrder, LatchIsClear, Coming
  <2> QED BY <2>1, <2>2
<1> QED BY <1>1, InitIInv, PTL DEF Spec

\* The registers of the pipeline keep their types, and no instruction of a wrong path is
\* in the memory stage before a redirection was lost.
THEOREM TypeCorrect == Spec => []TypeOK
<1>1. IInv => TypeOK
  BY DEF IInv
<1> QED BY <1>1, Inductive, PTL

\* The program never stops: not counting the cycles in which a cache does not answer, at
\* most three pass between an instruction finishing and the next.
THEOREM BoundedBubbles == Spec => []AtMostThreeIdle
<1>1. IInv => AtMostThreeIdle
  BY DEF IInv, TypeOK, Coming, AtMostThreeIdle
<1> QED BY <1>1, Inductive, PTL

\* One edge finishes at most one instruction, and it changes the registers as the
\* sequential processor does, on the program's path or not.
LEMMA ComputeStep ==
    ASSUME IInv, Next
    PROVE  IF committed' # committed
           THEN /\ Cycle /\ ex_mem.n # Bubble /\ committed' = After(committed)
                /\ ex_mem.used = Operands(ex_mem.i, ArchRegs)
                /\ ArchRegs' = Written(ArchRegs, Dest(ex_mem.i), ex_mem.v)
           ELSE ArchRegs' = ArchRegs
<1>1. CASE CacheMiss
  BY <1>1, MissFacts, ArchStep
<1>2. CASE Cycle /\ ex_mem.n = Bubble
  <2>1. ex_mem.rd = 0 /\ committed' = committed
    BY <1>2, StageFacts, CycleFacts, Nops DEF IInv, OneInstruction
  <2>2. ArchRegs' = ArchRegs
    BY <1>2, <2>1, ArchStep DEF Written
  <2> QED BY <2>1, <2>2
<1>3. CASE Cycle /\ ex_mem.n # Bubble
  <2>1. committed \in Position /\ ex_mem.used = Operands(ex_mem.i, ArchRegs)
    BY <1>3 DEF IInv, TypeOK, ExecutedInOrder
  <2>2. committed' = After(committed) /\ committed' # committed
    BY <1>3, <2>1, CycleFacts, Positions
  <2>3. ArchRegs' = Written(ArchRegs, Dest(ex_mem.i), ex_mem.v)
    BY <1>3, ArchStep, StageFacts
  <2> QED BY <1>3, <2>1, <2>2, <2>3
<1> QED BY <1>1, <1>2, <1>3 DEF Next

\* Until a redirection is lost it is the next instruction of the program.
LEMMA CommitStep ==
    ASSUME IInv, Next, ~lost
    PROVE  IF committed' # committed THEN Arch!Execute(ex_mem) ELSE UNCHANGED Arch!vars
<1>1. CASE committed' = committed
  BY <1>1, ComputeStep DEF Arch!vars
<1>2. CASE committed' # committed
  <2>1. /\ ex_mem.n # Bubble /\ committed' = After(committed)
        /\ ex_mem.used = Operands(ex_mem.i, ArchRegs)
        /\ ArchRegs' = Written(ArchRegs, Dest(ex_mem.i), ex_mem.v)
    BY <1>2, ComputeStep
  <2>2. ex_mem.n = committed
    BY <2>1 DEF IInv, InOrder
  <2>3. /\ Arch!Operands(ex_mem.i, ArchRegs) = Operands(ex_mem.i, ArchRegs)
        /\ Arch!Written(ArchRegs, Arch!Dest(ex_mem.i), ex_mem.v)
             = Written(ArchRegs, Dest(ex_mem.i), ex_mem.v)
        /\ Arch!After(committed) = After(committed)
    BY DEF Arch!Operands, Operands, Arch!Written, Written, Arch!Dest, Dest, Arch!After, After,
           Arch!Imm, Imm, Arch!Pc, Pc
  <2> QED BY <1>2, <2>1, <2>2, <2>3 DEF Arch!Execute
<1> QED BY <1>1, <1>2

\* Forwarding, bubbles and the register file give every instruction that finishes the
\* registers its predecessors in the pipeline left, for all programs, predictions and
\* cache misses, and whether or not a redirection was lost.
THEOREM PipelineComputes == Spec => ComputesSequentially
<1>1. IInv /\ [Next]_vars =>
        [IF committed' # committed
         THEN /\ ex_mem.used = Operands(ex_mem.i, ArchRegs)
              /\ ArchRegs' = Written(ArchRegs, Dest(ex_mem.i), ex_mem.v)
         ELSE ArchRegs' = ArchRegs]_vars
  BY ComputeStep
<1> QED BY <1>1, Inductive, PTL DEF Spec, ComputesSequentially

\* Until a redirection is lost, instructions also finish one at a time and in program
\* order: none is skipped, doubled or run from a wrong path.
THEOREM PipelineIsSequential == Spec => CommitsUntilLost
<1>1. Init => Arch!Init
  BY DEF Init, Arch!Init, ArchRegs, NextData
<1>2. IInv /\ [Next]_vars => [~lost => IF committed' # committed THEN Arch!Execute(ex_mem)
                                       ELSE UNCHANGED Arch!vars]_vars
  BY CommitStep
<1> QED BY <1>1, <1>2, Inductive, PTL DEF Spec, CommitsUntilLost

\* In particular the pipeline implements the sequential processor, whose instructions are
\* those that a fetch may return and whose results are values, in every behaviour in
\* which no redirection meets a program counter that a load's user holds.
THEOREM PipelineImplementsCpu == Spec /\ []~lost => Arch!Spec
<1>1. Init => Arch!Init
  BY DEF Init, Arch!Init, ArchRegs, NextData
<1>2. IInv /\ ~lost /\ [Next]_vars => [Arch!Next]_(Arch!vars)
  <2> SUFFICES ASSUME IInv, ~lost, [Next]_vars PROVE [Arch!Next]_(Arch!vars)
    OBVIOUS
  <2>1. CASE UNCHANGED vars
    BY <2>1 DEF vars, Arch!vars, ArchRegs, NextData
  <2>2. CASE Next /\ committed' = committed
    BY <2>2, CommitStep
  <2>3. CASE Next /\ committed' # committed
    <3> DEFINE i == ex_mem.i
               v == ex_mem.v
               c == [n |-> committed, i |-> i, used |-> Arch!Operands(i, ArchRegs), v |-> v]
    <3>1. Arch!Execute(ex_mem)
      BY <2>3, CommitStep
    <3>2. ex_mem.n # Bubble
      BY <2>3, MissFacts, CycleFacts DEF Next
    <3>3. i \in Instr /\ v \in Value
      BY <3>2 DEF IInv, OneInstruction, TypeOK
    <3>4. c.n = committed /\ c.i = i /\ c.used = Arch!Operands(i, ArchRegs) /\ c.v = v
      OBVIOUS
    <3>5. Arch!Execute(c)
      BY <3>1, <3>4 DEF Arch!Execute
    <3> QED BY <3>3, <3>5 DEF Arch!Next
  <2> QED BY <2>1, <2>2, <2>3
<1> QED BY <1>1, <1>2, Inductive, PTL DEF Spec, Arch!Spec
=============================================================================
