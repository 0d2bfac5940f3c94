--------------------------- MODULE SequentialCpu ---------------------------
(***************************************************************************)
(* What a processor promises its programs: instructions take effect one at *)
(* a time, in program order, each reading the registers its predecessors   *)
(* left.  Program order is a count modulo Window; an instruction's result  *)
(* is any value (the arithmetic is not the pipeline's concern).            *)
(***************************************************************************)
EXTENDS Isa

CONSTANT Window    \* positions in program order are counted modulo Window

VARIABLES
    regs,          \* the architectural registers
    next           \* position of the next instruction to take effect

vars == <<regs, next>>

Position == 0 .. Window - 1

After(n) == (n + 1) % Window

\* c is an instruction taking effect: its position, the instruction, what
\* its units were given and its result.
Execute(c) ==
    /\ c.n = next
    /\ c.used = Operands(c.i, regs)
    /\ next' = After(next)
    /\ regs' = Written(regs, Dest(c.i), c.v)

Init ==
    /\ regs = [r \in Reg |-> 0]
    /\ next = 0

Next == \E i \in Instr, v \in Value :
            Execute([n |-> next, i |-> i, used |-> Operands(i, regs), v |-> v])

Spec == Init /\ [][Next]_vars
=============================================================================
