CONSTANTS
    Reg = {0, 1, 2}
    Value = {0, 1}
    Window = 6
    Instr <- MCInstr
SPECIFICATION Spec
INVARIANTS TypeOK AtMostThreeIdle
PROPERTIES CommitsUntilLost ComputesSequentially
