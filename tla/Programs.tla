------------------------------- MODULE Programs -------------------------------
(* The C code of the repository, one program per behaviour: the three benchmarks,   *)
(* which leave their verdict in register s10 and then loop for ever, a call of one  *)
(* of the arithmetic functions, an arbitrary feed, and a stub of the simulator.     *)
EXTENDS BranchProgram, SoftArithmetic, LcmProgram, FeedProgram, PliStub

VARIABLE running

vars == <<running, comp1Vars, arithVars, comp2Vars, comp3Vars, stubVars>>

Benchmark == {"comp1", "comp2", "comp3"}

Init ==
    /\ running \in Benchmark \cup {"arithmetic", "feed", "stub"}
    /\ Comp1Init /\ ArithInit /\ Comp2Init /\ Comp3Init /\ StubInit

Comp1 == running = "comp1" /\ Comp1Next /\ UNCHANGED <<running, arithVars, comp2Vars, comp3Vars, stubVars>>
Comp2 == running = "comp2" /\ Comp2Next /\ UNCHANGED <<running, comp1Vars, arithVars, comp3Vars, stubVars>>
Comp3 == running = "comp3" /\ Comp3Next /\ UNCHANGED <<running, comp1Vars, arithVars, comp2Vars, stubVars>>
Arithmetic == running = "arithmetic" /\ ArithNext /\ UNCHANGED <<running, comp1Vars, comp2Vars, comp3Vars, stubVars>>
Feed == running = "feed" /\ FeedNext /\ UNCHANGED <<running, comp1Vars, arithVars, comp2Vars, stubVars>>
Stub == running = "stub" /\ StubNext /\ UNCHANGED <<running, comp1Vars, arithVars, comp2Vars, comp3Vars>>

\* The register s10 when a benchmark ends, and its value until then.
s10 == CASE running = "comp1" -> status1
         [] running = "comp2" -> status2
         [] running = "comp3" -> status3

Ended ==
    CASE running = "comp1" -> phase = "done"
      [] running = "comp2" -> status2 # "DEFFDEFF"
      [] running = "comp3" -> message_start = End /\ status3 # "FEFEFEFE"
      [] OTHER -> at = "returned"

Next == Comp1 \/ Comp2 \/ Comp3 \/ Arithmetic \/ Feed \/ Stub

Spec == Init /\ [][Next]_vars /\ WF_vars(Comp1 \/ Comp2 \/ Comp3 \/ Arithmetic)

(* A benchmark that ends on a correct processor ends with 600D600D in s10: the        *)
(* closed formula of comp1.c line 172 is what the branches compute for every byte,    *)
(* EXPECTED of comp2.c line 36 is the sum although every multiple passes through an   *)
(* int (line 113), and no message of comp3_data.h is too risky.                       *)
StatusIsGood == running \in Benchmark /\ Ended => s10 = "600D600D"

(* The benchmarks end and the arithmetic functions return, for all arguments: no loop *)
(* counter wraps around its bound (comp1.c line 154) and the division leaves its      *)
(* loops for the divisor 0 too (comp2.c line 124).                                    *)
ProgramsEnd == running \in Benchmark \cup {"arithmetic"} => <>Ended
=============================================================================
