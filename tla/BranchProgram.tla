---------------------------- MODULE BranchProgram ----------------------------
(* The benchmark comp1.c: three loops over all bytes that run branches whose     *)
(* outcomes are independent, or imply one another, and compare the result with a *)
(* closed formula; then a doubly recursive function.  What the branches compute  *)
(* is the benchmark's own check of the processor.                                *)
EXTENDS Integers, Sequences, FiniteSetsExt

VARIABLES phase,    \* the test that runs
          test,     \* its unsigned char
          frames,   \* the calls of fib that are still to be made
          error,
          status1   \* register s10

comp1Vars == <<phase, test, frames, error, status1>>

\* An unsigned char as the set of its bits, and back.
Byte == 0..7
Bits(v) == {b \in Byte : (v \div 2^b) % 2 = 1}
ValueOf(bits) == MapThenSumSet(LAMBDA b : 2^b, bits)

\* One branch per bit.
uncorrelated_branches_kernel(v) ==
    ValueOf(UNION {IF b \in Bits(v) THEN {b} ELSE {} : b \in Byte})

\* One branch per prefix of bits: each is taken only if the one before is.
correlated_branches_kernel(v) ==
    ValueOf(UNION {IF (0..b) \subseteq Bits(v) THEN 0..b ELSE {} : b \in Byte})

\* ~test & (test + 1), less one, in an unsigned char: the ones at the low end.
golden(v) == (ValueOf((Byte \ Bits(v)) \cap Bits(v + 1)) - 1) % 256

Mismatch ==
    \/ phase \in {"uncorrelated", "mixed"} /\ uncorrelated_branches_kernel(test) # test
    \/ phase \in {"correlated", "mixed"} /\ correlated_branches_kernel(test) # golden(test)

\* A slip: the bound is 255 included, which an unsigned char never exceeds.
InLoop_inclusive == test <= 255
InLoop == test < 255

After(p) == CASE p = "uncorrelated" -> "correlated"
              [] p = "correlated" -> "mixed"
              [] p = "mixed" -> "call"

Looping == phase \in {"uncorrelated", "correlated", "mixed"}

Comp1Init ==
    /\ phase = "uncorrelated"
    /\ test = 0
    /\ frames = <<12>>
    /\ error = FALSE
    /\ status1 = "DEFFDEFF"

TestPasses ==
    /\ Looping /\ InLoop /\ ~Mismatch
    /\ test' = (test + 1) % 256
    /\ UNCHANGED <<phase, frames, error, status1>>

\* The end of a loop, or its early return with 1.
TestReturns ==
    /\ Looping /\ (InLoop => Mismatch)
    /\ phase' = After(phase)
    /\ test' = 0
    /\ error' = (error \/ InLoop)
    /\ UNCHANGED <<frames, status1>>

\* The value of fib is dropped by its caller: what is left of it are the calls.
fib ==
    /\ phase = "call" /\ frames # <<>>
    /\ LET n == Head(frames) IN
         frames' = IF n <= 1 THEN Tail(frames) ELSE <<n - 1, n - 2>> \o Tail(frames)
    /\ UNCHANGED <<phase, test, error, status1>>

ReportStatus ==
    /\ phase = "call" /\ frames = <<>>
    /\ phase' = "done"
    /\ status1' = IF error THEN "00BADBAD" ELSE "600D600D"
    /\ UNCHANGED <<test, frames, error>>

Comp1Next == TestPasses \/ TestReturns \/ fib \/ ReportStatus
=============================================================================
