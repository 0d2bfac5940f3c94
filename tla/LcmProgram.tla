------------------------------ MODULE LcmProgram ------------------------------
(* The benchmark comp2.c: a square of pseudo-random numbers, the least common     *)
(* multiple of each row, and a weighted sum compared with a known value.  The     *)
(* operators / and % stand for the functions of SoftArithmetic.  A long long is a *)
(* pair of limbs in base 2^20, because the sum has 37 bits.                       *)
EXTENDS Integers, Sequences

VARIABLES nums,     \* the square, row by row
          col,      \* i in iter
          curr,     \* curr in iter
          lcms,
          sum,
          status2   \* register s10

comp2Vars == <<nums, col, curr, lcms, sum, status2>>

N == 12
M == 7
INC == 29
MOD == 41
Base == 2^20
\* 77385916320 = 73800 * 2^20 + 1007520
EXPECTED == <<73800, 1007520>>

\* Arithmetic on long long.
Carry(hi, lo) == <<hi + lo \div Base, lo % Base>>
Plus(x, y) == Carry(x[1] + y[1], x[2] + y[2])
Product(a, k) == Carry((a \div Base) * k, (a % Base) * k)
Times(k, x) == Carry(k * x[1], k * x[2])

\* The low 32 bits of a long long as an int: what an int parameter receives.
AsInt(x) == LET hi == x[1] % 2^12 IN
            (IF hi >= 2^11 THEN hi - 2^12 ELSE hi) * Base + x[2]

Euclid[a \in Nat, b \in Nat] == IF a # 0 /\ b # 0 THEN Euclid[b, a % b] ELSE a + b
gcd(a, b) == IF a = 0 /\ b = 0 THEN 1
             ELSE IF a < b THEN Euclid[b, a] ELSE Euclid[a, b]

\* A slip: the product is taken in an int.
lcm_narrow(a, b) == LET p == AsInt(Product(a, b \div gcd(a, b))) IN <<p \div Base, p % Base>>
lcm(a, b) == Product(a, b \div gcd(a, b))

Comp2Init ==
    /\ nums = <<60>>
    /\ col = 0
    /\ curr = <<0, 0>>
    /\ lcms = <<>>
    /\ sum = [k |-> 0, total |-> <<0, 0>>]
    /\ status2 = "DEFFDEFF"

Generate ==
    /\ Len(nums) < N * N
    /\ nums' = Append(nums, (M * nums[Len(nums)] + INC) % MOD)
    /\ UNCHANGED <<col, curr, lcms, sum, status2>>

\* iter: curr is passed to the int parameter of lcm.
iter ==
    /\ Len(nums) = N * N /\ Len(lcms) < N /\ col < N
    /\ LET x == nums[Len(lcms) * N + col + 1] IN
         curr' = IF col = 0 THEN Product(x, 1) ELSE lcm(AsInt(curr), x)
    /\ col' = col + 1
    /\ UNCHANGED <<nums, lcms, sum, status2>>

IterReturns ==
    /\ col = N
    /\ lcms' = Append(lcms, curr)
    /\ col' = 0
    /\ UNCHANGED <<nums, curr, sum, status2>>

Accumulate ==
    /\ Len(lcms) = N /\ sum.k < N
    /\ sum' = [k |-> sum.k + 1, total |-> Plus(sum.total, Times(sum.k + 1, lcms[sum.k + 1]))]
    /\ UNCHANGED <<nums, col, curr, lcms, status2>>

CompareSum ==
    /\ sum.k = N /\ status2 = "DEFFDEFF"
    /\ status2' = IF sum.total = EXPECTED THEN "600D600D" ELSE "0BADC0DE"
    /\ UNCHANGED <<nums, col, curr, lcms, sum>>

Comp2Next == Generate \/ iter \/ IterReturns \/ Accumulate \/ CompareSum
=============================================================================
