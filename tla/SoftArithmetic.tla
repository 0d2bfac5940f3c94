---------------------------- MODULE SoftArithmetic ----------------------------
(* The arithmetic comp2.c brings along for a processor without multiplier and    *)
(* divider: the compiler calls these functions for *, / and %.  A word has W      *)
(* bits; signed values are in two's complement, and wrap when negated as the      *)
(* compiled code does.                                                            *)
EXTENDS Integers

CONSTANT W

\* The width of a word.  Of powers of two only the laws below are used.
ASSUME WordAssumption ==
    /\ W \in Nat \ {0}
    /\ 2^(W - 1) \in Nat \ {0} /\ 2^W = 2 * 2^(W - 1)

ASSUME PowersAssumption ==
    2^0 = 1 /\ \A j \in 0..(W - 1) : 2^j \in Nat \ {0} /\ 2^(j + 1) = 2 * 2^j /\ 2^j < 2^W

VARIABLES call,                \* the function called and its arguments
          at,                  \* the loop it is in
          neg,                 \* whether the result is negated
          num, den, bit, res,  \* the variables of __udivmodsi4; of __muldi3 a, b and r
          value                \* the result

arithVars == <<call, at, neg, num, den, bit, res, value>>

Word == 0..(2^W - 1)
Function == {"__udivsi3", "__umodsi3", "__divsi3", "__modsi3", "__muldi3"}
NoCall == [f |-> "none", a |-> 0, b |-> 0]

Negative(x) == x >= 2^(W - 1)
Signed(x) == IF Negative(x) THEN x - 2^W ELSE x
Negated(x) == (2^W - x) % 2^W
Abs(x) == IF x < 0 THEN -x ELSE x
Magnitude(x) == IF Negative(x) THEN Negated(x) ELSE x

ArithInit ==
    /\ call = NoCall /\ at = "idle" /\ neg = FALSE
    /\ num = 0 /\ den = 0 /\ bit = 0 /\ res = 0 /\ value = 0

\* The entry of each function, up to the first loop.
Call(f, a, b) ==
    /\ at = "idle"
    /\ call' = [f |-> f, a |-> a, b |-> b]
    /\ at' = IF f = "__muldi3" THEN "multiply" ELSE "shift"
    /\ neg' = \/ f = "__divsi3" /\ Negative(a) # Negative(b)
              \/ f = "__modsi3" /\ Negative(a)
    /\ num' = IF f \in {"__divsi3", "__modsi3"} THEN Magnitude(a) ELSE a
    /\ den' = IF f \in {"__divsi3", "__modsi3"} THEN Magnitude(b) ELSE b
    /\ bit' = 1
    /\ res' = 0
    /\ UNCHANGED value

\* A slip: the divisor is shifted although its top bit is set.
ShiftOn_top == den < num /\ bit # 0
ShiftOn == den < num /\ bit # 0 /\ ~Negative(den)

ShiftUp ==
    /\ at = "shift" /\ ShiftOn
    /\ den' = (2 * den) % 2^W
    /\ bit' = (2 * bit) % 2^W
    /\ UNCHANGED <<call, at, neg, num, res, value>>

Subtract ==
    /\ \/ at = "shift" /\ ~ShiftOn
       \/ at = "subtract"
    /\ bit # 0
    /\ IF num >= den THEN num' = num - den /\ res' = res + bit
                     ELSE UNCHANGED <<num, res>>
    /\ bit' = bit \div 2
    /\ den' = den \div 2
    /\ at' = "subtract"
    /\ UNCHANGED <<call, neg, value>>

DivReturn ==
    /\ at \in {"shift", "subtract"} /\ bit = 0
    /\ LET r == IF call.f \in {"__umodsi3", "__modsi3"} THEN num ELSE res IN
         value' = IF neg THEN Negated(r) ELSE r
    /\ at' = "returned"
    /\ UNCHANGED <<call, neg, num, den, bit, res>>

MulStep ==
    /\ at = "multiply" /\ num # 0
    /\ res' = IF num % 2 = 1 THEN (res + den) % 2^W ELSE res
    /\ num' = num \div 2
    /\ den' = (2 * den) % 2^W
    /\ UNCHANGED <<call, at, neg, bit, value>>

MulReturn ==
    /\ at = "multiply" /\ num = 0
    /\ value' = res
    /\ at' = "returned"
    /\ UNCHANGED <<call, neg, num, den, bit, res>>

ArithNext ==
    \/ \E f \in Function, a, b \in Word : Call(f, a, b)
    \/ ShiftUp \/ Subtract \/ DivReturn \/ MulStep \/ MulReturn

\* What C asks of / and % on signed words: the remainder is smaller than the
\* divisor and has the sign of the dividend.
IsRemainder(r, a, b) == Abs(r) < Abs(b) /\ r * a >= 0

(* Every result is the one the C operator has, for every pair of words with a     *)
(* divisor that is not 0 (and the quotient of the least word by -1 wraps): the    *)
(* shifts of comp2.c lines 124-138 lose no bit at the top of the word, and the    *)
(* signs of lines 149-164 and 175-187 come out right for the least word too.      *)
ArithmeticIsExact ==
    at = "returned" =>
      LET a == call.a  b == call.b  sa == Signed(a)  sb == Signed(b)  sv == Signed(value) IN
      /\ call.f = "__muldi3" => value = (a * b) % 2^W
      /\ call.f = "__udivsi3" /\ b # 0 => value = a \div b
      /\ call.f = "__umodsi3" /\ b # 0 => value = a % b
      /\ call.f = "__divsi3" /\ b # 0 =>
           IF sb = -1 THEN value = Negated(a) ELSE IsRemainder(sa - sv * sb, sa, sb)
      /\ call.f = "__modsi3" /\ b # 0 =>
           (sa - sv) % Abs(sb) = 0 /\ IsRemainder(sv, sa, sb)

(* The inductive invariant behind it.                                             *)

IsSigned == call.f \in {"__divsi3", "__modsi3"}
Dividend == IF IsSigned THEN Magnitude(call.a) ELSE call.a
Divisor  == IF IsSigned THEN Magnitude(call.b) ELSE call.b

\* Every divisor of a power of two but 1 is even.
PowerOfTwo(x) == x # 0 /\ \A d, e \in 1..x : d * e = x => d = 1 \/ d % 2 = 0

\* What the variables hold between two steps.
ArithTypeOK ==
    /\ at \in {"idle", "shift", "subtract", "multiply", "returned"}
    /\ at = "idle" \/ call \in [f : Function, a : Word, b : Word]
    /\ {num, den, bit, res} \subseteq Nat

\* The loops of __udivmodsi4: den is the divisor times bit, no bit of either is lost
\* on the way up, and what is left of num is less than the next two quotient digits.
Dividing ==
    at \in {"shift", "subtract"} =>
      /\ call.f # "__muldi3"
      /\ neg = (\/ call.f = "__divsi3" /\ Negative(call.a) # Negative(call.b)
                \/ call.f = "__modsi3" /\ Negative(call.a))
      /\ Divisor # 0 =>
           /\ Dividend = num + Divisor * res
           /\ at = "shift" => bit # 0 /\ res = 0 /\ den \in Word
           /\ bit # 0 => PowerOfTwo(bit) /\ den = Divisor * bit
           /\ at = "subtract" => num < (IF bit = 0 THEN Divisor ELSE 2 * den)

\* The loop of __muldi3: what is still to be added makes up the product.
Multiplying ==
    at = "multiply" =>
      /\ call.f = "__muldi3"
      /\ den \in Word /\ res \in Word
      /\ (res + num * den) % 2^W = (call.a * call.b) % 2^W

ArithIInv == ArithTypeOK /\ Dividing /\ Multiplying /\ ArithmeticIsExact
=============================================================================
