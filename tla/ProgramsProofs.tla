---------------------------- MODULE ProgramsProofs ----------------------------
(***************************************************************************)
(* The arithmetic of comp2.c is exact for words of every width and its     *)
(* loops end, and comp3.c accounts for every feed of messages with one of  *)
(* the two sides and a price below 2^28, without an overflow.              *)
(***************************************************************************)
EXTENDS Programs, FiniteSetTheorems, TLAPS

-----------------------------------------------------------------------------
(* Division and powers of two.                                             *)

\* A quotient and a remainder below the divisor are the quotient and the remainder.
LEMMA Quotient ==
    ASSUME NEW n \in Nat, NEW d \in Nat, NEW q \in Nat, NEW r \in Nat, r < d, n = r + d * q
    PROVE  n \div d = q /\ n % d = r
OBVIOUS

\* The same of a number that may be negative.
LEMMA Remainder ==
    ASSUME NEW n \in Int, NEW d \in Nat, NEW q \in Int, NEW r \in Nat, r < d, n = r + d * q
    PROVE  n % d = r
OBVIOUS

\* Every number has a quotient and a remainder.
LEMMA DivMod ==
    ASSUME NEW n \in Int, NEW d \in Nat \ {0}
    PROVE  n = (n % d) + d * (n \div d) /\ n % d \in 0 .. (d - 1) /\ n \div d \in Int
OBVIOUS

\* Numbers that differ by a multiple of m have the same remainder.
LEMMA Congruent ==
    ASSUME NEW m \in Nat \ {0}, NEW x \in Int, NEW y \in Int, NEW k \in Int, y = x + m * k
    PROVE  y % m = x % m
<1>1. PICK q, r \in Int : x = r + m * q /\ r \in 0 .. (m - 1)
  <2>1. x = (x % m) + m * (x \div m) /\ x % m \in 0 .. (m - 1) /\ x \div m \in Int /\ x % m \in Int
    BY DivMod
  <2> QED BY <2>1, Zenon
<1>2. y = r + m * (q + k) /\ q + k \in Int
  BY <1>1
<1>3. r \in Nat /\ r < m /\ m \in Nat
  BY <1>1
<1>4. x % m = r
  BY <1>1, <1>3, Remainder
<1>5. y % m = r
  BY <1>2, <1>3, Remainder
<1> QED BY <1>4, <1>5

\* Taking one binary digit b off a factor.
LEMMA OneDigit ==
    ASSUME NEW m \in Int, NEW n \in Int, NEW d \in Int, NEW r \in Int, NEW s \in Int, NEW c \in Int,
           NEW t \in Int, NEW b \in Int, NEW i \in Int, NEW j \in Int,
           n = 2 * s + b, 2 * d = c + m * i, r + b * d = t + m * j
    PROVE  r + n * d = (t + s * c) + m * (j + s * i)
<1>1. n * d = s * (2 * d) + b * d
  OBVIOUS
<1>2. s * (c + m * i) = s * c + m * (s * i)
  OBVIOUS
<1>3. m * (j + s * i) = m * j + m * (s * i)
  OBVIOUS
<1> QED BY <1>1, <1>2, <1>3

\* A step of multiplication by shifting and adding, modulo m.
LEMMA ShiftAndAdd ==
    ASSUME NEW m \in Nat \ {0}, NEW n \in Nat, NEW d \in Nat, NEW r \in Nat
    PROVE  /\ n % 2 = 1 => (((r + d) % m) + (n \div 2) * ((2 * d) % m)) % m = (r + n * d) % m
           /\ n % 2 # 1 => (r + (n \div 2) * ((2 * d) % m)) % m = (r + n * d) % m
<1> DEFINE t == IF n % 2 = 1 THEN (r + d) % m ELSE r
           s == n \div 2
           c == (2 * d) % m
<1>0. \A z \in Int : z = (z % m) + m * (z \div m) /\ z % m \in Int /\ z \div m \in Int
  BY DivMod
<1>1. PICK i \in Int : c \in Int /\ 2 * d = c + m * i
  <2>1. 2 * d \in Int
    OBVIOUS
  <2> QED BY <1>0, <2>1, Zenon
<1>2. PICK b \in Nat : s \in Nat /\ b = n % 2 /\ n = 2 * s + b /\ b \in {0, 1}
  OBVIOUS
<1>3. PICK j \in Int : r + b * d = t + m * j /\ t \in Int
  <2>1. CASE b = 1
    <3>1. r + d \in Int
      OBVIOUS
    <3>2. t = (r + d) % m /\ b * d = d
      BY <1>2, <2>1
    <3> QED BY <1>0, <3>1, <3>2, Zenon
  <2>2. CASE b = 0
    <3>1. t = r
      BY <1>2, <2>2
    <3>2. r + b * d = r + m * 0 /\ r \in Int /\ 0 \in Int
      BY <2>2
    <3> QED BY <3>1, <3>2, Zenon
  <2> QED BY <1>2, <2>1, <2>2
<1> HIDE DEF t, s, c
<1>4. r + n * d = (t + s * c) + m * (j + s * i)
  BY <1>1, <1>2, <1>3, OneDigit
<1>5. t + s * c \in Int /\ r + n * d \in Int /\ j + s * i \in Int
  BY <1>1, <1>2, <1>3
<1>6. (r + n * d) % m = (t + s * c) % m
  <2>1. \A x, y, k \in Int : y = x + m * k => y % m = x % m
    BY Congruent
  <2> QED BY <1>4, <1>5, <2>1, Zenon
<1> QED BY <1>6 DEF t, s, c

\* The product of odd numbers is odd.
LEMMA OddTimesOdd ==
    ASSUME NEW d \in Nat, NEW e \in Nat, d % 2 = 1, e % 2 = 1
    PROVE  (d * e) % 2 = 1
<1>1. PICK i \in Nat : d = 2 * i + 1
  <2>1. d \div 2 \in Nat /\ d = 2 * (d \div 2) + 1
    OBVIOUS
  <2> QED BY <2>1
<1>2. PICK j \in Nat : e = 2 * j + 1
  <2>1. e \div 2 \in Nat /\ e = 2 * (e \div 2) + 1
    OBVIOUS
  <2> QED BY <2>1
<1>3. d * e = 2 * (i * e + j) + 1 /\ i * e + j \in Nat
  BY <1>1, <1>2
<1>4. \A k \in Nat : (2 * k + 1) % 2 = 1
  OBVIOUS
<1> QED BY <1>3, <1>4

\* A factor of a number that is not 0 is at most the number.
LEMMA Factor ==
    ASSUME NEW d \in Nat, NEW e \in Nat, NEW x \in Nat \ {0}, d * e = x
    PROVE  d \in 1 .. x /\ e \in 1 .. x
<1>1. d # 0 /\ e # 0
  OBVIOUS
<1>2. d * e >= d /\ d * e >= e
  BY <1>1
<1> QED BY <1>1, <1>2

\* Twice a power of two is one (den <<= 1, bit <<= 1 of the first loop).
LEMMA Doubled ==
    ASSUME NEW x \in Nat, PowerOfTwo(x)
    PROVE  PowerOfTwo(2 * x)
<1>1. x # 0 /\ 2 * x # 0
  BY DEF PowerOfTwo
<1>2. ASSUME NEW d \in 1 .. 2 * x, NEW e \in 1 .. 2 * x, d * e = 2 * x, d % 2 # 0 PROVE d = 1
  <2>1. d \in Nat /\ e \in Nat /\ d % 2 = 1
    BY <1>2
  <2>2. e % 2 # 1
    BY <1>2, <2>1, OddTimesOdd
  <2>3. PICK f \in Nat : e = 2 * f
    <3>1. e \div 2 \in Nat /\ e = 2 * (e \div 2)
      BY <2>1, <2>2
    <3> QED BY <3>1
  <2>4. d * f = x
    BY <1>2, <2>1, <2>3
  <2>5. d \in 1 .. x /\ f \in 1 .. x
    BY <1>1, <2>1, <2>3, <2>4, Factor
  <2> QED BY <2>1, <2>4, <2>5 DEF PowerOfTwo
<1> QED BY <1>1, <1>2 DEF PowerOfTwo

\* A power of two is 1 or twice a power of two (the shifts of the second loop).
LEMMA Halved ==
    ASSUME NEW x \in Nat, PowerOfTwo(x), x # 1
    PROVE  x = 2 * (x \div 2) /\ PowerOfTwo(x \div 2)
<1>1. x # 0 /\ x * 1 = x /\ x \in 1 .. x /\ 1 \in 1 .. x
  BY DEF PowerOfTwo
<1>2. x % 2 = 0
  BY <1>1 DEF PowerOfTwo
<1>3. PICK y \in Nat : y = x \div 2 /\ x = 2 * y /\ y # 0
  BY <1>1, <1>2
<1>4. ASSUME NEW d \in 1 .. y, NEW e \in 1 .. y, d * e = y PROVE d = 1 \/ d % 2 = 0
  <2>1. d \in Nat /\ 2 * e \in Nat /\ d * (2 * e) = x
    BY <1>3, <1>4
  <2>2. d \in 1 .. x /\ 2 * e \in 1 .. x
    BY <1>1, <2>1, Factor
  <2> QED BY <2>1, <2>2 DEF PowerOfTwo
<1> QED BY <1>3, <1>4 DEF PowerOfTwo

-----------------------------------------------------------------------------
(* Words and their signs.                                                  *)

\* A word is its magnitude and its sign.
LEMMA Signs ==
    ASSUME NEW x \in Word
    PROVE  /\ Magnitude(x) \in 0 .. 2^(W - 1)
           /\ (Magnitude(x) = 0 <=> x = 0)
           /\ Signed(x) = IF Negative(x) THEN - Magnitude(x) ELSE Magnitude(x)
           /\ Abs(Signed(x)) = Magnitude(x)
           /\ ~Negative(x) => Magnitude(x) = x /\ x < 2^(W - 1)
           /\ Negative(x) => Negated(x) = Magnitude(x) /\ x # 0
BY WordAssumption DEF Word, Magnitude, Negative, Negated, Signed, Abs

\* Negating a magnitude gives the word of the negative number; a magnitude that is
\* not the largest is the word of itself.
LEMMA Results ==
    ASSUME NEW r \in 0 .. 2^(W - 1)
    PROVE  /\ Signed(Negated(r)) = - r
           /\ r < 2^(W - 1) => Signed(r) = r
BY WordAssumption DEF Word, Negative, Negated, Signed

\* A remainder with the sign of the dividend.
LEMMA SignedRemainder ==
    ASSUME NEW a \in Word, NEW b \in Word, NEW r \in Nat, r < Magnitude(b)
    PROVE  IsRemainder(IF Negative(a) THEN - r ELSE r, Signed(a), Signed(b))
<1> DEFINE A == Magnitude(a)
<1>1. A \in Nat /\ Signed(a) = IF Negative(a) THEN - A ELSE A
  BY Signs, WordAssumption
<1>2. Abs(IF Negative(a) THEN - r ELSE r) < Abs(Signed(b))
  BY Signs DEF Abs
<1>3. \A x \in Nat : r * x >= 0 /\ (- r) * (- x) >= 0
  OBVIOUS
<1>4. (IF Negative(a) THEN - r ELSE r) * Signed(a) >= 0
  <2>1. CASE Negative(a)
    BY <1>1, <1>3, <2>1
  <2>2. CASE ~Negative(a)
    BY <1>1, <1>3, <2>2
  <2> QED BY <2>1, <2>2
<1> QED BY <1>2, <1>4 DEF IsRemainder

\* __divsi3 (comp2.c lines 149-164): the quotient of the magnitudes with the sign
\* put on is the quotient of the signed words.
LEMMA SignedQuotient ==
    ASSUME NEW a \in Word, NEW b \in Word, b # 0, NEW q \in Nat, NEW r \in Nat,
           Magnitude(a) = r + Magnitude(b) * q, r < Magnitude(b),
           NEW v, v = IF Negative(a) # Negative(b) THEN Negated(q) ELSE q
    PROVE  IF Signed(b) = -1 THEN v = Negated(a)
           ELSE IsRemainder(Signed(a) - Signed(v) * Signed(b), Signed(a), Signed(b))
<1> DEFINE A == Magnitude(a)
           D == Magnitude(b)
           H == 2^(W - 1)
<1>1. /\ A \in Nat /\ A <= H /\ D \in Nat /\ D # 0 /\ D <= H /\ H \in Nat
      /\ A = r + D * q /\ r < D
  BY Signs, WordAssumption
<1>2. /\ Signed(a) = IF Negative(a) THEN - A ELSE A
      /\ Signed(b) = IF Negative(b) THEN - D ELSE D
      /\ ~Negative(a) => A = a /\ A < H
      /\ Negative(a) => Negated(a) = A
  BY Signs
<1>3. /\ Negative(a) \in BOOLEAN /\ Negative(b) \in BOOLEAN
      /\ q \in 0 .. H => Signed(Negated(q)) = - q
      /\ q \in 0 .. H /\ q < H => Signed(q) = q
  BY Results DEF Negative
<1> HIDE DEF A, D, H
<1>4. q <= D * q /\ (D # 1 => 2 * q <= D * q)
  BY <1>1
<1>5. q \in 0 .. H
  BY <1>1, <1>4
<1>6. CASE Signed(b) = -1
  <2>1. D = 1 /\ Negative(b)
    BY <1>1, <1>2, <1>6
  <2>2. q = A
    BY <1>1, <2>1
  <2> QED BY <1>2, <1>6, <2>1, <2>2
<1>7. CASE Signed(b) # -1
  <2>1. Signed(v) = IF Negative(a) # Negative(b) THEN - q ELSE q
    <3>1. CASE Negative(a) # Negative(b)
      BY <1>3, <1>5, <3>1
    <3>2. CASE Negative(a) = Negative(b)
      <4>1. q < H
        BY <1>1, <1>2, <1>4, <1>7, <3>2
      <4> QED BY <1>3, <1>5, <3>2, <4>1
    <3> QED BY <3>1, <3>2
  <2>2. /\ (- q) * D = - (D * q) /\ q * (- D) = - (D * q)
        /\ (- q) * (- D) = D * q /\ q * D = D * q
    BY <1>1
  <2>3. Signed(v) * Signed(b) = IF Negative(a) THEN - (D * q) ELSE D * q
    BY <1>2, <1>3, <2>1, <2>2
  <2>4. Signed(a) - Signed(v) * Signed(b) = IF Negative(a) THEN - r ELSE r
    BY <1>1, <1>2, <2>3
  <2> QED BY <1>7, <2>4, SignedRemainder
<1> QED BY <1>6, <1>7

\* __modsi3 (comp2.c lines 175-187): so is the remainder.
LEMMA SignedModulus ==
    ASSUME NEW a \in Word, NEW b \in Word, b # 0, NEW q \in Nat, NEW r \in Nat,
           Magnitude(a) = r + Magnitude(b) * q, r < Magnitude(b),
           NEW v, v = IF Negative(a) THEN Negated(r) ELSE r
    PROVE  /\ (Signed(a) - Signed(v)) % Abs(Signed(b)) = 0
           /\ IsRemainder(Signed(v), Signed(a), Signed(b))
<1> DEFINE A == Magnitude(a)
           D == Magnitude(b)
           H == 2^(W - 1)
<1>1. /\ A \in Nat /\ D \in Nat /\ D # 0 /\ D <= H /\ H \in Nat
      /\ A = r + D * q /\ r < D /\ Abs(Signed(b)) = D
      /\ Signed(a) = IF Negative(a) THEN - A ELSE A
  BY Signs, WordAssumption
<1>2. r \in 0 .. H /\ r < H => Signed(Negated(r)) = - r /\ Signed(r) = r
  BY Results
<1> HIDE DEF A, D, H
<1>3. Signed(v) = IF Negative(a) THEN - r ELSE r
  BY <1>1, <1>2
<1>4. \E k \in Int : Signed(a) - Signed(v) = 0 + D * k
  <2>1. CASE Negative(a)
    <3>1. - q \in Int /\ D * (- q) = - (D * q)
      BY <1>1
    <3> QED BY <1>1, <1>3, <2>1, <3>1
  <2>2. CASE ~Negative(a)
    BY <1>1, <1>3, <2>2
  <2> QED BY <2>1, <2>2
<1>5. Signed(a) - Signed(v) \in Int
  BY <1>1, <1>3
<1>6. (Signed(a) - Signed(v)) % D = 0
  <2>1. \A n, k \in Int : n = 0 + D * k => n % D = 0
    BY <1>1, Remainder
  <2> QED BY <1>4, <1>5, <2>1, Zenon
<1>7. IsRemainder(Signed(v), Signed(a), Signed(b))
  BY <1>3, SignedRemainder
<1> QED BY <1>1, <1>6, <1>7

-----------------------------------------------------------------------------
(* The steps of the functions.                                             *)

\* What the dividend and the divisor of a call are.
LEMMA Operands ==
    ASSUME call \in [f : Function, a : Word, b : Word]
    PROVE  /\ call.a \in Word /\ call.b \in Word /\ call.f \in Function
           /\ Dividend \in Word /\ Divisor \in Word
           /\ (Divisor = 0 <=> call.b = 0)
<1>1. call.a \in Word /\ call.b \in Word /\ call.f \in Function
  OBVIOUS
<1>2. \A x \in Word : Magnitude(x) \in Word
  BY Signs, WordAssumption DEF Word
<1> QED BY <1>1, <1>2, Signs DEF Dividend, Divisor

\* A call: the divisor itself is its bit 1 times.
LEMMA CallIInv ==
    ASSUME ArithIInv, NEW f \in Function, NEW a \in Word, NEW b \in Word, Call(f, a, b)
    PROVE  ArithIInv'
<1>1. call' \in [f : Function, a : Word, b : Word] /\ call'.f = f /\ call'.a = a /\ call'.b = b
  BY DEF Call
<1>2. Word \subseteq Nat /\ \A x \in Word : Magnitude(x) \in Word
  BY Signs, WordAssumption DEF Word
<1>3. ArithTypeOK'
  <2>1. a \in Nat /\ b \in Nat /\ Magnitude(a) \in Nat /\ Magnitude(b) \in Nat
    BY <1>2
  <2>2. num' \in Nat /\ den' \in Nat /\ bit' \in Nat /\ res' \in Nat
    BY <2>1 DEF Call
  <2>3. at' \in {"multiply", "shift"}
    BY DEF Call
  <2> QED BY <1>1, <2>2, <2>3 DEF ArithTypeOK
<1>4. CASE f = "__muldi3"
  <2>1. /\ at' = "multiply" /\ call'.f = "__muldi3" /\ den' = b /\ num' = a /\ res' = 0
    BY <1>1, <1>4 DEF Call
  <2>2. 0 \in Word /\ 0 + a * b = a * b
    BY <1>2, WordAssumption DEF Word
  <2> QED BY <1>1, <1>3, <2>1, <2>2 DEF ArithIInv, Dividing, Multiplying, ArithmeticIsExact
<1>5. CASE f # "__muldi3"
  <2>1. at' = "shift" /\ call'.f # "__muldi3" /\ res' = 0 /\ bit' = 1
    BY <1>1, <1>5 DEF Call
  <2>2. num' = Dividend' /\ den' = Divisor' /\ Dividend' \in Word /\ Divisor' \in Word
    BY <1>1, <1>2 DEF Call, Dividend, Divisor, IsSigned
  <2>3. PowerOfTwo(1)
    BY DEF PowerOfTwo
  <2>4. neg' = (\/ call'.f = "__divsi3" /\ Negative(call'.a) # Negative(call'.b)
                \/ call'.f = "__modsi3" /\ Negative(call'.a))
    BY <1>1 DEF Call
  <2>5. Dividend' = num' + Divisor' * res' /\ den' = Divisor' * bit'
    <3>1. \A x, y \in Nat : x = x + y * 0 /\ y = y * 1
      OBVIOUS
    <3>2. Dividend' \in Nat /\ Divisor' \in Nat
      BY <1>2, <2>2
    <3> QED BY <2>1, <2>2, <3>1, <3>2
  <2>6. Dividing'
    BY <2>1, <2>2, <2>3, <2>4, <2>5 DEF Dividing
  <2> QED BY <1>3, <2>1, <2>6 DEF ArithIInv, Multiplying, ArithmeticIsExact
<1> QED BY <1>4, <1>5

\* The first loop: neither shift loses a bit, because bit is at most den and the
\* loop leaves a den with its top bit set alone.
LEMMA ShiftUpIInv ==
    ASSUME ArithIInv, ShiftUp
    PROVE  ArithIInv'
<1>1. /\ at = "shift" /\ at' = "shift" /\ call' = call /\ neg' = neg /\ num' = num /\ res' = res
      /\ den' = (2 * den) % 2^W /\ bit' = (2 * bit) % 2^W
      /\ den < num /\ bit # 0 /\ den < 2^(W - 1)
  <2>1. den \in Nat
    BY DEF ArithIInv, ArithTypeOK
  <2> QED BY <2>1, WordAssumption DEF ShiftUp, ShiftOn, Negative
<1>2. /\ call \in [f : Function, a : Word, b : Word]
      /\ num \in Nat /\ den \in Nat /\ bit \in Nat /\ res \in Nat
  BY <1>1 DEF ArithIInv, ArithTypeOK
<1>3. den' \in Nat /\ bit' \in Nat
  BY <1>1, <1>2, WordAssumption
<1>4. ArithTypeOK'
  BY <1>1, <1>2, <1>3 DEF ArithTypeOK
<1>5. Dividend' = Dividend /\ Divisor' = Divisor
  BY <1>1 DEF Dividend, Divisor, IsSigned
<1>6. ASSUME Divisor # 0
      PROVE  /\ den' = Divisor * bit' /\ den' \in Word
             /\ PowerOfTwo(bit') /\ bit' # 0
  <2>1. PowerOfTwo(bit) /\ den = Divisor * bit /\ Divisor \in Nat
    BY <1>1, <1>2, <1>6, Operands DEF ArithIInv, Dividing, Word
  <2>2. bit <= den
    BY <1>2, <1>6, <2>1
  <2>3. den' = 2 * den /\ bit' = 2 * bit /\ den' \in Word
    BY <1>1, <1>2, <2>2, WordAssumption DEF Word
  <2>4. 2 * (Divisor * bit) = Divisor * (2 * bit)
    BY <1>2, <2>1
  <2> QED BY <1>1, <1>2, <2>1, <2>3, <2>4, Doubled
<1>7. Dividing'
  BY <1>1, <1>5, <1>6 DEF ArithIInv, Dividing
<1> QED BY <1>1, <1>4, <1>7 DEF ArithIInv, Multiplying, ArithmeticIsExact

\* The second loop: as long as bit is not 1 both shifts are exact, and num stays
\* below twice the divisor that is tried next.
LEMMA SubtractIInv ==
    ASSUME ArithIInv, Subtract
    PROVE  ArithIInv'
<1>1. /\ at \in {"shift", "subtract"} /\ (at = "shift" => ~ShiftOn) /\ bit # 0
      /\ at' = "subtract" /\ call' = call /\ neg' = neg
      /\ bit' = bit \div 2 /\ den' = den \div 2
      /\ IF num >= den THEN num' = num - den /\ res' = res + bit ELSE num' = num /\ res' = res
  BY DEF Subtract
<1>2. /\ call \in [f : Function, a : Word, b : Word]
      /\ num \in Nat /\ den \in Nat /\ bit \in Nat /\ res \in Nat
  BY <1>1 DEF ArithIInv, ArithTypeOK
<1>3. num' \in Nat /\ den' \in Nat /\ bit' \in Nat /\ res' \in Nat
  BY <1>1, <1>2
<1>4. ArithTypeOK'
  BY <1>1, <1>2, <1>3 DEF ArithTypeOK
<1>5. Dividend' = Dividend /\ Divisor' = Divisor
  BY <1>1 DEF Dividend, Divisor, IsSigned
<1>6. ASSUME Divisor # 0
      PROVE  /\ Dividend = num' + Divisor * res'
             /\ bit' # 0 => PowerOfTwo(bit') /\ den' = Divisor * bit'
             /\ num' < (IF bit' = 0 THEN Divisor ELSE 2 * den')
  <2>1. /\ PowerOfTwo(bit) /\ den = Divisor * bit /\ Dividend = num + Divisor * res
        /\ Divisor \in Nat /\ Dividend \in Word
    <3>1. PowerOfTwo(bit) /\ den = Divisor * bit /\ Dividend = num + Divisor * res
      BY <1>1, <1>6 DEF ArithIInv, Dividing
    <3>2. Divisor \in Nat /\ Dividend \in Word
      BY <1>2, Operands DEF Word
    <3> QED BY <3>1, <3>2
  <2>2. num < 2 * den
    <3>1. CASE at = "subtract"
      BY <1>1, <1>6, <3>1 DEF ArithIInv, Dividing
    <3>2. CASE at = "shift"
      <4>1. num = Dividend
        <5>1. res = 0
          BY <1>6, <3>2 DEF ArithIInv, Dividing
        <5> QED BY <1>2, <2>1, <5>1
      <4>2. num < 2 * 2^(W - 1)
        BY <2>1, <4>1, WordAssumption DEF Word
      <4>3. den >= num \/ den >= 2^(W - 1)
        BY <1>1, <1>2, <3>2, WordAssumption DEF ShiftOn, Negative
      <4>4. den > 0
        BY <1>1, <1>2, <1>6, <2>1
      <4> QED BY <1>2, <4>2, <4>3, <4>4, WordAssumption
    <3> QED BY <1>1, <3>1, <3>2
  <2>3. Dividend = num' + Divisor * res'
    <3>1. CASE num >= den
      <4>1. Divisor * (res + bit) = Divisor * res + Divisor * bit
        BY <1>2, <2>1
      <4> QED BY <1>1, <1>2, <2>1, <3>1, <4>1
    <3>2. CASE ~(num >= den)
      BY <1>1, <2>1, <3>2
    <3> QED BY <3>1, <3>2
  <2>4. num' < den
    BY <1>1, <1>2, <2>2
  <2>5. CASE bit = 1
    <3>1. den = Divisor /\ bit' = 0
      BY <1>1, <2>1, <2>5
    <3> QED BY <2>3, <2>4, <3>1
  <2>6. CASE bit # 1
    <3>1. bit = 2 * bit' /\ PowerOfTwo(bit')
      BY <1>1, <1>2, <2>1, <2>6, Halved
    <3>2. den = 2 * (Divisor * bit') /\ Divisor * bit' \in Nat
      <4>1. \A x, y \in Nat : x * (2 * y) = 2 * (x * y) /\ x * y \in Nat
        OBVIOUS
      <4> QED BY <1>3, <2>1, <3>1, <4>1
    <3>3. den' = Divisor * bit' /\ den = 2 * den'
      BY <1>1, <3>2
    <3>4. bit' # 0
      BY <3>1 DEF PowerOfTwo
    <3> QED BY <2>3, <2>4, <3>1, <3>3, <3>4
  <2> QED BY <2>5, <2>6
<1>7. Dividing'
  BY <1>1, <1>5, <1>6 DEF ArithIInv, Dividing
<1> QED BY <1>1, <1>4, <1>7 DEF ArithIInv, Multiplying, ArithmeticIsExact

\* The end of a division: num and res are the remainder and the quotient of the
\* magnitudes, and the signs are put on.
LEMMA DivReturnIInv ==
    ASSUME ArithIInv, DivReturn
    PROVE  ArithIInv'
<1>1. /\ at \in {"shift", "subtract"} /\ bit = 0 /\ at' = "returned"
      /\ call' = call /\ neg' = neg /\ num' = num /\ den' = den /\ bit' = bit /\ res' = res
      /\ value' = LET r == IF call.f \in {"__umodsi3", "__modsi3"} THEN num ELSE res
                  IN  IF neg THEN Negated(r) ELSE r
  BY DEF DivReturn
<1>2. /\ call \in [f : Function, a : Word, b : Word]
      /\ num \in Nat /\ den \in Nat /\ bit \in Nat /\ res \in Nat
  BY <1>1 DEF ArithIInv, ArithTypeOK
<1>3. ArithTypeOK'
  BY <1>1, <1>2 DEF ArithTypeOK
<1>4. /\ call.f # "__muldi3"
      /\ neg = (\/ call.f = "__divsi3" /\ Negative(call.a) # Negative(call.b)
                \/ call.f = "__modsi3" /\ Negative(call.a))
  BY <1>1 DEF ArithIInv, Dividing
<1>5. call.a \in Word /\ call.b \in Word /\ (Divisor = 0 <=> call.b = 0)
  BY <1>2, Operands
<1>6. ASSUME call.b # 0 PROVE Dividend = num + Divisor * res /\ num < Divisor
  BY <1>1, <1>5, <1>6 DEF ArithIInv, Dividing
<1>7. ASSUME call.f = "__udivsi3", call.b # 0 PROVE value' = call.a \div call.b
  <2>1. call.a = num + call.b * res /\ num < call.b
    BY <1>6, <1>7 DEF Dividend, Divisor, IsSigned
  <2>2. value' = res
    BY <1>1, <1>4, <1>7
  <2> QED BY <1>2, <1>5, <2>1, <2>2, Quotient, WordAssumption DEF Word
<1>8. ASSUME call.f = "__umodsi3", call.b # 0 PROVE value' = call.a % call.b
  <2>1. call.a = num + call.b * res /\ num < call.b
    BY <1>6, <1>8 DEF Dividend, Divisor, IsSigned
  <2>2. value' = num
    BY <1>1, <1>4, <1>8
  <2> QED BY <1>2, <1>5, <2>1, <2>2, Quotient, WordAssumption DEF Word
<1>9. ASSUME call.f = "__divsi3", call.b # 0
      PROVE  IF Signed(call.b) = -1 THEN value' = Negated(call.a)
             ELSE IsRemainder(Signed(call.a) - Signed(value') * Signed(call.b),
                              Signed(call.a), Signed(call.b))
  <2>1. Magnitude(call.a) = num + Magnitude(call.b) * res /\ num < Magnitude(call.b)
    BY <1>6, <1>9 DEF Dividend, Divisor, IsSigned
  <2>2. value' = IF Negative(call.a) # Negative(call.b) THEN Negated(res) ELSE res
    BY <1>1, <1>4, <1>9
  <2> QED BY <1>2, <1>5, <1>9, <2>1, <2>2, SignedQuotient
<1>10. ASSUME call.f = "__modsi3", call.b # 0
       PROVE  /\ (Signed(call.a) - Signed(value')) % Abs(Signed(call.b)) = 0
              /\ IsRemainder(Signed(value'), Signed(call.a), Signed(call.b))
  <2>1. Magnitude(call.a) = num + Magnitude(call.b) * res /\ num < Magnitude(call.b)
    BY <1>6, <1>10 DEF Dividend, Divisor, IsSigned
  <2>2. value' = IF Negative(call.a) THEN Negated(num) ELSE num
    BY <1>1, <1>4, <1>10
  <2> QED BY <1>2, <1>5, <1>10, <2>1, <2>2, SignedModulus
<1>11. ArithmeticIsExact'
  BY <1>1, <1>4, <1>7, <1>8, <1>9, <1>10 DEF ArithmeticIsExact
<1> QED BY <1>1, <1>3, <1>11 DEF ArithIInv, Dividing, Multiplying

\* A step of the product: the bit of the multiplier that is taken off is made up for
\* by what is added, modulo the words.
LEMMA MulStepIInv ==
    ASSUME ArithIInv, MulStep
    PROVE  ArithIInv'
<1> DEFINE K == 2^W
<1>1. /\ at = "multiply" /\ at' = "multiply" /\ call' = call /\ bit' = bit
      /\ num' = num \div 2 /\ den' = (2 * den) % K
      /\ res' = IF num % 2 = 1 THEN (res + den) % K ELSE res
  BY DEF MulStep
<1>2. /\ call \in [f : Function, a : Word, b : Word] /\ num \in Nat /\ bit \in Nat
      /\ den \in 0 .. (K - 1) /\ res \in 0 .. (K - 1) /\ K \in Nat \ {0}
      /\ call.f = "__muldi3" /\ (res + num * den) % K = (call.a * call.b) % K
  BY <1>1, WordAssumption DEF ArithIInv, ArithTypeOK, Multiplying, Word
<1> HIDE DEF K
<1>3. num' \in Nat /\ den' \in 0 .. (K - 1) /\ res' \in 0 .. (K - 1)
  BY <1>1, <1>2
<1>4. (res + num * den) % K = (res' + num' * den') % K
  <2>1. K \in Nat \ {0} /\ num \in Nat /\ den \in Nat /\ res \in Nat
    BY <1>2
  <2>2. \A n, d, r \in Nat :
           /\ n % 2 = 1 => (((r + d) % K) + (n \div 2) * ((2 * d) % K)) % K = (r + n * d) % K
           /\ n % 2 # 1 => (r + (n \div 2) * ((2 * d) % K)) % K = (r + n * d) % K
    BY <2>1, ShiftAndAdd
  <2>3. CASE num % 2 = 1
    BY <1>1, <2>1, <2>2, <2>3, Zenon
  <2>4. CASE num % 2 # 1
    BY <1>1, <2>1, <2>2, <2>4, Zenon
  <2> QED BY <2>3, <2>4
<1>5. ArithTypeOK'
  BY <1>1, <1>2, <1>3 DEF ArithTypeOK
<1>6. Multiplying'
  BY <1>1, <1>2, <1>3, <1>4 DEF Multiplying, Word, K
<1> QED BY <1>1, <1>5, <1>6 DEF ArithIInv, Dividing, ArithmeticIsExact

\* The end of a multiplication.
LEMMA MulReturnIInv ==
    ASSUME ArithIInv, MulReturn
    PROVE  ArithIInv'
<1>1. /\ at = "multiply" /\ num = 0 /\ at' = "returned" /\ value' = res
      /\ call' = call /\ num' = num /\ den' = den /\ bit' = bit /\ res' = res
  BY DEF MulReturn
<1>2. /\ call \in [f : Function, a : Word, b : Word] /\ den \in Word /\ res \in Word
      /\ call.f = "__muldi3" /\ (res + num * den) % 2^W = (call.a * call.b) % 2^W
  BY <1>1 DEF ArithIInv, ArithTypeOK, Multiplying
<1>3. ArithTypeOK'
  BY <1>1 DEF ArithIInv, ArithTypeOK
<1>4. value' = (call.a * call.b) % 2^W
  <2>1. \A k, r, d \in Nat : r < k => (r + 0 * d) % k = r
    OBVIOUS
  <2> QED BY <1>1, <1>2, <2>1, WordAssumption DEF Word
<1>5. ArithmeticIsExact'
  BY <1>1, <1>2, <1>4 DEF ArithmeticIsExact
<1> QED BY <1>1, <1>3, <1>5 DEF ArithIInv, Dividing, Multiplying

-----------------------------------------------------------------------------
(* The theorems.                                                           *)

\* The loop invariants of the arithmetic functions are inductive.
THEOREM Inductive == Spec => []ArithIInv
<1>1. Init => ArithIInv
  BY DEF Init, ArithInit, ArithIInv, ArithTypeOK, Dividing, Multiplying, ArithmeticIsExact
<1>2. ArithIInv /\ [Next]_vars => ArithIInv'
  <2> SUFFICES ASSUME ArithIInv, [Next]_vars PROVE ArithIInv'
    OBVIOUS
  <2>1. CASE ArithNext
    BY <2>1, CallIInv, ShiftUpIInv, SubtractIInv, DivReturnIInv, MulStepIInv, MulReturnIInv
       DEF ArithNext
  <2>2. CASE UNCHANGED arithVars
    <3>1. UNCHANGED <<call, at, neg, num, den, bit, res, value>>
      BY <2>2 DEF arithVars
    <3> QED BY <3>1 DEF ArithIInv, ArithTypeOK, Dividing, Multiplying, ArithmeticIsExact,
                       Dividend, Divisor, IsSigned
  <2> QED BY <2>1, <2>2
          DEF Next, vars, Comp1, Comp2, Comp3, Arithmetic, Feed, Stub
<1> QED BY <1>1, <1>2, PTL DEF Spec

\* __udivsi3, __umodsi3, __divsi3, __modsi3 and __muldi3 return what the C operators
\* ask for, for every pair of words of every width.
THEOREM ExactArithmetic == Spec => []ArithmeticIsExact
<1>1. ArithIInv => ArithmeticIsExact
  BY DEF ArithIInv
<1> QED BY <1>1, Inductive, PTL

-----------------------------------------------------------------------------
(* The loops of the arithmetic functions end.                              *)

\* The sizes of the variables that control the loops.  On the way up bit is a power
\* of two, or has left the word at its top.
LoopIInv ==
    /\ at = "shift" => bit = 0 \/ \E j \in 0..(W - 1) : bit = 2^j
    /\ at = "subtract" => bit < 2^W
    /\ at = "multiply" => num < 2^W

\* A bound on the steps a call still takes.
StepsLeft ==
    IF at = "idle" THEN 2 * 2^W + 1
    ELSE IF at = "shift" THEN (IF bit = 0 THEN 1 ELSE 2 * 2^W - bit)
    ELSE IF at = "subtract" THEN bit + 1
    ELSE IF at = "multiply" THEN num + 1
    ELSE 0

\* The bound decreases.
Descends == StepsLeft \in Nat /\ StepsLeft' \in Nat /\ StepsLeft' < StepsLeft

\* Every step of a function takes it closer to its return: no loop runs for ever, that
\* of __udivmodsi4 not even when the divisor is 0 and only bit, shifted out of the
\* word, ends it (comp2.c line 124).
LoopsDescend == [][Descends]_arithVars

\* One step of the loops.
LEMMA LoopStep ==
    ASSUME ArithIInv, LoopIInv, ArithNext
    PROVE  LoopIInv' /\ Descends
<1> DEFINE K == 2^W
<1>1. /\ K \in Nat /\ K >= 2 /\ num \in Nat /\ den \in Nat /\ bit \in Nat
      /\ at \in {"idle", "shift", "subtract", "multiply", "returned"}
  BY WordAssumption DEF ArithIInv, ArithTypeOK
<1>2. ASSUME at = "shift", bit # 0
      PROVE  /\ bit < K
             /\ (2 * bit) % K = 0 \/ ((2 * bit) % K = 2 * bit /\ \E j \in 0..(W - 1) : 2 * bit = 2^j)
  <2>1. PICK j \in 0..(W - 1) : bit = 2^j
    BY <1>2 DEF LoopIInv
  <2>2. 2^(j + 1) = 2 * bit /\ bit < K
    BY <2>1, PowersAssumption
  <2>3. CASE j = W - 1
    <3>1. 2 * bit = K
      BY <2>1, <2>3, WordAssumption
    <3>2. \A x \in Nat \ {0} : x % x = 0
      OBVIOUS
    <3> HIDE DEF K
    <3> QED BY <1>1, <2>2, <3>1, <3>2
  <2>4. CASE j # W - 1
    <3>1. j + 1 \in 0..(W - 1)
      BY <2>4, WordAssumption
    <3>2. 2^(j + 1) < K
      BY <3>1, PowersAssumption
    <3>3. 2 * bit < K
      BY <2>2, <3>2
    <3>4. \A x, y \in Nat : x < y => x % y = x
      OBVIOUS
    <3>5. (2 * bit) % K = 2 * bit
      <4> HIDE DEF K
      <4> QED BY <1>1, <3>3, <3>4
    <3> QED BY <2>2, <3>1, <3>5
  <2> QED BY <2>3, <2>4
<1>3. ASSUME NEW f \in Function, NEW a \in Word, NEW b \in Word, Call(f, a, b)
      PROVE  LoopIInv' /\ Descends
  <2>1. at = "idle" /\ bit' = 1 /\ at' = IF f = "__muldi3" THEN "multiply" ELSE "shift"
    BY <1>3 DEF Call
  <2>2. \E j \in 0..(W - 1) : 1 = 2^j
    <3>1. 0 \in 0..(W - 1) /\ 1 = 2^0
      BY WordAssumption, PowersAssumption
    <3> QED BY <3>1, Zenon
  <2>3. f = "__muldi3" => num' = a /\ a \in Nat /\ a < K
    BY <1>3, WordAssumption DEF Call, Word
  <2> QED BY <1>1, <2>1, <2>2, <2>3 DEF LoopIInv, StepsLeft, Descends
<1>4. ASSUME ShiftUp
      PROVE  LoopIInv' /\ Descends
  <2>1. at = "shift" /\ bit # 0 /\ at' = "shift" /\ bit' = (2 * bit) % K
    BY <1>4 DEF ShiftUp, ShiftOn
  <2>2. /\ bit < K
        /\ bit' = 0 \/ (bit' = 2 * bit /\ \E j \in 0..(W - 1) : bit' = 2^j)
    BY <1>2, <2>1
  <2>3. bit' = 0 \/ (bit' = 2 * bit /\ bit' < K)
    BY <2>2, PowersAssumption
  <2>4. LoopIInv'
    BY <2>1, <2>2 DEF LoopIInv
  <2>5. StepsLeft = 2 * K - bit /\ StepsLeft' = IF bit' = 0 THEN 1 ELSE 2 * K - bit'
    BY <2>1 DEF StepsLeft
  <2> HIDE DEF K
  <2> QED BY <1>1, <2>1, <2>2, <2>3, <2>4, <2>5 DEF Descends
<1>5. ASSUME Subtract
      PROVE  LoopIInv' /\ Descends
  <2>1. at \in {"shift", "subtract"} /\ bit # 0 /\ at' = "subtract" /\ bit' = bit \div 2
    BY <1>5 DEF Subtract
  <2>2. bit < K
    BY <1>2, <2>1 DEF LoopIInv
  <2>3. bit' \in Nat /\ bit' < bit
    BY <1>1, <2>1
  <2>4. /\ StepsLeft = IF at = "shift" THEN 2 * K - bit ELSE bit + 1
        /\ StepsLeft' = bit' + 1
    BY <2>1 DEF StepsLeft
  <2>5. bit' < K
    BY <1>1, <2>2, <2>3
  <2>6. LoopIInv'
    BY <2>1, <2>5 DEF LoopIInv
  <2>7. bit' + 1 \in Nat /\ bit' + 1 < bit + 1 /\ bit' + 1 < 2 * K - bit /\ 2 * K - bit \in Nat
    <3>1. \A x, y, k \in Nat : x < y /\ y < k =>
            x + 1 \in Nat /\ x + 1 < y + 1 /\ x + 1 < 2 * k - y /\ 2 * k - y \in Nat
      OBVIOUS
    <3> HIDE DEF K
    <3> QED BY <1>1, <2>2, <2>3, <3>1
  <2>8. Descends
    <3> HIDE DEF K
    <3>1. CASE at = "shift"
      BY <1>1, <2>4, <2>7, <3>1 DEF Descends
    <3>2. CASE at # "shift"
      BY <1>1, <2>4, <2>7, <3>2 DEF Descends
    <3> QED BY <3>1, <3>2
  <2> QED BY <2>6, <2>8
<1>6. ASSUME DivReturn \/ MulReturn
      PROVE  LoopIInv' /\ Descends
  <2>1. at' = "returned" /\ ((at \in {"shift", "subtract"} /\ bit = 0) \/ (at = "multiply" /\ num = 0))
    BY <1>6 DEF DivReturn, MulReturn
  <2>2. StepsLeft' = 0 /\ LoopIInv'
    BY <2>1 DEF StepsLeft, LoopIInv
  <2>3. StepsLeft = 1
    BY <2>1 DEF StepsLeft
  <2> QED BY <2>2, <2>3 DEF Descends
<1>7. ASSUME MulStep
      PROVE  LoopIInv' /\ Descends
  <2>1. at = "multiply" /\ num # 0 /\ at' = "multiply" /\ num' = num \div 2 /\ num < K
    BY <1>7 DEF MulStep, LoopIInv
  <2>2. num' \in Nat /\ num' < num
    BY <1>1, <2>1
  <2> QED BY <1>1, <2>1, <2>2 DEF LoopIInv, StepsLeft, Descends
<1> QED BY <1>3, <1>4, <1>5, <1>6, <1>7 DEF ArithNext

\* The arithmetic functions return for all arguments of every width, the divisor 0
\* included, as far as they are given steps.
THEOREM ArithmeticTerminates == Spec => LoopsDescend
<1>1. Init => LoopIInv
  BY DEF Init, ArithInit, LoopIInv
<1>2. ASSUME ArithIInv, LoopIInv, [Next]_vars
      PROVE  /\ LoopIInv'
             /\ \/ Descends
                \/ UNCHANGED arithVars
  <2>1. CASE ArithNext
    BY <1>2, <2>1, LoopStep
  <2>2. CASE UNCHANGED arithVars
    BY <1>2, <2>2 DEF arithVars, LoopIInv
  <2> QED BY <1>2, <2>1, <2>2 DEF Next, vars, Comp1, Comp2, Comp3, Arithmetic, Feed, Stub
<1> QED BY <1>1, <1>2, Inductive, PTL DEF Spec, LoopsDescend

-----------------------------------------------------------------------------
(* The arbitrary feed of comp3.c.                                          *)

\* Short integers are natural numbers.
LEMMA Shorts == uint16 \subseteq Nat /\ uint16 = 0 .. (w16 - 1) /\ w16 - 1 \in Nat
<1>1. w8 \in Nat \ {0}
  BY DEF w8
<1>2. w16 \in Nat \ {0}
  BY <1>1 DEF w16
<1> QED BY <1>2 DEF uint16

\* What the byte swaps of a message give.
LEMMA Swapped ==
    ASSUME NEW m \in Messages
    PROVE  /\ bswap16(m.contracts) \in uint16
           /\ Id(m) \in Nat
           /\ m.side \in {"B", "S"}
<1>1. m.contracts \in Int /\ m.message_id \in Int /\ m.side \in {"B", "S"}
  BY Shorts, MessagesAssumption
<1>2. 1 \in Nat \ {0} /\ w8 \in Nat \ {0}
  BY DEF w8
<1>3. w16 \in Nat \ {0}
  BY <1>2 DEF w16
<1>4. w24 \in Nat \ {0}
  BY <1>2, <1>3 DEF w24
<1>5. \A u \in Int, w \in Nat \ {0} : byte(u, w) \in Nat /\ byte(u, w) < w8
  BY <1>2 DEF byte
<1>6. bswap16(m.contracts) \in uint16
  <2>1. /\ byte(m.contracts, 1) \in Nat /\ byte(m.contracts, 1) < w8
        /\ byte(m.contracts, w8) \in Nat /\ byte(m.contracts, w8) < w8
    BY <1>1, <1>2, <1>5
  <2>2. \A b, x, y \in Nat : x < b /\ y < b => x * b + y \in 0 .. (b * b - 1)
    <3>1. \A b, x \in Nat : x < b => (x + 1) * b <= b * b /\ (x + 1) * b = x * b + b
      OBVIOUS
    <3> QED BY <3>1
  <2> QED BY <1>2, <2>1, <2>2 DEF bswap16, uint16, w16
<1>7. Id(m) \in Nat
  <2>1. /\ byte(m.message_id, 1) \in Nat /\ byte(m.message_id, w8) \in Nat
        /\ byte(m.message_id, w16) \in Nat /\ byte(m.message_id, w24) \in Nat
    BY <1>1, <1>2, <1>3, <1>4, <1>5
  <2>2. \A a, b, c, d, x, y, z \in Nat : a + b * x + c * y + d * z \in Nat
    OBVIOUS
  <2>3. __bswapsi2(m.message_id) \in Nat
    BY <1>2, <1>3, <1>4, <2>1, <2>2 DEF __bswapsi2
  <2> QED BY <2>3 DEF Id, __bswapdi2
<1> QED BY <1>1, <1>6, <1>7

\* The contracts of the messages K of a feed d, each with its number.
Pieces(d, K) == UNION {{k} \X (1 .. bswap16(d[k].contracts)) : k \in K}

\* The pieces are pairs of a message and a number, finitely many.
LEMMA FinitePieces ==
    ASSUME NEW d \in Seq(Messages), NEW K \in SUBSET DOMAIN d
    PROVE  /\ IsFiniteSet(Pieces(d, K)) /\ Cardinality(Pieces(d, K)) \in Nat
           /\ \A p : p \in Pieces(d, K) <=>
                       \E k \in K : \E c \in 1 .. bswap16(d[k].contracts) : p = <<k, c>>
<1>1. \A p : p \in Pieces(d, K) <=>
               \E k \in K : \E c \in 1 .. bswap16(d[k].contracts) : p = <<k, c>>
  BY DEF Pieces
<1>2. Pieces(d, K) \subseteq (1 .. Len(d)) \X uint16
  <2> SUFFICES ASSUME NEW k \in K, NEW c \in 1 .. bswap16(d[k].contracts)
               PROVE  <<k, c>> \in (1 .. Len(d)) \X uint16
    BY <1>1
  <2>1. k \in 1 .. Len(d) /\ d[k] \in Messages
    OBVIOUS
  <2> QED BY <2>1, Swapped, Shorts
<1>3. IsFiniteSet((1 .. Len(d)) \X uint16)
  <2>1. IsFiniteSet(1 .. Len(d)) /\ IsFiniteSet(uint16)
    BY Shorts, FS_Interval
  <2> QED BY <2>1, FS_Product
<1>4. IsFiniteSet(Pieces(d, K))
  BY <1>2, <1>3, FS_Subset
<1> QED BY <1>1, <1>4, FS_CardinalityType

\* One more message leaves the contracts of the earlier ones as they were and adds
\* its own.
LEMMA OneMessageMore ==
    ASSUME NEW d \in Seq(Messages), NEW m \in Messages, NEW K \in SUBSET DOMAIN d
    PROVE  /\ Pieces(Append(d, m), K) = Pieces(d, K)
           /\ Cardinality(Pieces(Append(d, m), K \cup {Len(d) + 1})) =
                Cardinality(Pieces(d, K)) + bswap16(m.contracts)
<1> DEFINE e == Append(d, m)
           n == Len(d) + 1
           P == {n} \X (1 .. bswap16(m.contracts))
<1>1. /\ e \in Seq(Messages) /\ DOMAIN e = 1 .. n /\ DOMAIN d = 1 .. (n - 1) /\ e[n] = m
      /\ n \in Nat /\ \A k \in DOMAIN d : e[k] = d[k]
  OBVIOUS
<1>2. Pieces(e, K) = Pieces(d, K)
  <2>1. \A k \in K : e[k] = d[k]
    BY <1>1
  <2> HIDE DEF e
  <2> QED BY <2>1 DEF Pieces
<1>3. Pieces(e, K \cup {n}) = Pieces(e, K) \cup P
  <2> HIDE DEF e, n
  <2> QED BY <1>1 DEF Pieces, P
<1>4. IsFiniteSet(P) /\ Cardinality(P) = bswap16(m.contracts)
  <2>1. bswap16(m.contracts) \in Nat
    BY Swapped, Shorts
  <2>2. /\ IsFiniteSet(1 .. bswap16(m.contracts))
        /\ Cardinality(1 .. bswap16(m.contracts)) = bswap16(m.contracts)
    BY <2>1, FS_Interval
  <2>3. IsFiniteSet({n}) /\ Cardinality({n}) = 1
    BY FS_Singleton
  <2>4. IsFiniteSet(P) /\ Cardinality(P) = 1 * bswap16(m.contracts)
    BY <2>2, <2>3, FS_Product
  <2> QED BY <2>1, <2>4
<1>5. Pieces(d, K) \cap P = {}
  <2>1. n \notin K
    BY <1>1
  <2> HIDE DEF n
  <2> QED BY <2>1, FinitePieces DEF P
<1>6. IsFiniteSet(Pieces(d, K)) /\ Cardinality(Pieces(d, K)) \in Nat
  BY FinitePieces
<1>7. Cardinality(Pieces(d, K) \cup P) = Cardinality(Pieces(d, K)) + bswap16(m.contracts)
  <2> HIDE DEF P
  <2>1. Cardinality(Pieces(d, K) \cup P) =
          Cardinality(Pieces(d, K)) + Cardinality(P) - Cardinality(Pieces(d, K) \cap P)
    BY <1>4, <1>6, FS_Union
  <2>2. Cardinality(Pieces(d, K) \cap P) = 0
    BY <1>5, FS_EmptySet
  <2>3. bswap16(m.contracts) \in Nat
    BY Swapped, Shorts
  <2> QED BY <1>4, <1>6, <2>1, <2>2, <2>3
<1> QED BY <1>2, <1>3, <1>7

\* The largest identity so far is the one remembered.
Remembered ==
    /\ old_message_id \in Nat
    /\ \A k \in DOMAIN delivered : Interesting(delivered[k]) => Id(delivered[k]) <= old_message_id
    /\ \/ old_message_id = 0
       \/ \E k \in DOMAIN delivered :
            Interesting(delivered[k]) /\ Id(delivered[k]) = old_message_id

\* The counters are those of the news, and grow by a short integer per message.
Counted ==
    /\ contracts_processed = Contracts(News)
    /\ puts_count = Contracts(Of("P", "B")) - Contracts(Of("P", "S"))
    /\ calls_count = Contracts(Of("C", "B")) - Contracts(Of("C", "S"))
    /\ LET most == (w16 - 1) * Len(delivered)
       IN  /\ contracts_processed \in 0 .. most
           /\ puts_count \in - most .. most
           /\ calls_count \in - most .. most

\* The status tells whether a message that is news was too risky.
Reported == (status3 = "00BADBAD") <=> \E k \in News : risk(delivered[k]) > RISK_THRESHOLD

\* The inductive invariant of an arbitrary feed: only a feed has a history.
FeedIInv ==
    /\ delivered \in Seq(Messages) /\ Len(delivered) <= FeedBound
    /\ delivered # <<>> => running = "feed"
    /\ running = "feed" => Remembered /\ Counted /\ Reported

\* A message that counts is news, and no other is (comp3.c line 131): the identity
\* remembered stands for all notices before.
LEMMA NewsOfOneMore ==
    ASSUME delivered \in Seq(Messages), Remembered, NEW m \in Messages,
           delivered' = Append(delivered, m)
    PROVE  /\ Interesting(m) /\ InOrder(m) => News' = News \cup {Len(delivered) + 1}
           /\ ~(Interesting(m) /\ InOrder(m)) => News' = News
<1> DEFINE n == Len(delivered) + 1
<1>1. /\ DOMAIN delivered = 1 .. (n - 1) /\ DOMAIN delivered' = 1 .. n /\ n \in Nat
      /\ delivered'[n] = m /\ \A k \in 1 .. (n - 1) : delivered'[k] = delivered[k]
  OBVIOUS
<1>2. \A k \in 1 .. (n - 1) : Id(delivered[k]) \in Nat
  <2>1. \A k \in 1 .. (n - 1) : delivered[k] \in Messages
    OBVIOUS
  <2> QED BY <2>1, Swapped
<1>3. Id(m) \in Nat /\ old_message_id \in Nat
  BY Swapped DEF Remembered
<1> HIDE DEF n
<1>4. \A k \in 1 .. (n - 1) : k \in News' <=> k \in News
  BY <1>1 DEF News
<1>5. n \in News' <=> /\ Interesting(m) /\ Id(m) > 0
                      /\ \A j \in 1 .. (n - 1) : Interesting(delivered[j]) => Id(delivered[j]) < Id(m)
  BY <1>1 DEF News
<1>6. n \in News' <=> Interesting(m) /\ InOrder(m)
  <2>1. ASSUME Interesting(m), InOrder(m) PROVE n \in News'
    BY <1>1, <1>2, <1>3, <1>5, <2>1 DEF InOrder, Remembered
  <2>2. ASSUME n \in News' PROVE Interesting(m) /\ InOrder(m)
    BY <1>1, <1>2, <1>3, <1>5, <2>2 DEF InOrder, Remembered
  <2> QED BY <2>1, <2>2
<1>7. News \subseteq 1 .. (n - 1) /\ News' \subseteq 1 .. n
  BY <1>1 DEF News
<1>8. \A k \in 1 .. n : k \in 1 .. (n - 1) \/ k = n
  BY <1>1
<1>9. n \notin 1 .. (n - 1)
  BY <1>1
<1>10. CASE Interesting(m) /\ InOrder(m)
  BY <1>4, <1>6, <1>7, <1>8, <1>10 DEF n
<1>11. CASE ~(Interesting(m) /\ InOrder(m))
  BY <1>4, <1>6, <1>7, <1>8, <1>9, <1>11
<1> QED BY <1>10, <1>11

\* So it is with the news of one kind and side.
LEMMA KindOfOneMore ==
    ASSUME delivered \in Seq(Messages), Remembered, NEW m \in Messages,
           delivered' = Append(delivered, m), NEW t, NEW s
    PROVE  /\ Interesting(m) /\ InOrder(m) /\ m.trade_type = t /\ m.side = s =>
                Of(t, s)' = Of(t, s) \cup {Len(delivered) + 1}
           /\ ~(Interesting(m) /\ InOrder(m) /\ m.trade_type = t /\ m.side = s) =>
                Of(t, s)' = Of(t, s)
<1> DEFINE n == Len(delivered) + 1
<1>1. /\ DOMAIN delivered = 1 .. (n - 1) /\ n \in Nat
      /\ delivered'[n] = m /\ \A k \in 1 .. (n - 1) : delivered'[k] = delivered[k]
  OBVIOUS
<1>2. News \subseteq 1 .. (n - 1) /\ n \notin 1 .. (n - 1)
  BY <1>1 DEF News
<1>3. /\ Interesting(m) /\ InOrder(m) => News' = News \cup {n}
      /\ ~(Interesting(m) /\ InOrder(m)) => News' = News
  BY NewsOfOneMore
<1> HIDE DEF n
<1>4. \A k \in News : delivered'[k] = delivered[k]
  BY <1>1, <1>2
<1>5. CASE ~(Interesting(m) /\ InOrder(m))
  BY <1>3, <1>4, <1>5 DEF Of
<1>6. CASE Interesting(m) /\ InOrder(m)
  <2>1. News' = News \cup {n}
    BY <1>3, <1>6
  <2>2. CASE m.trade_type = t /\ m.side = s
    <3>1. Of(t, s)' = Of(t, s) \cup {n}
      BY <1>1, <1>4, <2>1, <2>2 DEF Of
    <3> QED BY <1>6, <2>2, <3>1 DEF n
  <2>3. CASE ~(m.trade_type = t /\ m.side = s)
    <3>1. Of(t, s)' = Of(t, s)
      BY <1>1, <1>2, <1>4, <2>1, <2>3 DEF Of
    <3> QED BY <2>3, <3>1
  <2> QED BY <2>2, <2>3
<1> QED BY <1>5, <1>6

\* What one more message does to the contracts of the news, and of those of one kind
\* and side.
LEMMA ContractsOfOneMore ==
    ASSUME delivered \in Seq(Messages), Remembered, NEW m \in Messages,
           delivered' = Append(delivered, m)
    PROVE  /\ Contracts(News) \in Nat
           /\ Interesting(m) /\ InOrder(m) =>
                Contracts(News)' = Contracts(News) + bswap16(m.contracts)
           /\ ~(Interesting(m) /\ InOrder(m)) => Contracts(News)' = Contracts(News)
           /\ \A t, s :
                /\ Contracts(Of(t, s)) \in Nat
                /\ Interesting(m) /\ InOrder(m) /\ m.trade_type = t /\ m.side = s =>
                     Contracts(Of(t, s))' = Contracts(Of(t, s)) + bswap16(m.contracts)
                /\ ~(Interesting(m) /\ InOrder(m) /\ m.trade_type = t /\ m.side = s) =>
                     Contracts(Of(t, s))' = Contracts(Of(t, s))
<1> DEFINE c == bswap16(m.contracts)
           n == Len(delivered) + 1
<1>1. \A K \in SUBSET DOMAIN delivered :
         /\ Cardinality(Pieces(delivered, K)) \in Nat
         /\ Cardinality(Pieces(delivered', K)) = Cardinality(Pieces(delivered, K))
         /\ Cardinality(Pieces(delivered', K \cup {n})) = Cardinality(Pieces(delivered, K)) + c
  BY FinitePieces, OneMessageMore
<1> HIDE DEF c, n
<1>2. /\ Contracts(News) \in Nat
      /\ Interesting(m) /\ InOrder(m) => Contracts(News)' = Contracts(News) + c
      /\ ~(Interesting(m) /\ InOrder(m)) => Contracts(News)' = Contracts(News)
  <2>1. /\ Contracts(News) = Cardinality(Pieces(delivered, News))
        /\ Contracts(News)' = Cardinality(Pieces(delivered', News'))
    BY DEF Contracts, Pieces
  <2>2. News \in SUBSET DOMAIN delivered
    BY DEF News
  <2>3. /\ Interesting(m) /\ InOrder(m) => News' = News \cup {n}
        /\ ~(Interesting(m) /\ InOrder(m)) => News' = News
    BY NewsOfOneMore DEF n
  <2> QED BY <1>1, <2>1, <2>2, <2>3
<1>3. ASSUME NEW t, NEW s
      PROVE  /\ Contracts(Of(t, s)) \in Nat
             /\ Interesting(m) /\ InOrder(m) /\ m.trade_type = t /\ m.side = s =>
                  Contracts(Of(t, s))' = Contracts(Of(t, s)) + c
             /\ ~(Interesting(m) /\ InOrder(m) /\ m.trade_type = t /\ m.side = s) =>
                  Contracts(Of(t, s))' = Contracts(Of(t, s))
  <2>1. /\ Contracts(Of(t, s)) = Cardinality(Pieces(delivered, Of(t, s)))
        /\ Contracts(Of(t, s))' = Cardinality(Pieces(delivered', Of(t, s)'))
    BY DEF Contracts, Pieces
  <2>2. Of(t, s) \in SUBSET DOMAIN delivered
    BY DEF News, Of
  <2>3. /\ Interesting(m) /\ InOrder(m) /\ m.trade_type = t /\ m.side = s =>
             Of(t, s)' = Of(t, s) \cup {n}
        /\ ~(Interesting(m) /\ InOrder(m) /\ m.trade_type = t /\ m.side = s) =>
             Of(t, s)' = Of(t, s)
    BY KindOfOneMore DEF n
  <2> QED BY <1>1, <2>1, <2>2, <2>3
<1> QED BY <1>2, <1>3 DEF c

\* A message of the feed, counted or ignored.
LEMMA DeliverIInv ==
    ASSUME FeedIInv, running = "feed", running' = running, NEW m \in Messages, Deliver(m)
    PROVE  FeedIInv'
<1> DEFINE counts == Interesting(m) /\ InOrder(m)
           c == bswap16(m.contracts)
           n == Len(delivered) + 1
           most == (w16 - 1) * Len(delivered)
<1>1. /\ delivered \in Seq(Messages) /\ Remembered /\ Counted /\ Reported
      /\ delivered' = Append(delivered, m) /\ Len(delivered) < FeedBound
      /\ process_execution(m)
  BY DEF FeedIInv, Deliver
<1>2. /\ delivered' \in Seq(Messages) /\ n \in Nat \ {0} /\ Len(delivered') = n
      /\ DOMAIN delivered = 1 .. (n - 1) /\ DOMAIN delivered' = 1 .. n
      /\ delivered'[n] = m /\ \A k \in 1 .. (n - 1) : delivered'[k] = delivered[k]
  BY <1>1
<1>3. n <= FeedBound
  BY <1>1, FeedAssumption
<1>4. c \in 0 .. (w16 - 1) /\ w16 - 1 \in Nat /\ Id(m) \in Nat /\ m.side \in {"B", "S"}
  BY Swapped, Shorts
<1>5. /\ counts => /\ old_message_id' = Id(m)
                   /\ contracts_processed' = contracts_processed + c
                   /\ puts_count' = puts_count + (IF m.trade_type # "P" THEN 0
                                                  ELSE IF m.side = "B" THEN c ELSE - c)
                   /\ calls_count' = calls_count + (IF m.trade_type # "C" THEN 0
                                                    ELSE IF m.side = "B" THEN c ELSE - c)
                   /\ status3' = IF risk(m) > RISK_THRESHOLD THEN "00BADBAD" ELSE status3
      /\ ~counts => UNCHANGED <<old_message_id, contracts_processed, puts_count, calls_count, status3>>
  <2>1. CASE ~counts
    BY <1>1, <2>1 DEF process_execution, positions
  <2>2. CASE counts
    <3>1. puts_count \in Int /\ calls_count \in Int
      BY <1>1, <1>4 DEF Counted
    <3>2. Account(m) /\ status3' = IF risk(m) > RISK_THRESHOLD THEN "00BADBAD" ELSE status3
      BY <1>1, <2>2 DEF process_execution
    <3> QED BY <1>4, <2>2, <3>1, <3>2 DEF Account
  <2> QED BY <2>1, <2>2
<1> HIDE DEF counts, c, n
<1>6. Remembered'
  <2>1. Id(m) \in Nat /\ old_message_id \in Nat /\ \A k \in 1 .. (n - 1) : Id(delivered[k]) \in Nat
    <3>1. \A k \in 1 .. (n - 1) : delivered[k] \in Messages
      BY <1>1, <1>2
    <3> QED BY <1>1, <1>4, <3>1, Swapped DEF Remembered
  <2>2. \A k \in 1 .. n : k \in 1 .. (n - 1) \/ k = n
    BY <1>2
  <2>3. n \in 1 .. n /\ \A k \in 1 .. (n - 1) : k \in 1 .. n
    BY <1>2
  <2>4. CASE counts
    <3>1. Id(m) > old_message_id /\ Interesting(m)
      BY <2>4 DEF counts, InOrder
    <3> QED BY <1>1, <1>2, <1>5, <2>1, <2>2, <2>3, <2>4, <3>1 DEF Remembered
  <2>5. CASE ~counts
    <3>1. Interesting(m) => Id(m) <= old_message_id
      BY <2>1, <2>5 DEF counts, InOrder
    <3>2. old_message_id' = old_message_id
      BY <1>5, <2>5
    <3> QED BY <1>1, <1>2, <2>1, <2>2, <2>3, <3>1, <3>2 DEF Remembered
  <2> QED BY <2>4, <2>5
<1>7. /\ Contracts(News) \in Nat
      /\ counts => Contracts(News)' = Contracts(News) + c
      /\ ~counts => Contracts(News)' = Contracts(News)
      /\ \A t, s : /\ Contracts(Of(t, s)) \in Nat
                   /\ counts /\ m.trade_type = t /\ m.side = s =>
                        Contracts(Of(t, s))' = Contracts(Of(t, s)) + c
                   /\ ~(counts /\ m.trade_type = t /\ m.side = s) =>
                        Contracts(Of(t, s))' = Contracts(Of(t, s))
  BY <1>1, ContractsOfOneMore DEF counts, c
<1>8. /\ contracts_processed' = Contracts(News)'
      /\ puts_count' = Contracts(Of("P", "B"))' - Contracts(Of("P", "S"))'
      /\ calls_count' = Contracts(Of("C", "B"))' - Contracts(Of("C", "S"))'
  <2> DEFINE cn == Contracts(News)
             pb == Contracts(Of("P", "B"))
             ps == Contracts(Of("P", "S"))
             cb == Contracts(Of("C", "B"))
             cs == Contracts(Of("C", "S"))
  <2>1. /\ contracts_processed = cn /\ puts_count = pb - ps /\ calls_count = cb - cs
        /\ cn \in Nat /\ pb \in Nat /\ ps \in Nat /\ cb \in Nat /\ cs \in Nat
    BY <1>1, <1>7 DEF Counted
  <2>2. /\ pb' = IF counts /\ m.trade_type = "P" /\ m.side = "B" THEN pb + c ELSE pb
        /\ ps' = IF counts /\ m.trade_type = "P" /\ m.side = "S" THEN ps + c ELSE ps
        /\ cb' = IF counts /\ m.trade_type = "C" /\ m.side = "B" THEN cb + c ELSE cb
        /\ cs' = IF counts /\ m.trade_type = "C" /\ m.side = "S" THEN cs + c ELSE cs
        /\ cn' = IF counts THEN cn + c ELSE cn
    BY <1>7
  <2> HIDE DEF cn, pb, ps, cb, cs
  <2>3. contracts_processed' = cn' /\ puts_count' = pb' - ps' /\ calls_count' = cb' - cs'
    BY <1>4, <1>5, <2>1, <2>2
  <2> QED BY <2>3 DEF cn, pb, ps, cb, cs
<1>9. LET more == (w16 - 1) * Len(delivered')
      IN  /\ contracts_processed' \in 0 .. more
          /\ puts_count' \in - more .. more
          /\ calls_count' \in - more .. more
  <2>1. (w16 - 1) * n = most + (w16 - 1) /\ most \in Nat
    <3>1. \A x, l \in Nat : x * (l + 1) = x * l + x /\ x * l \in Nat
      OBVIOUS
    <3>2. w16 - 1 \in Nat /\ Len(delivered) \in Nat
      BY <1>1, <1>4
    <3> QED BY <3>1, <3>2, Zenon DEF n
  <2>2. contracts_processed \in 0 .. most /\ puts_count \in - most .. most /\ calls_count \in - most .. most
    BY <1>1 DEF Counted
  <2> DEFINE w == w16 - 1
             more == w * n
  <2>3. more = most + w /\ w \in Nat /\ c \in 0 .. w
    BY <1>4, <2>1
  <2> HIDE DEF most, w, more
  <2>4. contracts_processed' \in 0 .. more
    BY <1>5, <2>1, <2>2, <2>3
  <2>5. puts_count' \in - more .. more
    BY <1>5, <2>1, <2>2, <2>3
  <2>6. calls_count' \in - more .. more
    BY <1>5, <2>1, <2>2, <2>3
  <2> QED BY <1>2, <2>4, <2>5, <2>6 DEF more, w
<1>10. Counted'
  BY <1>8, <1>9 DEF Counted
<1>11. Reported'
  <2>1. /\ counts => News' = News \cup {n}
        /\ ~counts => News' = News
    BY <1>1, NewsOfOneMore DEF counts, n
  <2>2. \A k \in News : delivered'[k] = delivered[k]
    BY <1>2 DEF News
  <2>3. (status3 = "00BADBAD") <=> \E k \in News : risk(delivered[k]) > RISK_THRESHOLD
    BY <1>1 DEF Reported
  <2>4. (status3' = "00BADBAD") <=> \E k \in News' : risk(delivered'[k]) > RISK_THRESHOLD
    <3>1. CASE counts
      BY <1>2, <1>5, <2>1, <2>2, <2>3, <3>1
    <3>2. CASE ~counts
      BY <1>5, <2>1, <2>2, <2>3, <3>2
    <3> QED BY <3>1, <3>2
  <2> QED BY <2>4 DEF Reported
<1> QED BY <1>2, <1>3, <1>6, <1>10, <1>11 DEF FeedIInv

\* What a feed has been accounted for is inductive.
THEOREM FeedInductive == Spec => []FeedIInv
<1>1. Init => FeedIInv
  <2> SUFFICES ASSUME Init PROVE FeedIInv
    OBVIOUS
  <2>1. /\ delivered = <<>> /\ old_message_id = 0 /\ contracts_processed = 0 /\ puts_count = 0
        /\ calls_count = 0 /\ status3 = "FEFEFEFE"
    BY DEF Init, Comp3Init
  <2>2. delivered \in Seq(Messages) /\ Len(delivered) = 0 /\ DOMAIN delivered = {}
    BY <2>1
  <2>3. News = {} /\ \A t, s : Of(t, s) = {}
    BY <2>2 DEF News, Of
  <2>4. Contracts({}) = 0
    <3>1. UNION {{k} \X (1 .. bswap16(delivered[k].contracts)) : k \in {}} = {}
      OBVIOUS
    <3> QED BY <3>1, FS_EmptySet DEF Contracts
  <2>5. Remembered
    BY <2>1, <2>2 DEF Remembered
  <2>6. Counted
    <3>1. (w16 - 1) * Len(delivered) = 0
      BY <2>2, Shorts
    <3>2. /\ Contracts(News) = 0
          /\ Contracts(Of("P", "B")) = 0 /\ Contracts(Of("P", "S")) = 0
          /\ Contracts(Of("C", "B")) = 0 /\ Contracts(Of("C", "S")) = 0
      BY <2>3, <2>4
    <3> QED BY <2>1, <3>1, <3>2 DEF Counted
  <2>7. Reported
    BY <2>1, <2>3 DEF Reported
  <2> QED BY <2>1, <2>2, <2>5, <2>6, <2>7, FeedAssumption DEF FeedIInv
<1>2. FeedIInv /\ [Next]_vars => FeedIInv'
  <2> SUFFICES ASSUME FeedIInv, [Next]_vars PROVE FeedIInv'
    OBVIOUS
  <2>1. CASE Feed
    <3>1. running = "feed" /\ running' = running /\ FeedNext
      BY <2>1 DEF Feed
    <3>2. PICK m \in Messages : Deliver(m)
      BY <3>1 DEF FeedNext
    <3> QED BY <3>1, <3>2, DeliverIInv
  <2>2. CASE Comp1 \/ Comp2 \/ Comp3 \/ Arithmetic \/ Stub
    <3>1. running' = running /\ running # "feed" /\ delivered' = delivered
      BY <2>2 DEF Comp1, Comp2, Comp3, Arithmetic, Stub, comp3Vars, Comp3Next, ProcessNext, AllProcessed
    <3> QED BY <3>1 DEF FeedIInv
  <2>3. CASE UNCHANGED vars
    <3>1. /\ running' = running /\ delivered' = delivered /\ old_message_id' = old_message_id
          /\ contracts_processed' = contracts_processed /\ puts_count' = puts_count
          /\ calls_count' = calls_count /\ status3' = status3
      BY <2>3 DEF vars, comp3Vars, positions
    <3>2. News' = News
      BY <3>1 DEF News
    <3>3. \A t, s : Of(t, s)' = Of(t, s)
      BY <3>1, <3>2 DEF Of
    <3>4. Contracts(News)' = Contracts(News) /\ \A t, s : Contracts(Of(t, s))' = Contracts(Of(t, s))
      BY <3>1, <3>2, <3>3 DEF Contracts
    <3>5. Remembered' = Remembered /\ Reported' = Reported /\ Counted' = Counted
      BY <3>1, <3>2, <3>4 DEF Remembered, Reported, Counted
    <3> QED BY <3>1, <3>5 DEF FeedIInv
  <2> QED BY <2>1, <2>2, <2>3 DEF Next
<1> QED BY <1>1, <1>2, PTL DEF Spec

\* However a feed repeats and reorders its messages, process_execution counts each
\* notice that is news once and no other, and the bad status stands exactly if one of
\* them was too risky.  MessagesAssumption limits the messages: a side is B or S and a
\* price is below 2^28.
THEOREM FeedIsAccounted == Spec => []PositionsFollowTheFeed
<1>1. FeedIInv => PositionsFollowTheFeed
  BY DEF FeedIInv, PositionsFollowTheFeed, Counted, Reported
<1> QED BY <1>1, FeedInductive, PTL

\* The counters stay in an unsigned and two signed words (comp3.c lines 59-61).
CountersFit ==
    running = "feed" =>
      /\ contracts_processed \in 0 .. (w8 * w24 - 1)
      /\ puts_count \in - (128 * w24) .. (128 * w24 - 1)
      /\ calls_count \in - (128 * w24) .. (128 * w24 - 1)

\* No counter of comp3.c overflows within FeedBound messages, so that the numbers of
\* the model, which have no width, are those of the program.
THEOREM FeedNeverOverflows == Spec => []CountersFit
<1>1. FeedIInv => CountersFit
  <2> SUFFICES ASSUME FeedIInv, running = "feed" PROVE CountersFit
    BY DEF CountersFit
  <2> DEFINE l == Len(delivered)
             most == (w16 - 1) * l
             top == 128 * w24
  <2>1. /\ contracts_processed \in 0 .. most
        /\ puts_count \in - most .. most
        /\ calls_count \in - most .. most
    BY DEF FeedIInv, Counted
  <2>2. l \in Nat /\ l <= 128 * w8
    <3>1. l \in Nat /\ l <= FeedBound /\ FeedBound \in Nat /\ FeedBound <= 128 * w8
      BY FeedAssumption DEF FeedIInv
    <3>2. 128 * w8 \in Nat
      BY DEF w8
    <3> HIDE DEF l
    <3> QED BY <3>1, <3>2
  <2>3. w8 \in Nat /\ w8 = 2 * 128 /\ w16 = w8 * w8 /\ w24 = w8 * w16 /\ w16 - 1 \in Nat
    BY Shorts DEF w8, w16, w24
  <2>4. most <= (w16 - 1) * (128 * w8) /\ most \in Nat
    <3>1. \A x, y, z \in Nat : y <= z => x * y <= x * z /\ x * y \in Nat
      OBVIOUS
    <3>2. 128 * w8 \in Nat
      BY <2>3
    <3> QED BY <2>2, <2>3, <3>1, <3>2
  <2>5. most < top /\ top \in Nat
    <3>1. (w16 - 1) * (128 * w8) = 128 * (w8 * w16) - 128 * w8
      <4>1. \A x, y \in Int : (x - 1) * (128 * y) = 128 * (y * x) - 128 * y
        OBVIOUS
      <4> QED BY <2>3, <4>1
    <3>2. 128 * w8 > 0 /\ w8 * w16 \in Nat
      BY <2>3
    <3> QED BY <2>3, <2>4, <3>1, <3>2
  <2>6. top <= w8 * w24
    <3>1. \A x \in Nat : 128 * x <= (2 * 128) * x
      OBVIOUS
    <3>2. w24 \in Nat
      BY <2>3
    <3> QED BY <2>3, <3>1, <3>2
  <2> DEFINE words == w8 * w24
  <2>7. top <= words /\ words \in Nat
    BY <2>3, <2>6
  <2> HIDE DEF most, l, top, words
  <2>8. /\ contracts_processed \in 0 .. (words - 1)
        /\ puts_count \in - top .. (top - 1)
        /\ calls_count \in - top .. (top - 1)
    BY <2>1, <2>4, <2>5, <2>7
  <2> QED BY <2>8 DEF CountersFit, top, words
<1> QED BY <1>1, FeedInductive, PTL
=============================================================================
