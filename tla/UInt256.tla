------------------------------ MODULE UInt256 ------------------------------
(***************************************************************************)
(* The 256-bit arithmetic of src/eth/uint256.c that the application uses:  *)
(* a uint256_t is a pair of uint128_t, which is a pair of 64-bit words,    *)
(* upper half first.  The widths are parameters, so that TLC can compare   *)
(* with the integers: a byte has ByteBits bits, a word WordBytes bytes.    *)
(*                                                                         *)
(* Shifts by the width and by zero, separate cases in C, are covered by    *)
(* their neighbours here: w * 2^0 = w and w \div 2^WordBits = 0.           *)
(***************************************************************************)
EXTENDS Texts

CONSTANTS ByteBits, WordBytes

ASSUME WidthAssumption == ByteBits \in Nat \ {0} /\ WordBytes \in Nat \ {0}

WordBits      == ByteBits * WordBytes
Word          == 2^WordBits
INT256_LENGTH == 4 * WordBytes

-----------------------------------------------------------------------------
Zero128 == << 0, 0 >>
Zero256 == << Zero128, Zero128 >>
Small(n) == << Zero128, << 0, n >> >>

\* convertUint256BE, readu256BE: bytes aligned to the right, then word by word.
FromBytes(s) ==
  LET pad == INT256_LENGTH - Len(s)
      byte(i) == IF i <= pad THEN 0 ELSE s[i - pad]
      word(k) == Number([i \in 1..WordBytes |-> byte(k * WordBytes + i)], 2^ByteBits)
  IN << << word(0), word(1) >>, << word(2), word(3) >> >>

Gt128(x, y) == IF x[1] = y[1] THEN x[2] > y[2] ELSE x[1] > y[1]
Gt256(x, y) == IF x[1] = y[1] THEN Gt128(x[2], y[2]) ELSE Gt128(x[1], y[1])

\* A seeded fault: equal is not enough.
GteStrict(x, y) == Gt256(x, y)

Gte256(x, y) == Gt256(x, y) \/ x = y

\* A carry out of a word shows as a sum below the first operand.
Add128(x, y) ==
  LET low == (x[2] + y[2]) % Word
  IN << (x[1] + y[1] + (IF low < x[2] THEN 1 ELSE 0)) % Word, low >>

\* A seeded fault: no carry between the halves.
AddNoCarry(x, y) == << Add128(x[1], y[1]), Add128(x[2], y[2]) >>

Add256(x, y) ==
  LET high == Add128(x[1], y[1])
      low  == Add128(x[2], y[2])
  IN << IF Gt128(x[2], low) THEN Add128(high, << 0, 1 >>) ELSE high, low >>

Minus128(x, y) ==
  LET low == (x[2] - y[2]) % Word
  IN << (x[1] - y[1] - (IF low > x[2] THEN 1 ELSE 0)) % Word, low >>

\* A seeded fault: no borrow between the halves.
MinusNoBorrow(x, y) == << Minus128(x[1], y[1]), Minus128(x[2], y[2]) >>

Minus256(x, y) ==
  LET high == Minus128(x[1], y[1])
      low  == Minus128(x[2], y[2])
  IN << IF Gt128(low, x[2]) THEN Minus128(high, << 0, 1 >>) ELSE high, low >>

Shiftl128(x, n) ==
  IF n < WordBits
  THEN << (x[1] * 2^n + x[2] \div 2^(WordBits - n)) % Word, (x[2] * 2^n) % Word >>
  ELSE IF n < 2 * WordBits THEN << (x[2] * 2^(n - WordBits)) % Word, 0 >>
  ELSE Zero128

\* A seeded fault: the upper word is not cut to its bits.
ShiftrUncut(x, n) ==
  IF n < WordBits
  THEN << x[1] \div 2^n, x[1] * 2^(WordBits - n) + x[2] \div 2^n >>
  ELSE << 0, x[1] \div 2^(n - WordBits) >>

Shiftr128(x, n) ==
  IF n < WordBits
  THEN << x[1] \div 2^n, (x[1] * 2^(WordBits - n) + x[2] \div 2^n) % Word >>
  ELSE IF n < 2 * WordBits THEN << 0, x[1] \div 2^(n - WordBits) >>
  ELSE Zero128

Shiftl256(x, n) ==
  IF n < 2 * WordBits
  THEN << Add128(Shiftl128(x[1], n), Shiftr128(x[2], 2 * WordBits - n)),
          Shiftl128(x[2], n) >>
  ELSE << Shiftl128(x[2], n - 2 * WordBits), Zero128 >>

Shiftr256(x, n) ==
  IF n < 2 * WordBits
  THEN << Shiftr128(x[1], n),
          Add128(Shiftr128(x[2], n), Shiftl128(x[1], 2 * WordBits - n)) >>
  ELSE << Zero128, Shiftr128(x[1], n - 2 * WordBits) >>

BitsOfWord(w) == Cardinality({ i \in 0..(WordBits - 1) : w \div 2^i > 0 })

Bits128(x) == IF x[1] # 0 THEN WordBits + BitsOfWord(x[1]) ELSE BitsOfWord(x[2])
Bits256(x) == IF x[1] # Zero128 THEN 2 * WordBits + Bits128(x[1]) ELSE Bits128(x[2])

\* Bit by bit, the highest one first.
OrWords(v, w) ==
  LET bit(n, i) == (n \div 2^i) % 2
  IN Number([i \in 1..WordBits |->
               IF bit(v, WordBits - i) + bit(w, WordBits - i) > 0 THEN 1 ELSE 0], 2)

Or256(x, y) ==
  << << OrWords(x[1][1], y[1][1]), OrWords(x[1][2], y[1][2]) >>,
     << OrWords(x[2][1], y[2][1]), OrWords(x[2][2], y[2][2]) >> >>

\* The number, and back, modulo 2^256.
Modulus == 2^(4 * WordBits)
Value(x) == ((x[1][1] * Word + x[1][2]) * Word + x[2][1]) * Word + x[2][2]
Words(n) ==
  LET word(k) == (n \div 2^(k * WordBits)) % Word
  IN << << word(3), word(2) >>, << word(1), word(0) >> >>

\* mul256 on cx_math_mult: the lower half of the product.
Mul256(x, y) == Words(Value(x) * Value(y))
============================================================================
