---------------------------- MODULE UInt256Proofs ----------------------------
(***************************************************************************)
(* The operations of UInt256 compute what their names say, for every width *)
(* of the bytes and of the words.  A number of 128 bits is a pair of words *)
(* and one of 256 bits a pair of such pairs, so that what holds of pairs   *)
(* of digits to any base is used twice.                                    *)
(***************************************************************************)
EXTENDS UInt256, TextsProofs

-----------------------------------------------------------------------------
\* Quotients.

\* Quotient and remainder.
LEMMA Euclid ==
  ASSUME NEW n \in Int, NEW q \in Nat \ {0}
  PROVE  /\ n \div q \in Int /\ n % q \in 0..(q - 1)
         /\ n = q * (n \div q) + (n % q)
OBVIOUS

\* There is only one quotient and one remainder.
LEMMA QuotientIs ==
  ASSUME NEW k \in Int, NEW q \in Nat \ {0}, NEW r \in 0..(q - 1)
  PROVE  (q * k + r) \div q = k /\ (q * k + r) % q = r
OBVIOUS

\* Two digits are less than the product of their bases.
LEMMA HalvesRange ==
  ASSUME NEW M \in Nat \ {0}, NEW N \in Nat \ {0}, NEW a \in 0..(N - 1), NEW b \in 0..(M - 1)
  PROVE  a * M + b \in 0..(N * M - 1)
OBVIOUS

\* What is shifted out of the lower digit of two is shifted into the upper one.
ShiftsLeft(M, p, q, a, b) ==
  ((a * p + (b \div q)) % M) * M + ((b * p) % M) = ((a * M + b) * p) % (M * M)

\* So it is for every base that is a product.
LEMMA ShiftLeft ==
  ASSUME NEW p \in Nat \ {0}, NEW q \in Nat \ {0}, NEW M, M = p * q,
         NEW a \in 0..(M - 1), NEW b \in 0..(M - 1)
  PROVE  ShiftsLeft(M, p, q, a, b)
<1> DEFINE u == b \div q
           v == b % q
           h == a * p + u
           k == h \div M
           r == h % M
<1>0. M \in Nat \ {0} /\ M * M \in Nat \ {0}
  OBVIOUS
<1>1. u \in Int /\ v \in 0..(q - 1) /\ b = q * u + v
  BY Euclid
<1>2. v * p \in 0..(M - 1)
  <2> HIDE DEF v
  <2> QED BY <1>1
<1>3. b * p = M * u + v * p
  <2> HIDE DEF u, v
  <2> QED BY <1>1
<1>4. (b * p) % M = v * p
  <2> HIDE DEF u, v
  <2>1. PICK w \in 0..(M - 1) : w = v * p
    BY <1>2
  <2>2. (M * u + w) % M = w
    BY <1>0, <1>1, QuotientIs
  <2> QED BY <1>3, <2>1, <2>2
<1>5. h \in Int
  <2> HIDE DEF u
  <2> QED BY <1>1
<1>6. k \in Int /\ r \in 0..(M - 1) /\ h = M * k + r
  <2> HIDE DEF h
  <2> QED BY <1>0, <1>5, Euclid
<1>7. (a * M + b) * p = h * M + v * p
  <2>1. (a * M + b) * p = (a * p) * M + b * p
    OBVIOUS
  <2> HIDE DEF u, v
  <2> QED BY <1>0, <1>1, <1>3, <2>1
<1>8. h * M + v * p = (M * M) * k + (r * M + v * p)
  <2>1. PICK w \in Int : w = v * p
    BY <1>2
  <2> HIDE DEF h, k, r, v
  <2> QED BY <1>0, <1>6, <2>1
<1>9. r * M + v * p \in 0..(M * M - 1)
  <2> HIDE DEF r, v
  <2> QED BY <1>0, <1>2, <1>6, HalvesRange
<1>10. ((a * M + b) * p) % (M * M) = r * M + v * p
  <2> HIDE DEF r, v, k, h
  <2>1. PICK N \in Nat \ {0} : N = M * M
    BY <1>0
  <2>2. PICK w \in 0..(N - 1) : w = r * M + v * p
    BY <1>9, <2>1
  <2>3. (N * k + w) % N = w
    BY <1>6, QuotientIs
  <2> QED BY <1>7, <1>8, <2>1, <2>2, <2>3
<1> HIDE DEF r, v
<1> QED BY <1>4, <1>10 DEF r, ShiftsLeft

-----------------------------------------------------------------------------
\* Numbers of two digits to a base M.
Pairs(M) == (0..(M - 1)) \X (0..(M - 1))
PairValue(M, x) == x[1] * M + x[2]

\* A pair consists of its digits.
LEMMA PairFields ==
  ASSUME NEW M, NEW x \in Pairs(M)
  PROVE  x = << x[1], x[2] >> /\ x[1] \in 0..(M - 1) /\ x[2] \in 0..(M - 1)
BY DEF Pairs

\* Two digits to the base M are a number below M * M.
LEMMA PairType ==
  ASSUME NEW M \in Nat \ {0}, NEW x \in Pairs(M)
  PROVE  PairValue(M, x) \in 0..(M * M - 1)
<1>1. x[1] \in 0..(M - 1) /\ x[2] \in 0..(M - 1)
  BY PairFields
<1> QED BY <1>1, HalvesRange DEF PairValue

\* Equal numbers have equal digits.
LEMMA PairsEqual ==
  ASSUME NEW M \in Nat \ {0}, NEW x \in Pairs(M), NEW y \in Pairs(M),
         PairValue(M, x) = PairValue(M, y)
  PROVE  x = y
<1>1. /\ x[1] \in 0..(M - 1) /\ x[2] \in 0..(M - 1)
      /\ y[1] \in 0..(M - 1) /\ y[2] \in 0..(M - 1)
  BY PairFields
<1>2. PICK a \in 0..(M - 1), b \in 0..(M - 1), c \in 0..(M - 1), d \in 0..(M - 1) :
        a = x[1] /\ b = x[2] /\ c = y[1] /\ d = y[2]
  BY <1>1
<1>5. a * M + b = c * M + d
  BY <1>2, Zenon DEF PairValue
<1>6. a = c /\ b = d
  BY ONLY <1>5, M \in Nat \ {0}, a \in 0..(M - 1), b \in 0..(M - 1), c \in 0..(M - 1), d \in 0..(M - 1)
<1>3. x[1] = y[1] /\ x[2] = y[2]
  BY <1>2, <1>6
<1>4. x = << x[1], x[2] >> /\ y = << y[1], y[2] >>
  BY PairFields
<1> QED BY <1>3, <1>4, Zenon

\* Numbers compare as their digits do, the upper ones first.
LEMMA PairGreater ==
  ASSUME NEW M \in Nat \ {0}, NEW x \in Pairs(M), NEW y \in Pairs(M)
  PROVE  PairValue(M, x) > PairValue(M, y)
           <=> (IF x[1] = y[1] THEN x[2] > y[2] ELSE x[1] > y[1])
<1>1. /\ x[1] \in 0..(M - 1) /\ x[2] \in 0..(M - 1)
      /\ y[1] \in 0..(M - 1) /\ y[2] \in 0..(M - 1)
  BY PairFields
<1>2. x[1] * M + x[2] > y[1] * M + y[2]
           <=> (IF x[1] = y[1] THEN x[2] > y[2] ELSE x[1] > y[1])
  BY <1>1
<1> QED BY <1>2, Zenon DEF PairValue

\* A carry shows as a sum below the first operand.
LEMMA PairSum ==
  ASSUME NEW M \in Nat \ {0}, NEW x \in Pairs(M), NEW y \in Pairs(M), NEW low, NEW high,
         low = (x[2] + y[2]) % M,
         high = (x[1] + y[1] + (IF low < x[2] THEN 1 ELSE 0)) % M
  PROVE  /\ << high, low >> \in Pairs(M)
         /\ PairValue(M, << high, low >>) = (PairValue(M, x) + PairValue(M, y)) % (M * M)
<1>1. /\ x[1] \in 0..(M - 1) /\ x[2] \in 0..(M - 1)
      /\ y[1] \in 0..(M - 1) /\ y[2] \in 0..(M - 1)
  BY PairFields
<1>2. PICK a \in 0..(M - 1), b \in 0..(M - 1), c \in 0..(M - 1), d \in 0..(M - 1) :
        a = x[1] /\ b = x[2] /\ c = y[1] /\ d = y[2]
  BY <1>1
<1>3. low = (b + d) % M /\ high = (a + c + (IF low < b THEN 1 ELSE 0)) % M
  BY <1>2
<1>4. /\ low \in 0..(M - 1) /\ high \in 0..(M - 1)
      /\ high * M + low = ((a * M + b) + (c * M + d)) % (M * M)
  BY ONLY <1>3, M \in Nat \ {0}, a \in 0..(M - 1), b \in 0..(M - 1), c \in 0..(M - 1), d \in 0..(M - 1)
<1>5. << high, low >> \in Pairs(M)
  BY <1>4 DEF Pairs
<1>6. PairValue(M, << high, low >>) = high * M + low
  BY DEF PairValue
<1>7. PairValue(M, x) = a * M + b /\ PairValue(M, y) = c * M + d
  BY <1>2, Zenon DEF PairValue
<1> QED BY <1>4, <1>5, <1>6, <1>7, Zenon

\* Subtracting with a borrow is subtracting modulo M * M.
LEMMA PairDifference ==
  ASSUME NEW M \in Nat \ {0}, NEW x \in Pairs(M), NEW y \in Pairs(M), NEW low, NEW high,
         low = (x[2] - y[2]) % M,
         high = (x[1] - y[1] - (IF low > x[2] THEN 1 ELSE 0)) % M
  PROVE  /\ << high, low >> \in Pairs(M)
         /\ PairValue(M, << high, low >>) = (PairValue(M, x) - PairValue(M, y)) % (M * M)
<1>1. /\ x[1] \in 0..(M - 1) /\ x[2] \in 0..(M - 1)
      /\ y[1] \in 0..(M - 1) /\ y[2] \in 0..(M - 1)
  BY PairFields
<1>2. PICK a \in 0..(M - 1), b \in 0..(M - 1), c \in 0..(M - 1), d \in 0..(M - 1) :
        a = x[1] /\ b = x[2] /\ c = y[1] /\ d = y[2]
  BY <1>1
<1>3. low = (b - d) % M /\ high = (a - c - (IF low > b THEN 1 ELSE 0)) % M
  BY <1>2
<1>4. /\ low \in 0..(M - 1) /\ high \in 0..(M - 1)
      /\ high * M + low = ((a * M + b) - (c * M + d)) % (M * M)
  BY ONLY <1>3, M \in Nat \ {0}, a \in 0..(M - 1), b \in 0..(M - 1), c \in 0..(M - 1), d \in 0..(M - 1)
<1>5. << high, low >> \in Pairs(M)
  BY <1>4 DEF Pairs
<1>6. PairValue(M, << high, low >>) = high * M + low
  BY DEF PairValue
<1>7. PairValue(M, x) = a * M + b /\ PairValue(M, y) = c * M + d
  BY <1>2, Zenon DEF PairValue
<1> QED BY <1>4, <1>5, <1>6, <1>7, Zenon

\* Shifting both digits, with what leaves the lower one, multiplies.
LEMMA PairShiftedLeft ==
  ASSUME NEW p \in Nat \ {0}, NEW q \in Nat \ {0}, NEW M, M = p * q,
         NEW x \in Pairs(M), NEW low, NEW high,
         low = (x[2] * p) % M, high = (x[1] * p + (x[2] \div q)) % M
  PROVE  /\ << high, low >> \in Pairs(M)
         /\ PairValue(M, << high, low >>) = (PairValue(M, x) * p) % (M * M)
<1>0. M \in Nat \ {0}
  OBVIOUS
<1>1. x[1] \in 0..(M - 1) /\ x[2] \in 0..(M - 1)
  BY PairFields
<1>2. PICK a \in 0..(M - 1), b \in 0..(M - 1) : a = x[1] /\ b = x[2]
  BY <1>1
<1>3. low = (b * p) % M /\ high = (a * p + (b \div q)) % M
  BY <1>2
<1>4. low \in 0..(M - 1) /\ high \in 0..(M - 1)
  <2>1. PICK k \in Int : k = b * p
    BY <1>0
  <2>2. PICK l \in Int : l = a * p + (b \div q)
    BY <1>0
  <2> QED BY <1>0, <1>3, <2>1, <2>2
<1>5. << high, low >> \in Pairs(M)
  BY <1>4 DEF Pairs
<1>6. PairValue(M, << high, low >>) = high * M + low
  BY DEF PairValue
<1>7. PairValue(M, x) = a * M + b
  BY <1>2, Zenon DEF PairValue
<1>8. high * M + low = ((a * M + b) * p) % (M * M)
  <2>1. ShiftsLeft(M, p, q, a, b)
    BY ShiftLeft
  <2> QED BY <1>3, <2>1, Zenon DEF ShiftsLeft
<1> QED BY <1>5, <1>6, <1>7, <1>8, Zenon

\* Shifting both digits, with what leaves the upper one, divides.
LEMMA PairShiftedRight ==
  ASSUME NEW p \in Nat \ {0}, NEW q \in Nat \ {0}, NEW M, M = p * q,
         NEW x \in Pairs(M), NEW low, NEW high,
         high = x[1] \div p, low = (x[1] * q + (x[2] \div p)) % M
  PROVE  /\ << high, low >> \in Pairs(M)
         /\ PairValue(M, << high, low >>) = PairValue(M, x) \div p
<1>0. M \in Nat \ {0}
  OBVIOUS
<1>1. x[1] \in 0..(M - 1) /\ x[2] \in 0..(M - 1)
  BY PairFields
<1>2. PICK a \in 0..(M - 1), b \in 0..(M - 1) : a = x[1] /\ b = x[2]
  BY <1>1
<1>3. high = a \div p /\ low = (a * q + (b \div p)) % M
  BY <1>2
<1>4. low \in 0..(M - 1) /\ high \in 0..(M - 1)
  <2>1. PICK l \in Int : l = a * q + (b \div p)
    BY <1>0
  <2>2. low \in 0..(M - 1)
    BY <1>0, <1>3, <2>1
  <2>3. a \div p \in 0..a
    OBVIOUS
  <2> QED BY <1>0, <1>3, <2>2, <2>3
<1>5. << high, low >> \in Pairs(M)
  BY <1>4 DEF Pairs
<1>6. PairValue(M, << high, low >>) = high * M + low
  BY DEF PairValue
<1>7. PairValue(M, x) = a * M + b
  BY <1>2, Zenon DEF PairValue
<1>8. (a \div p) * M + ((a * q + (b \div p)) % M) = (a * M + b) \div p
  BY ONLY p \in Nat \ {0}, q \in Nat \ {0}, M = p * q,
     a \in 0..(M - 1), b \in 0..(M - 1)
<1> QED BY <1>3, <1>5, <1>6, <1>7, <1>8, Zenon
-----------------------------------------------------------------------------
\* Numbers of 128 bits.

Numbers128 == Pairs(Word)
Value128(x) == PairValue(Word, x)
Modulus128 == Word * Word

\* The bases are positive.
LEMMA Bases ==
  /\ WordBits \in Nat \ {0} /\ Word = 2^WordBits /\ Word \in Nat \ {0}
  /\ Modulus128 = 2^(2 * WordBits) /\ Modulus128 \in Nat \ {0}
<1>1. WordBits \in Nat \ {0}
  BY WidthAssumption DEF WordBits
<1>2. Word = 2^WordBits /\ Word \in Nat \ {0}
  BY <1>1, PowerType DEF Word
<1>3. Modulus128 = 2^(2 * WordBits)
  <2>1. WordBits \in Nat /\ 2 * WordBits = WordBits + WordBits
    BY <1>1
  <2>2. 2^(WordBits + WordBits) = 2^WordBits * 2^WordBits
    BY <2>1, PowerSum
  <2> QED BY <1>2, <2>1, <2>2 DEF Modulus128
<1>4. Modulus128 \in Nat \ {0}
  BY <1>2 DEF Modulus128
<1> QED BY <1>1, <1>2, <1>3, <1>4

\* A number of 128 bits is less than its modulus.
LEMMA Type128 ==
  ASSUME NEW x \in Numbers128
  PROVE  Value128(x) \in 0..(Modulus128 - 1)
BY Bases, PairType DEF Numbers128, Value128, Modulus128

\* gt128
LEMMA Greater128 ==
  ASSUME NEW x \in Numbers128, NEW y \in Numbers128
  PROVE  Gt128(x, y) <=> Value128(x) > Value128(y)
<1>1. PairValue(Word, x) > PairValue(Word, y)
        <=> (IF x[1] = y[1] THEN x[2] > y[2] ELSE x[1] > y[1])
  BY Bases, PairGreater, Zenon DEF Numbers128
<1> QED BY <1>1, Zenon DEF Gt128, Value128

\* add128
LEMMA Sum128 ==
  ASSUME NEW x \in Numbers128, NEW y \in Numbers128
  PROVE  /\ Add128(x, y) \in Numbers128
         /\ Value128(Add128(x, y)) = (Value128(x) + Value128(y)) % Modulus128
<1> DEFINE low == (x[2] + y[2]) % Word
           high == (x[1] + y[1] + (IF low < x[2] THEN 1 ELSE 0)) % Word
<1>1. Add128(x, y) = << high, low >>
  BY DEF Add128
<1>2. /\ << high, low >> \in Pairs(Word)
      /\ PairValue(Word, << high, low >>)
           = (PairValue(Word, x) + PairValue(Word, y)) % (Word * Word)
  BY Bases, PairSum DEF Numbers128
<1> HIDE DEF low, high
<1> QED BY <1>1, <1>2, Zenon DEF Numbers128, Value128, Modulus128

\* minus128
LEMMA Difference128 ==
  ASSUME NEW x \in Numbers128, NEW y \in Numbers128
  PROVE  /\ Minus128(x, y) \in Numbers128
         /\ Value128(Minus128(x, y)) = (Value128(x) - Value128(y)) % Modulus128
<1> DEFINE low == (x[2] - y[2]) % Word
           high == (x[1] - y[1] - (IF low > x[2] THEN 1 ELSE 0)) % Word
<1>1. Minus128(x, y) = << high, low >>
  BY DEF Minus128
<1>2. /\ << high, low >> \in Pairs(Word)
      /\ PairValue(Word, << high, low >>)
           = (PairValue(Word, x) - PairValue(Word, y)) % (Word * Word)
  BY Bases, PairDifference DEF Numbers128
<1> HIDE DEF low, high
<1> QED BY <1>1, <1>2, Zenon DEF Numbers128, Value128, Modulus128

\* A shift by a whole digit and more.
ShiftsDigits(M, r, a, b) ==
  /\ ((b * r) % M) * M = ((a * M + b) * (M * r)) % (M * M)
  /\ a \div r = (a * M + b) \div (M * r)

\* So it is for every base.
LEMMA ShiftDigits ==
  ASSUME NEW M \in Nat \ {0}, NEW r \in Nat \ {0},
         NEW a \in 0..(M - 1), NEW b \in 0..(M - 1)
  PROVE  ShiftsDigits(M, r, a, b)
<1>1. ((b * r) % M) * M = ((a * M + b) * (M * r)) % (M * M)
  <2> DEFINE k == (b * r) \div M
             v == (b * r) % M
  <2>1. b * r \in Int
    OBVIOUS
  <2>2. k \in Int /\ v \in 0..(M - 1) /\ b * r = M * k + v
    <3>1. PICK n \in Int : n = b * r
      BY <2>1
    <3> QED BY <3>1, Euclid
  <2> HIDE DEF k, v
  <2>3. (a * M + b) * (M * r) = (M * M) * (a * r + k) + v * M
    <3>1. (a * M + b) * (M * r) = (M * M) * (a * r) + (b * r) * M
      OBVIOUS
    <3>2. PICK n \in Int : n = b * r
      BY <2>1
    <3>3. n * M = (M * M) * k + v * M
      BY <2>2, <3>2
    <3>4. PICK l \in Int : l = a * r
      OBVIOUS
    <3>5. (M * M) * (l + k) + v * M = (M * M) * l + ((M * M) * k + v * M)
      BY <2>2
    <3>6. (a * M + b) * (M * r) = (M * M) * l + n * M
      BY <3>1, <3>2, <3>4, Zenon
    <3> QED BY <3>3, <3>4, <3>5, <3>6, Zenon
  <2>4. v * M \in 0..(M * M - 1)
    <3>1. v * M + 0 \in 0..(M * M - 1)
      BY <2>2, HalvesRange
    <3> QED BY <2>2, <3>1
  <2>5. PICK N \in Nat \ {0} : N = M * M
    OBVIOUS
  <2>6. PICK w \in 0..(N - 1) : w = v * M
    BY <2>4, <2>5
  <2>7. PICK j \in Int : j = a * r + k
    BY <2>2
  <2>8. (N * j + w) % N = w
    BY QuotientIs
  <2>9. v = (b * r) % M
    BY DEF v
  <2> QED BY <2>3, <2>5, <2>6, <2>7, <2>8, <2>9
<1>2. a \div r = (a * M + b) \div (M * r)
  <2> DEFINE k == a \div r
             v == a % r
  <2>1. k \in Int /\ v \in 0..(r - 1) /\ a = r * k + v
    BY Euclid
  <2> HIDE DEF k, v
  <2>2. a * M + b = (M * r) * k + (v * M + b)
    BY <2>1
  <2>3. v * M + b \in 0..(r * M - 1)
    BY <2>1, HalvesRange
  <2>4. PICK N \in Nat \ {0} : N = M * r
    OBVIOUS
  <2>5. PICK w \in 0..(N - 1) : w = v * M + b
    BY <2>3, <2>4
  <2>6. (N * k + w) \div N = k
    BY <2>1, QuotientIs
  <2> QED BY <2>2, <2>4, <2>5, <2>6 DEF k
<1> QED BY <1>1, <1>2 DEF ShiftsDigits

\* shiftl128, modulo 2^128
LEMMA ShiftedLeft128 ==
  ASSUME NEW x \in Numbers128, NEW n \in Nat, n <= 2 * WordBits
  PROVE  /\ Shiftl128(x, n) \in Numbers128
         /\ Value128(Shiftl128(x, n)) = (Value128(x) * 2^n) % Modulus128
<1>1. x[1] \in 0..(Word - 1) /\ x[2] \in 0..(Word - 1)
  BY PairFields DEF Numbers128
<1>2. CASE n < WordBits
  <2> DEFINE p == 2^n
             q == 2^(WordBits - n)
             low == (x[2] * p) % Word
             high == (x[1] * p + (x[2] \div q)) % Word
  <2>1. WordBits - n \in Nat /\ n + (WordBits - n) = WordBits
    BY <1>2, Bases
  <2>2. p \in Nat \ {0} /\ q \in Nat \ {0} /\ Word = p * q
    BY <2>1, Bases, PowerType, PowerSum
  <2>3. Shiftl128(x, n) = << high, low >>
    BY <1>2 DEF Shiftl128
  <2> HIDE DEF p, q
  <2>4. << high, low >> \in Pairs(Word)
        /\ PairValue(Word, << high, low >>) = (PairValue(Word, x) * p) % (Word * Word)
    BY <2>2, PairShiftedLeft DEF Numbers128
  <2> QED BY <2>3, <2>4, Zenon DEF p, Numbers128, Value128, Modulus128
<1>3. CASE n >= WordBits /\ n < 2 * WordBits
  <2> DEFINE r == 2^(n - WordBits)
             high == (x[2] * r) % Word
  <2>1. n - WordBits \in Nat /\ WordBits + (n - WordBits) = n /\ WordBits \in Nat
        /\ ~(n < WordBits)
    BY <1>3, Bases
  <2>2. r \in Nat \ {0} /\ 2^n = Word * r
    BY <2>1, Bases, PowerType, PowerSum
  <2>3. Shiftl128(x, n) = << high, 0 >>
    BY <1>3, <2>1 DEF Shiftl128
  <2> HIDE DEF r
  <2>4. ShiftsDigits(Word, r, x[1], x[2])
    BY <1>1, <2>2, Bases, ShiftDigits
  <2>5. high * Word = ((x[1] * Word + x[2]) * (Word * r)) % (Word * Word)
    BY <2>4, Zenon DEF ShiftsDigits
  <2>6. high \in 0..(Word - 1)
    <3>1. PICK k \in Int : k = x[2] * r
      BY <1>1, <2>2
    <3> QED BY <3>1, Bases
  <2>7. << high, 0 >> \in Numbers128
    BY <2>6, Bases DEF Numbers128, Pairs
  <2> HIDE DEF high
  <2>8. Value128(<< high, 0 >>) = high * Word
    BY <2>6, Bases DEF Value128, PairValue
  <2> QED BY <2>2, <2>3, <2>5, <2>7, <2>8, Zenon DEF Value128, PairValue, Modulus128
<1>4. CASE n = 2 * WordBits
  <2>1. Shiftl128(x, n) = << 0, 0 >>
    BY <1>4, Bases DEF Shiftl128, Zero128
  <2>2. << 0, 0 >> \in Numbers128 /\ Value128(<< 0, 0 >>) = 0
    BY Bases DEF Numbers128, Pairs, Value128, PairValue
  <2>3. 2^n = Modulus128
    BY <1>4, Bases
  <2>4. PICK v \in Int, M \in Nat \ {0} : v = Value128(x) /\ M = Modulus128
    BY Type128, Bases
  <2>5. (v * M) % M = 0
    <3>1. (M * v + 0) % M = 0
      BY QuotientIs
    <3> QED BY <3>1
  <2> QED BY <2>1, <2>2, <2>3, <2>4, <2>5
<1>5. n < WordBits \/ (n >= WordBits /\ n < 2 * WordBits) \/ n = 2 * WordBits
  BY Bases
<1> QED BY <1>2, <1>3, <1>4, <1>5

\* shiftr128
LEMMA ShiftedRight128 ==
  ASSUME NEW x \in Numbers128, NEW n \in Nat, n <= 2 * WordBits
  PROVE  /\ Shiftr128(x, n) \in Numbers128
         /\ Value128(Shiftr128(x, n)) = Value128(x) \div 2^n
<1>1. x[1] \in 0..(Word - 1) /\ x[2] \in 0..(Word - 1)
  BY PairFields DEF Numbers128
<1>2. CASE n < WordBits
  <2> DEFINE p == 2^n
             q == 2^(WordBits - n)
             high == x[1] \div p
             low == (x[1] * q + (x[2] \div p)) % Word
  <2>1. WordBits - n \in Nat /\ n + (WordBits - n) = WordBits
    BY <1>2, Bases
  <2>2. p \in Nat \ {0} /\ q \in Nat \ {0} /\ Word = p * q
    BY <2>1, Bases, PowerType, PowerSum
  <2>3. Shiftr128(x, n) = << high, low >>
    BY <1>2 DEF Shiftr128
  <2> HIDE DEF p, q
  <2>4. << high, low >> \in Pairs(Word)
        /\ PairValue(Word, << high, low >>) = PairValue(Word, x) \div p
    BY <2>2, PairShiftedRight DEF Numbers128
  <2> QED BY <2>3, <2>4, Zenon DEF p, Numbers128, Value128
<1>3. CASE n >= WordBits /\ n < 2 * WordBits
  <2> DEFINE r == 2^(n - WordBits)
             low == x[1] \div r
  <2>1. n - WordBits \in Nat /\ WordBits + (n - WordBits) = n /\ WordBits \in Nat
        /\ ~(n < WordBits)
    BY <1>3, Bases
  <2>2. r \in Nat \ {0} /\ 2^n = Word * r
    BY <2>1, Bases, PowerType, PowerSum
  <2>3. Shiftr128(x, n) = << 0, low >>
    BY <1>3, <2>1 DEF Shiftr128
  <2> HIDE DEF r
  <2>4. ShiftsDigits(Word, r, x[1], x[2])
    BY <1>1, <2>2, Bases, ShiftDigits
  <2>5. low = (x[1] * Word + x[2]) \div (Word * r)
    BY <2>4, Zenon DEF ShiftsDigits
  <2>6. low \in 0..(Word - 1)
    BY <1>1, <2>2, Bases
  <2>7. << 0, low >> \in Numbers128
    BY <2>6, Bases DEF Numbers128, Pairs
  <2> HIDE DEF low
  <2>8. Value128(<< 0, low >>) = low
    BY <2>6, Bases DEF Value128, PairValue
  <2> QED BY <2>2, <2>3, <2>5, <2>7, <2>8, Zenon DEF Value128, PairValue
<1>4. CASE n = 2 * WordBits
  <2>1. Shiftr128(x, n) = << 0, 0 >>
    BY <1>4, Bases DEF Shiftr128, Zero128
  <2>2. << 0, 0 >> \in Numbers128 /\ Value128(<< 0, 0 >>) = 0
    BY Bases DEF Numbers128, Pairs, Value128, PairValue
  <2>3. 2^n = Modulus128
    BY <1>4, Bases
  <2>4. Value128(x) \div Modulus128 = 0
    BY Type128, Bases
  <2> QED BY <2>1, <2>2, <2>3, <2>4
<1>5. n < WordBits \/ (n >= WordBits /\ n < 2 * WordBits) \/ n = 2 * WordBits
  BY Bases
<1> QED BY <1>2, <1>3, <1>4, <1>5

-----------------------------------------------------------------------------
\* Numbers of 256 bits.

Numbers256 == Numbers128 \X Numbers128
Halves(x) == << Value128(x[1]), Value128(x[2]) >>

\* A number of 256 bits is a pair, and its value that of the pair.
LEMMA HalvesAre ==
  ASSUME NEW x \in Numbers256
  PROVE  /\ x[1] \in Numbers128 /\ x[2] \in Numbers128 /\ x = << x[1], x[2] >>
         /\ Halves(x) \in Pairs(Modulus128)
         /\ Value(x) = PairValue(Modulus128, Halves(x))
<1>1. x[1] \in Numbers128 /\ x[2] \in Numbers128 /\ x = << x[1], x[2] >>
  BY DEF Numbers256
<1>2. Value128(x[1]) \in 0..(Modulus128 - 1) /\ Value128(x[2]) \in 0..(Modulus128 - 1)
  BY <1>1, Type128
<1>3. Halves(x) \in Pairs(Modulus128)
  BY <1>2 DEF Halves, Pairs
<1>4. Value(x) = PairValue(Modulus128, Halves(x))
  <2>1. /\ x[1][1] \in 0..(Word - 1) /\ x[1][2] \in 0..(Word - 1)
        /\ x[2][1] \in 0..(Word - 1) /\ x[2][2] \in 0..(Word - 1)
    BY <1>1, PairFields DEF Numbers128
  <2>2. PICK a \in Int, b \in Int, c \in Int, d \in Int, W \in Int :
          /\ a = x[1][1] /\ b = x[1][2] /\ c = x[2][1] /\ d = x[2][2] /\ W = Word
    BY <2>1, Bases
  <2>3. ((a * W + b) * W + c) * W + d = (a * W + b) * (W * W) + (c * W + d)
    OBVIOUS
  <2>4. Value(x) = ((a * W + b) * W + c) * W + d
    BY <2>2, Zenon DEF Value
  <2>5. Halves(x)[1] = a * W + b /\ Halves(x)[2] = c * W + d
    BY <2>2, Zenon DEF Halves, Value128, PairValue
  <2> QED BY <2>2, <2>3, <2>4, <2>5, Zenon DEF PairValue, Modulus128
<1> QED BY <1>1, <1>3, <1>4

\* The modulus is the square of the modulus of the halves.
LEMMA ModulusIs == Modulus = Modulus128 * Modulus128 /\ Modulus \in Nat \ {0}
<1>1. WordBits \in Nat /\ 2 * WordBits \in Nat /\ 4 * WordBits = 2 * WordBits + 2 * WordBits
  BY Bases
<1>2. 2^(2 * WordBits + 2 * WordBits) = 2^(2 * WordBits) * 2^(2 * WordBits)
  BY <1>1, PowerSum
<1>3. Modulus = Modulus128 * Modulus128
  BY <1>1, <1>2, Bases DEF Modulus
<1> QED BY <1>3, Bases

\* A number is less than the modulus.
LEMMA Type256 ==
  ASSUME NEW x \in Numbers256
  PROVE  Value(x) \in 0..(Modulus - 1)
<1>1. PairValue(Modulus128, Halves(x)) \in 0..(Modulus128 * Modulus128 - 1)
  BY Bases, HalvesAre, PairType
<1> QED BY <1>1, HalvesAre, ModulusIs

\* Numbers of the same value are the same.
LEMMA Equal256 ==
  ASSUME NEW x \in Numbers256, NEW y \in Numbers256, Value(x) = Value(y)
  PROVE  x = y
<1>1. Halves(x) = Halves(y)
  BY Bases, HalvesAre, PairsEqual
<1>2. Value128(x[1]) = Value128(y[1]) /\ Value128(x[2]) = Value128(y[2])
  BY <1>1 DEF Halves
<1>3. x[1] = y[1] /\ x[2] = y[2]
  BY <1>2, Bases, HalvesAre, PairsEqual DEF Value128, Numbers128
<1> QED BY <1>3, HalvesAre, Zenon

\* gt256
LEMMA Greater256 ==
  ASSUME NEW x \in Numbers256, NEW y \in Numbers256
  PROVE  Gt256(x, y) <=> Value(x) > Value(y)
<1>1. /\ x[1] \in Numbers128 /\ x[2] \in Numbers128
      /\ y[1] \in Numbers128 /\ y[2] \in Numbers128
  BY HalvesAre
<1> DEFINE a == Value128(x[1])
           b == Value128(x[2])
           c == Value128(y[1])
           d == Value128(y[2])
<1>2. PairValue(Modulus128, Halves(x)) > PairValue(Modulus128, Halves(y))
        <=> (IF a = c THEN b > d ELSE a > c)
  <2>1. Halves(x)[1] = a /\ Halves(x)[2] = b /\ Halves(y)[1] = c /\ Halves(y)[2] = d
    BY DEF Halves
  <2> HIDE DEF a, b, c, d
  <2>2. PairValue(Modulus128, Halves(x)) > PairValue(Modulus128, Halves(y))
          <=> (IF Halves(x)[1] = Halves(y)[1] THEN Halves(x)[2] > Halves(y)[2]
               ELSE Halves(x)[1] > Halves(y)[1])
    BY Bases, HalvesAre, PairGreater, Zenon
  <2> QED BY <2>1, <2>2
<1>3. x[1] = y[1] <=> a = c
  BY <1>1, Bases, PairsEqual DEF Numbers128, Value128
<1>4. Gt128(x[2], y[2]) <=> b > d
  BY <1>1, Greater128
<1>5. Gt128(x[1], y[1]) <=> a > c
  BY <1>1, Greater128
<1> HIDE DEF a, b, c, d
<1> QED BY <1>2, <1>3, <1>4, <1>5, HalvesAre DEF Gt256

\* gte256
LEMMA GreaterOrEqual256 ==
  ASSUME NEW x \in Numbers256, NEW y \in Numbers256
  PROVE  Gte256(x, y) <=> Value(x) >= Value(y)
<1>1. Value(x) \in Int /\ Value(y) \in Int
  BY Type256
<1>2. x = y <=> Value(x) = Value(y)
  BY Equal256
<1> QED BY <1>1, <1>2, Greater256 DEF Gte256

\* A remainder can be taken of a remainder.
RemainsAfter(N, k, e) == ((k % N) + e) % N = (k + e) % N

\* So it is for every number added.
LEMMA Remainders ==
  ASSUME NEW N \in Nat \ {0}, NEW k \in Int, NEW e \in Int
  PROVE  RemainsAfter(N, k, e)
<1> DEFINE q == k \div N
           r == k % N
           j == (r + e) \div N
           s == (r + e) % N
<1>1. q \in Int /\ r \in 0..(N - 1) /\ k = N * q + r
  BY Euclid
<1>2. r + e \in Int
  BY <1>1
<1> HIDE DEF q, r
<1>3. j \in Int /\ s \in 0..(N - 1) /\ r + e = N * j + s
  BY <1>2, Euclid
<1> HIDE DEF j, s
<1>4. k + e = N * (q + j) + s
  BY ONLY <1>1, <1>3, e \in Int, N \in Int
<1>5. PICK l \in Int : l = q + j
  BY <1>1, <1>3
<1>6. (N * l + s) % N = s
  BY <1>3, QuotientIs
<1>7. (k + e) % N = s
  BY <1>4, <1>5, <1>6, Zenon
<1> QED BY <1>7 DEF s, r, RemainsAfter

\* A pair of numbers of 128 bits is one of 256 bits.
LEMMA PairOf128 ==
  ASSUME NEW a \in Numbers128, NEW b \in Numbers128
  PROVE  /\ << a, b >> \in Numbers256
         /\ Value(<< a, b >>) = PairValue(Modulus128, << Value128(a), Value128(b) >>)
<1>1. << a, b >> \in Numbers256
  BY DEF Numbers256
<1>2. Halves(<< a, b >>) = << Value128(a), Value128(b) >>
  BY DEF Halves
<1> QED BY <1>1, <1>2, HalvesAre, Zenon

\* One carried or borrowed, and the word it is kept in.
LEMMA One128 == 2 <= Word /\ << 0, 1 >> \in Numbers128 /\ Value128(<< 0, 1 >>) = 1
<1>1. 2^1 = 2 /\ 2^1 <= 2^WordBits
  <2>1. 2^(0 + 1) = 2 * 2^0 /\ 2^0 = 1 /\ 0 + 1 = 1
    BY PowerDoubles
  <2>2. 2^1 = 2
    BY <2>1
  <2>3. 1 \in Nat /\ WordBits \in Nat /\ 1 <= WordBits
    BY Bases
  <2> QED BY <2>2, <2>3, PowerGrows
<1>2. 2 <= Word
  BY <1>1, Bases
<1> QED BY <1>2, Bases DEF Numbers128, Pairs, Value128, PairValue

\* add256, modulo 2^256
LEMMA Sum256 ==
  ASSUME NEW x \in Numbers256, NEW y \in Numbers256
  PROVE  /\ Add256(x, y) \in Numbers256
         /\ Value(Add256(x, y)) = (Value(x) + Value(y)) % Modulus
<1> DEFINE sum == Add128(x[1], y[1])
           low == Add128(x[2], y[2])
           high == IF Gt128(x[2], low) THEN Add128(sum, << 0, 1 >>) ELSE sum
           a == Value128(x[1])
           b == Value128(x[2])
           c == Value128(y[1])
           d == Value128(y[2])
           carry == IF Value128(low) < b THEN 1 ELSE 0
<1>1. Add256(x, y) = << high, low >>
  BY DEF Add256
<1>2. /\ x[1] \in Numbers128 /\ x[2] \in Numbers128
      /\ y[1] \in Numbers128 /\ y[2] \in Numbers128
  BY HalvesAre
<1>3. a \in Int /\ b \in Int /\ c \in Int /\ d \in Int
  BY <1>2, Type128
<1>4. /\ sum \in Numbers128 /\ Value128(sum) = (a + c) % Modulus128
      /\ low \in Numbers128 /\ Value128(low) = (b + d) % Modulus128
  BY <1>2, Sum128
<1>5. Gt128(x[2], low) <=> Value128(low) < b
  <2> HIDE DEF low
  <2>1. Gt128(x[2], low) <=> Value128(x[2]) > Value128(low)
    BY <1>2, <1>4, Greater128
  <2>2. Value128(low) \in Int
    BY <1>4, Type128
  <2> QED BY <1>3, <2>1, <2>2
<1>6. /\ Add128(sum, << 0, 1 >>) \in Numbers128
      /\ Value128(Add128(sum, << 0, 1 >>)) = (((a + c) % Modulus128) + 1) % Modulus128
  <2> HIDE DEF sum
  <2>1. /\ Add128(sum, << 0, 1 >>) \in Numbers128
        /\ Value128(Add128(sum, << 0, 1 >>))
             = (Value128(sum) + Value128(<< 0, 1 >>)) % Modulus128
    BY <1>4, One128, Sum128
  <2> QED BY <1>4, <2>1, One128
<1>7. high \in Numbers128
  BY <1>4, <1>6, Zenon
<1> HIDE DEF low, sum, a, b, c, d
<1>8. Value128(high) = (a + c + carry) % Modulus128
  <2>1. PICK N \in Nat \ {0}, k \in Int : N = Modulus128 /\ k = a + c
    BY <1>3, Bases
  <2>2. ((k % N) + 1) % N = (k + 1) % N
    <3>1. RemainsAfter(N, k, 1)
      BY Remainders
    <3> QED BY <3>1, Zenon DEF RemainsAfter
  <2>3. (k + 0) % N = k % N
    OBVIOUS
  <2> QED BY <1>4, <1>5, <1>6, <2>1, <2>2, <2>3
<1> HIDE DEF high
<1>9. << high, low >> \in Numbers256
  BY <1>4, <1>7, PairOf128
<1>10. Value(<< high, low >>) = PairValue(Modulus128, << Value128(high), Value128(low) >>)
  BY <1>4, <1>7, PairOf128
<1>11. PairValue(Modulus128, << Value128(high), Value128(low) >>)
         = (PairValue(Modulus128, Halves(x)) + PairValue(Modulus128, Halves(y)))
             % (Modulus128 * Modulus128)
  <2>1. Halves(x)[1] = a /\ Halves(x)[2] = b /\ Halves(y)[1] = c /\ Halves(y)[2] = d
    BY DEF Halves, a, b, c, d
  <2>2. /\ Value128(low) = (Halves(x)[2] + Halves(y)[2]) % Modulus128
        /\ Value128(high) = (Halves(x)[1] + Halves(y)[1]
              + (IF Value128(low) < Halves(x)[2] THEN 1 ELSE 0)) % Modulus128
    BY <1>4, <1>8, <2>1
  <2> QED BY <2>2, Bases, HalvesAre, PairSum
<1> QED BY <1>1, <1>9, <1>10, <1>11, HalvesAre, ModulusIs, Zenon

\* minus256: the difference of two numbers whose second is not the larger.
LEMMA Difference256 ==
  ASSUME NEW x \in Numbers256, NEW y \in Numbers256, Value(y) <= Value(x)
  PROVE  /\ Minus256(x, y) \in Numbers256
         /\ Value(Minus256(x, y)) = Value(x) - Value(y)
<1> DEFINE rest == Minus128(x[1], y[1])
           low == Minus128(x[2], y[2])
           high == IF Gt128(low, x[2]) THEN Minus128(rest, << 0, 1 >>) ELSE rest
           a == Value128(x[1])
           b == Value128(x[2])
           c == Value128(y[1])
           d == Value128(y[2])
           borrow == IF Value128(low) > b THEN 1 ELSE 0
<1>1. Minus256(x, y) = << high, low >>
  BY DEF Minus256
<1>2. /\ x[1] \in Numbers128 /\ x[2] \in Numbers128
      /\ y[1] \in Numbers128 /\ y[2] \in Numbers128
  BY HalvesAre
<1>3. a \in Int /\ b \in Int /\ c \in Int /\ d \in Int
  BY <1>2, Type128
<1>4. /\ rest \in Numbers128 /\ Value128(rest) = (a - c) % Modulus128
      /\ low \in Numbers128 /\ Value128(low) = (b - d) % Modulus128
  BY <1>2, Difference128
<1>5. Gt128(low, x[2]) <=> Value128(low) > b
  <2> HIDE DEF low
  <2> QED BY <1>2, <1>4, Greater128
<1>6. /\ Minus128(rest, << 0, 1 >>) \in Numbers128
      /\ Value128(Minus128(rest, << 0, 1 >>)) = (((a - c) % Modulus128) - 1) % Modulus128
  <2> HIDE DEF rest
  <2>1. /\ Minus128(rest, << 0, 1 >>) \in Numbers128
        /\ Value128(Minus128(rest, << 0, 1 >>))
             = (Value128(rest) - Value128(<< 0, 1 >>)) % Modulus128
    BY <1>4, One128, Difference128
  <2> QED BY <1>4, <2>1, One128
<1>7. high \in Numbers128
  BY <1>4, <1>6, Zenon
<1> HIDE DEF low, rest, a, b, c, d
<1>8. Value128(high) = (a - c - borrow) % Modulus128
  <2>1. PICK N \in Nat \ {0}, k \in Int : N = Modulus128 /\ k = a - c
    BY <1>3, Bases
  <2>2. ((k % N) - 1) % N = (k - 1) % N
    <3>1. RemainsAfter(N, k, -1)
      BY Remainders
    <3>2. ((k % N) + (-1)) % N = (k + (-1)) % N
      BY <3>1, Zenon DEF RemainsAfter
    <3>3. PICK r \in Int : r = k % N
      OBVIOUS
    <3>4. r + (-1) = r - 1 /\ k + (-1) = k - 1
      OBVIOUS
    <3> QED BY <3>2, <3>3, <3>4, Zenon
  <2>3. (k - 0) % N = k % N
    OBVIOUS
  <2> QED BY <1>4, <1>5, <1>6, <2>1, <2>2, <2>3
<1> HIDE DEF high
<1>9. << high, low >> \in Numbers256
  BY <1>4, <1>7, PairOf128
<1>10. Value(<< high, low >>) = PairValue(Modulus128, << Value128(high), Value128(low) >>)
  BY <1>4, <1>7, PairOf128
<1>11. PairValue(Modulus128, << Value128(high), Value128(low) >>)
         = (PairValue(Modulus128, Halves(x)) - PairValue(Modulus128, Halves(y)))
             % (Modulus128 * Modulus128)
  <2>1. Halves(x)[1] = a /\ Halves(x)[2] = b /\ Halves(y)[1] = c /\ Halves(y)[2] = d
    BY DEF Halves, a, b, c, d
  <2>2. /\ Value128(low) = (Halves(x)[2] - Halves(y)[2]) % Modulus128
        /\ Value128(high) = (Halves(x)[1] - Halves(y)[1]
              - (IF Value128(low) > Halves(x)[2] THEN 1 ELSE 0)) % Modulus128
    BY <1>4, <1>8, <2>1
  <2> QED BY <2>2, Bases, HalvesAre, PairDifference
<1>12. Value(<< high, low >>) = (Value(x) - Value(y)) % Modulus
  BY <1>10, <1>11, HalvesAre, ModulusIs, Zenon
<1>13. PICK N \in Nat \ {0}, v \in Nat, w \in Nat :
         N = Modulus /\ v = Value(x) /\ w = Value(y) /\ v < N /\ w <= v
  BY Type256, ModulusIs
<1>14. (v - w) % N = v - w
  BY <1>13
<1> QED BY <1>1, <1>9, <1>12, <1>13, <1>14, Zenon

\* shiftl256, modulo 2^256
LEMMA ShiftedLeft256 ==
  ASSUME NEW x \in Numbers256, NEW n \in Nat, n <= 4 * WordBits
  PROVE  /\ Shiftl256(x, n) \in Numbers256
         /\ Value(Shiftl256(x, n)) = (Value(x) * 2^n) % Modulus
<1>1. x[1] \in Numbers128 /\ x[2] \in Numbers128
  BY HalvesAre
<1>2. PICK a \in Nat, b \in Nat :
        /\ a = Value128(x[1]) /\ b = Value128(x[2])
        /\ a \in 0..(Modulus128 - 1) /\ b \in 0..(Modulus128 - 1)
  BY <1>1, Type128
<1>3. Halves(x) = << a, b >> /\ Value(x) = PairValue(Modulus128, Halves(x))
      /\ Halves(x) \in Pairs(Modulus128)
  BY <1>2, HalvesAre DEF Halves
<1>4. CASE n < 2 * WordBits
  <2> DEFINE p == 2^n
             q == 2^(2 * WordBits - n)
             upper == Shiftl128(x[1], n)
             moved == Shiftr128(x[2], 2 * WordBits - n)
             high == Add128(upper, moved)
             low == Shiftl128(x[2], n)
  <2>1. 2 * WordBits - n \in Nat /\ n + (2 * WordBits - n) = 2 * WordBits
        /\ 2 * WordBits - n <= 2 * WordBits /\ n <= 2 * WordBits
    BY <1>4, Bases
  <2>2. p \in Nat \ {0} /\ q \in Nat \ {0} /\ Modulus128 = p * q
    BY <2>1, Bases, PowerType, PowerSum
  <2>3. Shiftl256(x, n) = << high, low >>
    BY <1>4, Zenon DEF Shiftl256
  <2>4. /\ upper \in Numbers128 /\ Value128(upper) = (a * p) % Modulus128
        /\ low \in Numbers128 /\ Value128(low) = (b * p) % Modulus128
    BY <1>1, <1>2, <2>1, ShiftedLeft128
  <2>5. moved \in Numbers128 /\ Value128(moved) = b \div q
    BY <1>1, <1>2, <2>1, ShiftedRight128
  <2> HIDE DEF p, q, upper, moved, low
  <2>6. high \in Numbers128
        /\ Value128(high) = (((a * p) % Modulus128) + (b \div q)) % Modulus128
    BY <2>4, <2>5, Sum128
  <2> HIDE DEF high
  <2>7. PICK k \in Int, e \in Int, N \in Nat \ {0} :
          k = a * p /\ e = b \div q /\ N = Modulus128
    BY <2>2, Bases
  <2>8. ((k % N) + e) % N = (k + e) % N
    <3>1. RemainsAfter(N, k, e)
      BY Remainders
    <3> QED BY <3>1, Zenon DEF RemainsAfter
  <2>9. Value128(high) = (Halves(x)[1] * p + (Halves(x)[2] \div q)) % Modulus128
        /\ Value128(low) = (Halves(x)[2] * p) % Modulus128
    <3>1. Halves(x)[1] = a /\ Halves(x)[2] = b
      BY <1>3
    <3> QED BY <2>4, <2>6, <2>7, <2>8, <3>1, Zenon
  <2>10. PairValue(Modulus128, << Value128(high), Value128(low) >>)
           = (PairValue(Modulus128, Halves(x)) * p) % (Modulus128 * Modulus128)
    <3>1. PICK M \in Nat \ {0}, P \in Nat \ {0}, Q \in Nat \ {0} :
            M = Modulus128 /\ P = p /\ Q = q /\ M = P * Q
      BY <2>2, Bases
    <3>2. PICK H, l, h : H = Halves(x) /\ l = Value128(low) /\ h = Value128(high)
      OBVIOUS
    <3>3. /\ H \in Pairs(M) /\ l = (H[2] * P) % M
          /\ h = (H[1] * P + (H[2] \div Q)) % M
      BY <1>3, <2>9, <3>1, <3>2, Zenon
    <3>4. PairValue(M, << h, l >>) = (PairValue(M, H) * P) % (M * M)
      BY ONLY PairShiftedLeft, <3>1, <3>3
    <3> QED BY <3>1, <3>2, <3>4, Zenon
  <2>11. << high, low >> \in Numbers256
         /\ Value(<< high, low >>) = PairValue(Modulus128, << Value128(high), Value128(low) >>)
    BY <2>4, <2>6, PairOf128
  <2> QED BY <1>3, <2>3, <2>10, <2>11, ModulusIs, Zenon DEF p
<1>5. CASE n >= 2 * WordBits
  <2> DEFINE r == 2^(n - 2 * WordBits)
             high == Shiftl128(x[2], n - 2 * WordBits)
  <2>1. n - 2 * WordBits \in Nat /\ 2 * WordBits + (n - 2 * WordBits) = n
        /\ 2 * WordBits \in Nat /\ ~(n < 2 * WordBits) /\ n - 2 * WordBits <= 2 * WordBits
    BY <1>5, Bases
  <2>2. r \in Nat \ {0} /\ 2^n = Modulus128 * r
    BY <2>1, Bases, PowerType, PowerSum
  <2>3. Shiftl256(x, n) = << high, << 0, 0 >> >>
    BY <2>1, Zenon DEF Shiftl256, Zero128
  <2>4. high \in Numbers128 /\ Value128(high) = (b * r) % Modulus128
    BY <1>1, <1>2, <2>1, ShiftedLeft128
  <2> HIDE DEF r, high
  <2>5. << 0, 0 >> \in Numbers128 /\ Value128(<< 0, 0 >>) = 0
    BY Bases DEF Numbers128, Pairs, Value128, PairValue
  <2>6. << high, << 0, 0 >> >> \in Numbers256
        /\ Value(<< high, << 0, 0 >> >>) = PairValue(Modulus128, << Value128(high), 0 >>)
    BY <2>4, <2>5, PairOf128
  <2>7. PairValue(Modulus128, << Value128(high), 0 >>) = Value128(high) * Modulus128
    <3>1. PICK k \in Int : k = Value128(high) * Modulus128
      BY <2>4, Type128, Bases
    <3>2. k + 0 = k
      OBVIOUS
    <3> QED BY <3>1, <3>2 DEF PairValue
  <2>8. ShiftsDigits(Modulus128, r, a, b)
    BY <1>2, <2>2, Bases, ShiftDigits
  <2>9. ((b * r) % Modulus128) * Modulus128
          = ((a * Modulus128 + b) * (Modulus128 * r)) % (Modulus128 * Modulus128)
    BY <2>8, Zenon DEF ShiftsDigits
  <2>10. Value(x) = a * Modulus128 + b
    BY <1>3 DEF PairValue
  <2> QED BY <2>2, <2>3, <2>4, <2>6, <2>7, <2>9, <2>10, ModulusIs, Zenon
<1>6. n < 2 * WordBits \/ n >= 2 * WordBits
  BY Bases
<1> QED BY <1>4, <1>5, <1>6

\* shiftr256
LEMMA ShiftedRight256 ==
  ASSUME NEW x \in Numbers256, NEW n \in Nat, n <= 4 * WordBits
  PROVE  /\ Shiftr256(x, n) \in Numbers256
         /\ Value(Shiftr256(x, n)) = Value(x) \div 2^n
<1>1. x[1] \in Numbers128 /\ x[2] \in Numbers128
  BY HalvesAre
<1>2. PICK a \in Nat, b \in Nat :
        /\ a = Value128(x[1]) /\ b = Value128(x[2])
        /\ a \in 0..(Modulus128 - 1) /\ b \in 0..(Modulus128 - 1)
  BY <1>1, Type128
<1>3. Halves(x) = << a, b >> /\ Value(x) = PairValue(Modulus128, Halves(x))
      /\ Halves(x) \in Pairs(Modulus128)
  BY <1>2, HalvesAre DEF Halves
<1>4. CASE n < 2 * WordBits
  <2> DEFINE p == 2^n
             q == 2^(2 * WordBits - n)
             lower == Shiftr128(x[2], n)
             moved == Shiftl128(x[1], 2 * WordBits - n)
             low == Add128(lower, moved)
             high == Shiftr128(x[1], n)
  <2>1. 2 * WordBits - n \in Nat /\ n + (2 * WordBits - n) = 2 * WordBits
        /\ 2 * WordBits - n <= 2 * WordBits /\ n <= 2 * WordBits
    BY <1>4, Bases
  <2>2. p \in Nat \ {0} /\ q \in Nat \ {0} /\ Modulus128 = p * q
    BY <2>1, Bases, PowerType, PowerSum
  <2>3. Shiftr256(x, n) = << high, low >>
    BY <1>4, Zenon DEF Shiftr256
  <2>4. /\ lower \in Numbers128 /\ Value128(lower) = b \div p
        /\ high \in Numbers128 /\ Value128(high) = a \div p
    BY <1>1, <1>2, <2>1, ShiftedRight128
  <2>5. moved \in Numbers128 /\ Value128(moved) = (a * q) % Modulus128
    BY <1>1, <1>2, <2>1, ShiftedLeft128
  <2> HIDE DEF p, q, lower, moved, high
  <2>6. low \in Numbers128
        /\ Value128(low) = ((b \div p) + ((a * q) % Modulus128)) % Modulus128
    BY <2>4, <2>5, Sum128
  <2> HIDE DEF low
  <2>7. PICK k \in Int, e \in Int, N \in Nat \ {0} :
          k = a * q /\ e = b \div p /\ N = Modulus128
    BY <2>2, Bases
  <2>8. (e + (k % N)) % N = (k + e) % N
    <3>1. RemainsAfter(N, k, e)
      BY Remainders
    <3>2. ((k % N) + e) % N = (k + e) % N
      BY <3>1, Zenon DEF RemainsAfter
    <3>3. PICK r \in Int : r = k % N
      OBVIOUS
    <3>4. e + r = r + e
      OBVIOUS
    <3> QED BY <3>2, <3>3, <3>4, Zenon
  <2>9. Value128(low) = (Halves(x)[1] * q + (Halves(x)[2] \div p)) % Modulus128
        /\ Value128(high) = Halves(x)[1] \div p
    <3>1. Halves(x)[1] = a /\ Halves(x)[2] = b
      BY <1>3
    <3> QED BY <2>4, <2>6, <2>7, <2>8, <3>1, Zenon
  <2>10. PairValue(Modulus128, << Value128(high), Value128(low) >>)
           = PairValue(Modulus128, Halves(x)) \div p
    <3>1. PICK M \in Nat \ {0}, P \in Nat \ {0}, Q \in Nat \ {0} :
            M = Modulus128 /\ P = p /\ Q = q /\ M = P * Q
      BY <2>2, Bases
    <3>2. PICK H, l, h : H = Halves(x) /\ l = Value128(low) /\ h = Value128(high)
      OBVIOUS
    <3>3. /\ H \in Pairs(M) /\ h = H[1] \div P
          /\ l = (H[1] * Q + (H[2] \div P)) % M
      BY <1>3, <2>9, <3>1, <3>2, Zenon
    <3>4. PairValue(M, << h, l >>) = PairValue(M, H) \div P
      BY ONLY PairShiftedRight, <3>1, <3>3
    <3> QED BY <3>1, <3>2, <3>4, Zenon
  <2>11. << high, low >> \in Numbers256
         /\ Value(<< high, low >>) = PairValue(Modulus128, << Value128(high), Value128(low) >>)
    BY <2>4, <2>6, PairOf128
  <2> QED BY <1>3, <2>3, <2>10, <2>11, Zenon DEF p
<1>5. CASE n >= 2 * WordBits
  <2> DEFINE r == 2^(n - 2 * WordBits)
             low == Shiftr128(x[1], n - 2 * WordBits)
  <2>1. n - 2 * WordBits \in Nat /\ 2 * WordBits + (n - 2 * WordBits) = n
        /\ 2 * WordBits \in Nat /\ ~(n < 2 * WordBits) /\ n - 2 * WordBits <= 2 * WordBits
    BY <1>5, Bases
  <2>2. r \in Nat \ {0} /\ 2^n = Modulus128 * r
    BY <2>1, Bases, PowerType, PowerSum
  <2>3. Shiftr256(x, n) = << << 0, 0 >>, low >>
    BY <2>1, Zenon DEF Shiftr256, Zero128
  <2>4. low \in Numbers128 /\ Value128(low) = a \div r
    BY <1>1, <1>2, <2>1, ShiftedRight128
  <2> HIDE DEF r, low
  <2>5. << 0, 0 >> \in Numbers128 /\ Value128(<< 0, 0 >>) = 0
    BY Bases DEF Numbers128, Pairs, Value128, PairValue
  <2>6. << << 0, 0 >>, low >> \in Numbers256
        /\ Value(<< << 0, 0 >>, low >>) = PairValue(Modulus128, << 0, Value128(low) >>)
    BY <2>4, <2>5, PairOf128
  <2>7. PairValue(Modulus128, << 0, Value128(low) >>) = Value128(low)
    <3>1. Value128(low) \in Int /\ 0 * Modulus128 = 0
      BY <2>4, Type128, Bases
    <3> QED BY <3>1 DEF PairValue
  <2>8. ShiftsDigits(Modulus128, r, a, b)
    BY <1>2, <2>2, Bases, ShiftDigits
  <2>9. a \div r = (a * Modulus128 + b) \div (Modulus128 * r)
    BY <2>8, Zenon DEF ShiftsDigits
  <2>10. Value(x) = a * Modulus128 + b
    BY <1>3 DEF PairValue
  <2> QED BY <2>2, <2>3, <2>4, <2>6, <2>7, <2>9, <2>10, Zenon
<1>6. n < 2 * WordBits \/ n >= 2 * WordBits
  BY Bases
<1> QED BY <1>4, <1>5, <1>6

-----------------------------------------------------------------------------
\* The bits of a number.

\* v has b bits.
HasBits(v, b) == b \in Nat /\ v < 2^b /\ (b > 0 => 2^(b - 1) <= v)

\* Every number below a power of two has so many bits at most.
LEMMA BitsExist ==
  ASSUME NEW v \in Nat, NEW k \in Nat, v < 2^k
  PROVE  \E b \in 0..k : HasBits(v, b)
<1> DEFINE S == { n \in Nat : v < 2^n => \E b \in 0..n : HasBits(v, b) }
<1>1. 0 \in S
  <2>1. v < 2^0 => HasBits(v, 0)
    BY DEF HasBits
  <2> QED BY <2>1
<1>2. ASSUME NEW n \in Nat, n \in S PROVE n + 1 \in S
  <2> SUFFICES ASSUME v < 2^(n + 1) PROVE \E b \in 0..(n + 1) : HasBits(v, b)
    OBVIOUS
  <2>1. CASE v < 2^n
    <3>1. PICK b \in 0..n : HasBits(v, b)
      BY <1>2, <2>1
    <3>2. b \in 0..(n + 1)
      OBVIOUS
    <3> QED BY <3>1, <3>2
  <2>2. CASE ~(v < 2^n)
    <3>1. 2^n <= v /\ (n + 1) - 1 = n /\ n + 1 > 0
      BY <2>2, PowerType
    <3>2. HasBits(v, n + 1)
      BY <3>1 DEF HasBits
    <3> QED BY <3>2
  <2> QED BY <2>1, <2>2
<1> HIDE DEF S
<1>3. k \in S
  BY <1>1, <1>2, Induction
<1> QED BY <1>3 DEF S

\* The number of bits counts the powers of two that are not larger.
LEMMA BitsOfWordIs ==
  ASSUME NEW w \in 0..(Word - 1)
  PROVE  HasBits(w, BitsOfWord(w)) /\ BitsOfWord(w) \in 0..WordBits
<1> DEFINE S == { i \in 0..(WordBits - 1) : w \div 2^i > 0 }
<1>1. w \in Nat /\ w < 2^WordBits /\ WordBits \in Nat
  BY Bases
<1>2. PICK b \in 0..WordBits : HasBits(w, b)
  BY <1>1, BitsExist
<1>3. ASSUME NEW i \in 0..(WordBits - 1) PROVE w \div 2^i > 0 <=> i < b
  <2>1. i \in Nat /\ b \in Nat
    BY <1>1
  <2>2. PICK p \in Nat \ {0} : p = 2^i
    BY <2>1, PowerType
  <2>3. w \div p > 0 <=> p <= w
    BY ONLY p \in Nat \ {0}, <1>1
  <2>4. CASE i < b
    <3>1. b - 1 \in Nat /\ i <= b - 1 /\ b > 0
      BY <2>1, <2>4
    <3>2. p <= 2^(b - 1) /\ 2^(b - 1) <= w /\ 2^(b - 1) \in Nat
      BY <1>2, <2>1, <2>2, <3>1, PowerGrows, PowerType DEF HasBits
    <3> QED BY <1>1, <2>2, <2>3, <2>4, <3>2
  <2>5. CASE ~(i < b)
    <3>1. b <= i
      BY <2>1, <2>5
    <3>2. 2^b <= p /\ w < 2^b /\ 2^b \in Nat
      BY <1>2, <2>1, <2>2, <3>1, PowerGrows, PowerType DEF HasBits
    <3> QED BY <1>1, <2>2, <2>3, <2>5, <3>2
  <2> QED BY <2>4, <2>5
<1>4. S = 0..(b - 1)
  BY <1>1, <1>3
<1>5. Cardinality(0..(b - 1)) = b
  BY FS_Interval
<1>6. BitsOfWord(w) = b
  BY <1>4, <1>5 DEF BitsOfWord
<1> QED BY <1>2, <1>6

\* Digits below do not change how many bits there are above.
LEMMA BitsAbove ==
  ASSUME NEW k \in Nat, NEW M, M = 2^k, NEW a \in Nat \ {0}, NEW r \in 0..(M - 1),
         NEW b, HasBits(a, b)
  PROVE  HasBits(a * M + r, k + b) /\ b > 0
<1>1. b \in Nat /\ a < 2^b /\ M \in Nat \ {0} /\ 2^b \in Nat
  BY PowerType DEF HasBits
<1>2. b > 0
  <2>1. CASE b = 0
    BY <1>1, <2>1
  <2> QED BY <1>1, <2>1
<1>3. b - 1 \in Nat /\ 2^(b - 1) <= a /\ 2^(b - 1) \in Nat
  BY <1>1, <1>2, PowerType DEF HasBits
<1>4. 2^(k + b) = M * 2^b
  BY <1>1, PowerSum
<1>5. 2^(k + (b - 1)) = M * 2^(b - 1)
  BY <1>3, PowerSum
<1>6. (k + b) - 1 = k + (b - 1) /\ k + b \in Nat
  BY <1>1
<1>7. PICK N \in Nat \ {0}, p \in Nat, q \in Nat :
        N = M /\ p = 2^b /\ q = 2^(b - 1) /\ a < p /\ q <= a
  BY <1>1, <1>3
<1>8. r \in Nat /\ r < N
  BY <1>7
<1>9. a * N + r < N * p /\ N * q <= a * N + r
  BY ONLY <1>7, <1>8, N \in Nat \ {0}, p \in Nat, q \in Nat, a \in Nat
<1> QED BY <1>2, <1>4, <1>5, <1>6, <1>7, <1>9 DEF HasBits

\* bits128
LEMMA Bits128Is ==
  ASSUME NEW x \in Numbers128
  PROVE  HasBits(Value128(x), Bits128(x)) /\ Bits128(x) \in 0..(2 * WordBits)
<1>1. x[1] \in 0..(Word - 1) /\ x[2] \in 0..(Word - 1)
  BY PairFields DEF Numbers128
<1>2. Value128(x) = x[1] * Word + x[2]
  BY DEF Value128, PairValue
<1>3. CASE x[1] # 0
  <2>1. Bits128(x) = WordBits + BitsOfWord(x[1])
    BY <1>3 DEF Bits128
  <2>2. HasBits(x[1], BitsOfWord(x[1])) /\ BitsOfWord(x[1]) \in 0..WordBits
    BY <1>1, BitsOfWordIs
  <2>3. x[1] \in Nat \ {0} /\ WordBits \in Nat /\ Word = 2^WordBits
    BY <1>1, <1>3, Bases
  <2>4. HasBits(x[1] * Word + x[2], WordBits + BitsOfWord(x[1]))
    BY <1>1, <2>2, <2>3, BitsAbove
  <2> QED BY <1>2, <2>1, <2>2, <2>3, <2>4
<1>4. CASE x[1] = 0
  <2>1. Bits128(x) = BitsOfWord(x[2]) /\ Value128(x) = x[2]
    BY <1>1, <1>2, <1>4, Bases DEF Bits128
  <2> QED BY <1>1, <2>1, Bases, BitsOfWordIs
<1> QED BY <1>3, <1>4

\* bits256
LEMMA Bits256Is ==
  ASSUME NEW x \in Numbers256
  PROVE  HasBits(Value(x), Bits256(x)) /\ Bits256(x) \in 0..(4 * WordBits)
<1>1. x[1] \in Numbers128 /\ x[2] \in Numbers128
  BY HalvesAre
<1>2. PICK a \in Nat, b \in Nat :
        /\ a = Value128(x[1]) /\ b = Value128(x[2])
        /\ a \in 0..(Modulus128 - 1) /\ b \in 0..(Modulus128 - 1)
  BY <1>1, Type128
<1>3. Value(x) = a * Modulus128 + b
  BY <1>2, HalvesAre DEF Halves, PairValue
<1>4. x[1] = Zero128 <=> a = 0
  <2>1. << 0, 0 >> \in Numbers128 /\ Value128(<< 0, 0 >>) = 0
    BY Bases DEF Numbers128, Pairs, Value128, PairValue
  <2>2. ASSUME a = 0 PROVE x[1] = << 0, 0 >>
    BY <1>1, <1>2, <2>1, <2>2, Bases, PairsEqual DEF Numbers128, Value128
  <2> QED BY <1>2, <2>1, <2>2 DEF Zero128
<1>5. CASE a # 0
  <2>1. Bits256(x) = 2 * WordBits + Bits128(x[1])
    BY <1>4, <1>5 DEF Bits256
  <2>2. HasBits(a, Bits128(x[1])) /\ Bits128(x[1]) \in 0..(2 * WordBits)
    BY <1>1, <1>2, Bits128Is
  <2>3. a \in Nat \ {0} /\ 2 * WordBits \in Nat /\ WordBits \in Nat
        /\ Modulus128 = 2^(2 * WordBits)
    BY <1>5, Bases
  <2>4. HasBits(a * Modulus128 + b, 2 * WordBits + Bits128(x[1]))
    BY <1>2, <2>2, <2>3, BitsAbove
  <2> QED BY <1>3, <2>1, <2>2, <2>3, <2>4
<1>6. CASE a = 0
  <2>1. Bits256(x) = Bits128(x[2])
    BY <1>4, <1>6 DEF Bits256
  <2>2. Value(x) = b
    BY <1>2, <1>3, <1>6, Bases
  <2> QED BY <1>1, <1>2, <2>1, <2>2, Bases, Bits128Is
<1> QED BY <1>5, <1>6

-----------------------------------------------------------------------------
\* Single bits.

Bit(v, i) == (v \div 2^i) % 2
Disjoint(v, w, n) == \A i \in 0..(n - 1) : Bit(v, i) + Bit(w, i) <= 1

\* A bit is what a shift by one more takes away.
LEMMA NextBit ==
  ASSUME NEW v \in Nat, NEW i \in Nat
  PROVE  /\ v \div 2^i = 2 * (v \div 2^(i + 1)) + Bit(v, i) /\ Bit(v, i) \in 0..1
         /\ v \div 2^i \in Nat /\ v \div 2^(i + 1) \in Nat
<1>1. PICK p \in Nat \ {0} : p = 2^i
  BY PowerType
<1>2. 2^(i + 1) = 2 * p
  BY <1>1, PowerDoubles
<1>3. /\ v \div p = 2 * (v \div (2 * p)) + ((v \div p) % 2) /\ (v \div p) % 2 \in 0..1
      /\ v \div p \in Nat /\ v \div (2 * p) \in Nat
  BY ONLY p \in Nat \ {0}, v \in Nat
<1> QED BY <1>1, <1>2, <1>3, Zenon DEF Bit

\* The bits of the lower digit of two come first, then those of the upper one.
BitsOfDigits(k, M, a, b) ==
  /\ \A i \in 0..(k - 1) : Bit(a * M + b, i) = Bit(b, i)
  /\ \A i \in Nat : Bit(a * M + b, k + i) = Bit(a, i)

\* So it is for every base that is a power of two.
LEMMA PairBits ==
  ASSUME NEW k \in Nat, NEW M, M = 2^k, NEW a \in 0..(M - 1), NEW b \in 0..(M - 1)
  PROVE  BitsOfDigits(k, M, a, b)
<1>0. M \in Nat \ {0}
  BY PowerType
<1>1. ASSUME NEW i \in 0..(k - 1) PROVE Bit(a * M + b, i) = Bit(b, i)
  <2>1. k - i - 1 \in Nat /\ i \in Nat /\ (i + 1) + (k - i - 1) = k /\ i + 1 \in Nat
    OBVIOUS
  <2>2. PICK p \in Nat \ {0}, q \in Nat \ {0} : p = 2^i /\ q = 2^(k - i - 1)
    BY <2>1, PowerType
  <2>3. M = (2 * p) * q
    <3>1. 2^((i + 1) + (k - i - 1)) = 2^(i + 1) * 2^(k - i - 1)
      BY <2>1, PowerSum
    <3>2. 2^(i + 1) = 2 * p
      BY <2>1, <2>2, PowerDoubles
    <3> QED BY <2>1, <2>2, <3>1, <3>2
  <2>4. PICK c \in Int, d \in Int : c = b \div p /\ d = b % p
    BY <1>0
  <2>5. b = p * c + d /\ d \in 0..(p - 1)
    BY <1>0, <2>4, Euclid
  <2>6. PICK e \in Int : e = a * q
    BY <1>0
  <2>7. a * M + b = p * (2 * e + c) + d
    <3>1. a * ((2 * p) * q) = p * (2 * (a * q))
      BY <1>0
    <3>2. p * (2 * e + c) + d = p * (2 * e) + (p * c + d)
      OBVIOUS
    <3> QED BY <2>3, <2>5, <2>6, <3>1, <3>2
  <2>8. PICK f \in Int : f = 2 * e + c
    OBVIOUS
  <2>9. (p * f + d) \div p = f
    BY <2>5, QuotientIs
  <2>10. f % 2 = c % 2
    BY <2>8
  <2> QED BY <2>2, <2>4, <2>7, <2>8, <2>9, <2>10, Zenon DEF Bit
<1>2. ASSUME NEW i \in Nat PROVE Bit(a * M + b, k + i) = Bit(a, i)
  <2>1. 2^(k + i) = M * 2^i /\ 2^i \in Nat \ {0}
    BY PowerSum, PowerType
  <2>2. ShiftsDigits(M, 2^i, a, b)
    BY <1>0, <2>1, ShiftDigits
  <2> QED BY <2>1, <2>2, Zenon DEF ShiftsDigits, Bit
<1> QED BY <1>1, <1>2 DEF BitsOfDigits

\* Words without a common bit: their disjunction is their sum.
LEMMA OrWordsIs ==
  ASSUME NEW v \in 0..(Word - 1), NEW w \in 0..(Word - 1), Disjoint(v, w, WordBits)
  PROVE  OrWords(v, w) = v + w /\ v + w \in 0..(Word - 1)
<1> DEFINE d(i) == IF Bit(v, WordBits - i) + Bit(w, WordBits - i) > 0 THEN 1 ELSE 0
           s(n) == [i \in 1..n |-> d(i)]
           S == { n \in Nat : n <= WordBits =>
                    /\ Number(s(n), 2) = (v \div 2^(WordBits - n)) + (w \div 2^(WordBits - n))
                    /\ Number(s(n), 2) \in Nat /\ Number(s(n), 2) < 2^n }
<1>0. v \in Nat /\ w \in Nat /\ WordBits \in Nat
  BY Bases
<1>1. 0 \in S
  <2>1. s(0) = << >>
    OBVIOUS
  <2>2. Number(s(0), 2) = 0
    BY <2>1, NumberOfNothing
  <2>3. WordBits - 0 = WordBits /\ v \div Word = 0 /\ w \div Word = 0 /\ Word = 2^WordBits
    BY Bases
  <2>4. 2^0 = 1
    OBVIOUS
  <2> HIDE DEF s
  <2> QED BY <2>2, <2>3, <2>4
<1>2. ASSUME NEW n \in Nat, n \in S PROVE n + 1 \in S
  <2> SUFFICES ASSUME n + 1 <= WordBits
               PROVE  /\ Number(s(n + 1), 2)
                           = (v \div 2^(WordBits - (n + 1))) + (w \div 2^(WordBits - (n + 1)))
                      /\ Number(s(n + 1), 2) \in Nat /\ Number(s(n + 1), 2) < 2^(n + 1)
    OBVIOUS
  <2> DEFINE i == WordBits - (n + 1)
  <2>1. i \in 0..(WordBits - 1) /\ i \in Nat /\ i + 1 = WordBits - n
    BY <1>0
  <2>2. d(n + 1) = Bit(v, i) + Bit(w, i) /\ d(n + 1) \in 0..1
    <3>1. Bit(v, i) \in 0..1 /\ Bit(w, i) \in 0..1
      BY <1>0, <2>1, NextBit
    <3>2. Bit(v, i) + Bit(w, i) <= 1
      BY <2>1 DEF Disjoint
    <3> QED BY <3>1, <3>2
  <2>3. s(n) \in Seq(Nat) /\ s(n + 1) = Append(s(n), d(n + 1))
    <3>1. \A j \in 1..(n + 1) : d(j) \in Nat
      OBVIOUS
    <3> HIDE DEF d
    <3>2. s(n) \in [1..n -> Nat]
      BY <3>1
    <3>3. s(n) \in Seq(Nat) /\ Len(s(n)) = n
      BY <3>2, SeqOfFunction
    <3> QED BY <3>1, <3>3
  <2> DEFINE x == Number(s(n), 2)
  <2>4. Number(s(n + 1), 2) = 2 * x + d(n + 1)
    <3> HIDE DEF s, d, i
    <3>1. d(n + 1) \in Nat
      BY <2>2
    <3> QED BY <2>3, <3>1, NumberAppend
  <2>5. x = (v \div 2^(i + 1)) + (w \div 2^(i + 1)) /\ x \in Nat /\ x < 2^n
    <3>1. n <= WordBits /\ i + 1 = WordBits - n
      BY <1>0, <2>1
    <3> HIDE DEF s, d, i
    <3> QED BY <1>2, <3>1
  <2> HIDE DEF s, d, x, i
  <2>6. /\ v \div 2^i = 2 * (v \div 2^(i + 1)) + Bit(v, i)
        /\ w \div 2^i = 2 * (w \div 2^(i + 1)) + Bit(w, i)
        /\ v \div 2^(i + 1) \in Nat /\ w \div 2^(i + 1) \in Nat
        /\ Bit(v, i) \in 0..1 /\ Bit(w, i) \in 0..1
    BY <1>0, <2>1, NextBit
  <2>7. PICK a \in Nat, b \in Nat, e \in Nat, f \in Nat :
          /\ a = v \div 2^(i + 1) /\ b = w \div 2^(i + 1) /\ e = Bit(v, i) /\ f = Bit(w, i)
    BY <2>6
  <2>8. Number(s(n + 1), 2) = (v \div 2^i) + (w \div 2^i)
    BY <2>2, <2>4, <2>5, <2>6, <2>7
  <2>9. 2^(n + 1) = 2 * 2^n /\ 2^n \in Nat
    BY PowerDoubles
  <2> QED BY <2>2, <2>4, <2>5, <2>8, <2>9 DEF i
<1> HIDE DEF S
<1>3. WordBits \in S
  BY <1>0, <1>1, <1>2, Induction
<1>4. OrWords(v, w) = Number(s(WordBits), 2)
  BY DEF OrWords, Bit
<1>5. WordBits - WordBits = 0 /\ 2^0 = 1 /\ v \div 1 = v /\ w \div 1 = w
  BY <1>0
<1> HIDE DEF s
<1>6. OrWords(v, w) = v + w /\ v + w < 2^WordBits
  BY <1>0, <1>3, <1>4, <1>5 DEF S
<1> QED BY <1>0, <1>6, Bases

\* Pairs without a common bit have words without a common bit.
LEMMA DisjointDigits ==
  ASSUME NEW k \in Nat, NEW M, M = 2^k,
         NEW a \in 0..(M - 1), NEW b \in 0..(M - 1),
         NEW c \in 0..(M - 1), NEW d \in 0..(M - 1),
         Disjoint(a * M + b, c * M + d, 2 * k)
  PROVE  Disjoint(a, c, k) /\ Disjoint(b, d, k)
<1>0. BitsOfDigits(k, M, a, b) /\ BitsOfDigits(k, M, c, d)
  BY PairBits
<1>1. ASSUME NEW i \in 0..(k - 1) PROVE Bit(a, i) + Bit(c, i) <= 1
  <2>1. k + i \in 0..(2 * k - 1) /\ i \in Nat
    OBVIOUS
  <2>2. Bit(a * M + b, k + i) = Bit(a, i) /\ Bit(c * M + d, k + i) = Bit(c, i)
    BY <1>0, <2>1, Zenon DEF BitsOfDigits
  <2> QED BY <2>1, <2>2 DEF Disjoint
<1>2. ASSUME NEW i \in 0..(k - 1) PROVE Bit(b, i) + Bit(d, i) <= 1
  <2>1. i \in 0..(2 * k - 1)
    OBVIOUS
  <2>2. Bit(a * M + b, i) = Bit(b, i) /\ Bit(c * M + d, i) = Bit(d, i)
    BY <1>0, Zenon DEF BitsOfDigits
  <2> QED BY <2>1, <2>2 DEF Disjoint
<1> QED BY <1>1, <1>2 DEF Disjoint

\* The two words of a number of 128 bits, joined.
Or128(x, y) == << OrWords(x[1], y[1]), OrWords(x[2], y[2]) >>

\* So it is for two words.
LEMMA Or128Is ==
  ASSUME NEW x \in Numbers128, NEW y \in Numbers128,
         Disjoint(Value128(x), Value128(y), 2 * WordBits)
  PROVE  /\ Or128(x, y) \in Numbers128
         /\ Value128(Or128(x, y)) = Value128(x) + Value128(y)
<1>1. PICK a \in 0..(Word - 1), b \in 0..(Word - 1), c \in 0..(Word - 1), d \in 0..(Word - 1) :
        a = x[1] /\ b = x[2] /\ c = y[1] /\ d = y[2]
  BY PairFields DEF Numbers128
<1>2. Value128(x) = a * Word + b /\ Value128(y) = c * Word + d
  BY <1>1, Zenon DEF Value128, PairValue
<1>3. Disjoint(a, c, WordBits) /\ Disjoint(b, d, WordBits)
  <2>1. Disjoint(a * Word + b, c * Word + d, 2 * WordBits)
    BY <1>2, Zenon
  <2> QED BY <2>1, Bases, DisjointDigits
<1>4. /\ OrWords(a, c) = a + c /\ a + c \in 0..(Word - 1)
      /\ OrWords(b, d) = b + d /\ b + d \in 0..(Word - 1)
  BY <1>3, OrWordsIs
<1>5. Or128(x, y) = << a + c, b + d >>
  BY <1>1, <1>4 DEF Or128
<1>6. << a + c, b + d >> \in Numbers128
  BY <1>4 DEF Numbers128, Pairs
<1>7. Value128(<< a + c, b + d >>) = (a + c) * Word + (b + d)
  BY DEF Value128, PairValue
<1>8. PICK W \in Nat \ {0} : W = Word
  BY Bases
<1>9. (a + c) * W + (b + d) = (a * W + b) + (c * W + d)
  BY <1>8
<1> QED BY <1>2, <1>5, <1>6, <1>7, <1>8, <1>9, Zenon

\* or256 of numbers without a common bit is their sum.
LEMMA Or256Is ==
  ASSUME NEW x \in Numbers256, NEW y \in Numbers256,
         Disjoint(Value(x), Value(y), 4 * WordBits)
  PROVE  /\ Or256(x, y) \in Numbers256
         /\ Value(Or256(x, y)) = Value(x) + Value(y)
<1>0. /\ x[1] \in Numbers128 /\ x[2] \in Numbers128
      /\ y[1] \in Numbers128 /\ y[2] \in Numbers128
  BY HalvesAre
<1>1. PICK a \in 0..(Modulus128 - 1), b \in 0..(Modulus128 - 1),
           c \in 0..(Modulus128 - 1), d \in 0..(Modulus128 - 1) :
        /\ a = Value128(x[1]) /\ b = Value128(x[2])
        /\ c = Value128(y[1]) /\ d = Value128(y[2])
  BY <1>0, Type128
<1>2. Value(x) = a * Modulus128 + b /\ Value(y) = c * Modulus128 + d
  BY <1>1, HalvesAre DEF Halves, PairValue
<1>3. Disjoint(a, c, 2 * WordBits) /\ Disjoint(b, d, 2 * WordBits)
  <2>1. 2 * WordBits \in Nat /\ 2 * (2 * WordBits) = 4 * WordBits
        /\ Modulus128 = 2^(2 * WordBits)
    BY Bases
  <2>2. Disjoint(a * Modulus128 + b, c * Modulus128 + d, 2 * (2 * WordBits))
    BY <1>2, <2>1, Zenon
  <2> QED BY <2>1, <2>2, DisjointDigits
<1>4. /\ Or128(x[1], y[1]) \in Numbers128 /\ Value128(Or128(x[1], y[1])) = a + c
      /\ Or128(x[2], y[2]) \in Numbers128 /\ Value128(Or128(x[2], y[2])) = b + d
  BY <1>0, <1>1, <1>3, Or128Is
<1>5. Or256(x, y) = << Or128(x[1], y[1]), Or128(x[2], y[2]) >>
  BY DEF Or256, Or128
<1>6. Or256(x, y) \in Numbers256
      /\ Value(Or256(x, y)) = PairValue(Modulus128, << a + c, b + d >>)
  BY <1>4, <1>5, PairOf128
<1>7. PairValue(Modulus128, << a + c, b + d >>) = (a + c) * Modulus128 + (b + d)
  BY DEF PairValue
<1>8. PICK W \in Nat \ {0} : W = Modulus128
  BY Bases
<1>9. (a + c) * W + (b + d) = (a * W + b) + (c * W + d)
  BY <1>8
<1> QED BY <1>2, <1>6, <1>7, <1>8, <1>9, Zenon

\* A power of two has no bit in common with a multiple of the next one.
LEMMA NewBit ==
  ASSUME NEW j \in Nat, NEW m \in Nat, NEW v, v = 2^(j + 1) * m, NEW n \in Nat
  PROVE  Disjoint(v, 2^j, n)
<1>0. PICK p \in Nat \ {0} : p = 2^j
  BY PowerType
<1>1. v = (2 * p) * m /\ v \in Nat
  <2>1. 2^(j + 1) = 2 * p
    BY <1>0, PowerDoubles
  <2> QED BY <2>1
<1> SUFFICES ASSUME NEW i \in 0..(n - 1) PROVE Bit(v, i) + Bit(2^j, i) <= 1
  BY DEF Disjoint
<1>2. i \in Nat /\ Bit(v, i) \in 0..1 /\ Bit(p, i) \in 0..1
  <2>1. i \in Nat /\ v \in Nat /\ p \in Nat
    BY <1>1
  <2> QED BY ONLY <2>1, NextBit
<1>3. CASE i <= j
  <2>1. j - i \in Nat /\ i + (j - i) = j
    BY <1>2, <1>3
  <2>2. PICK q \in Nat \ {0}, r \in Nat \ {0} : q = 2^i /\ r = 2^(j - i)
    BY <1>2, <2>1, PowerType
  <2>3. p = q * r
    BY <1>0, <1>2, <2>1, <2>2, PowerSum
  <2>4. PICK e \in Int : e = r * m
    OBVIOUS
  <2>5. v = q * (2 * e) + 0
    <3>1. (2 * (q * r)) * m = q * (2 * (r * m)) + 0
      OBVIOUS
    <3> QED BY <1>1, <2>3, <2>4, <3>1, Zenon
  <2>6. PICK f \in Int : f = 2 * e
    OBVIOUS
  <2>7. (q * f + 0) \div q = f /\ f % 2 = 0
    BY <2>6, QuotientIs
  <2>8. Bit(v, i) = 0
    BY <2>2, <2>5, <2>6, <2>7, Zenon DEF Bit
  <2> QED BY <1>0, <1>2, <2>8
<1>4. CASE i > j
  <2>1. PICK q \in Nat \ {0} : q = 2^i
    BY <1>2, PowerType
  <2>2. p < q
    <3>1. 2^(j + 1) <= q /\ 2^(j + 1) = 2 * p
      BY <1>0, <1>2, <1>4, <2>1, PowerGrows, PowerDoubles
    <3> QED BY <3>1
  <2>3. p \div q = 0
    BY <2>2
  <2>4. Bit(p, i) = 0
    BY <2>1, <2>3 DEF Bit
  <2> QED BY <1>0, <1>2, <2>4
<1> QED BY <1>2, <1>3, <1>4

-----------------------------------------------------------------------------
\* Numbers and words.

\* Two digits of n to the bases a and b.
Splits(n, a, b) ==
  /\ n \div (a * b) = (n \div a) \div b
  /\ n % (a * b) = ((n \div a) % b) * a + (n % a)

\* So it is for all bases.
LEMMA SplitNumber ==
  ASSUME NEW n \in Nat, NEW a \in Nat \ {0}, NEW b \in Nat \ {0}
  PROVE  Splits(n, a, b)
<1> DEFINE q == n \div a
           r == n % a
           k == q \div b
           l == q % b
<1>1. q \in Int /\ r \in 0..(a - 1) /\ n = a * q + r
  BY Euclid
<1> HIDE DEF q, r
<1>2. k \in Int /\ l \in 0..(b - 1) /\ q = b * k + l
  BY <1>1, Euclid
<1> HIDE DEF k, l
<1>3. n = (a * b) * k + (l * a + r)
  BY ONLY <1>1, <1>2, a \in Int, b \in Int
<1>4. l * a + r \in 0..(b * a - 1)
  BY <1>1, <1>2, HalvesRange
<1>5. PICK N \in Nat \ {0} : N = a * b
  OBVIOUS
<1>6. PICK w \in 0..(N - 1) : w = l * a + r
  <2>1. b * a = a * b
    OBVIOUS
  <2> QED BY <1>4, <1>5, <2>1
<1>7. (N * k + w) \div N = k /\ (N * k + w) % N = w
  BY <1>2, QuotientIs
<1>8. n \div (a * b) = k /\ n % (a * b) = l * a + r
  BY <1>3, <1>5, <1>6, <1>7, Zenon
<1> QED BY <1>8, Zenon DEF Splits, k, l, q, r

\* Two words of a number.
LEMMA Words128 ==
  ASSUME NEW n \in Nat
  PROVE  LET x == << (n \div Word) % Word, n % Word >>
         IN x \in Numbers128 /\ Value128(x) = n % Modulus128
<1> DEFINE a == (n \div Word) % Word
           b == n % Word
<1>1. a \in 0..(Word - 1) /\ b \in 0..(Word - 1)
  <2>1. PICK W \in Nat \ {0} : W = Word
    BY Bases
  <2>2. n \div W \in Int
    BY Euclid
  <2> QED BY <2>1, <2>2, Euclid
<1>2. << a, b >> \in Numbers128
  BY <1>1 DEF Numbers128, Pairs
<1>3. Value128(<< a, b >>) = a * Word + b
  BY DEF Value128, PairValue
<1>4. Splits(n, Word, Word)
  BY Bases, SplitNumber
<1>5. n % Modulus128 = a * Word + b
  BY <1>4, Zenon DEF Splits, Modulus128
<1> QED BY <1>2, <1>3, <1>5

\* The words of a number are those of its remainder.
LEMMA WordsAre ==
  ASSUME NEW n \in Nat
  PROVE  Words(n) \in Numbers256 /\ Value(Words(n)) = n % Modulus
<1> DEFINE h == n \div Modulus128
           upper == << (h \div Word) % Word, h % Word >>
           lower == << (n \div Word) % Word, n % Word >>
<1>0. PICK M \in Nat \ {0}, W \in Nat \ {0} : M = Modulus128 /\ W = Word
  BY Bases
<1>1. h \in Nat
  BY <1>0
<1>2. Words(n) = << upper, lower >>
  <2>1. WordBits \in Nat /\ 2 * WordBits \in Nat /\ 1 * WordBits = WordBits
        /\ 0 * WordBits = 0 /\ 3 * WordBits = 2 * WordBits + WordBits
    BY Bases
  <2>2. /\ 2^(0 * WordBits) = 1 /\ 2^(1 * WordBits) = Word
        /\ 2^(2 * WordBits) = Modulus128
    <3>1. 2^0 = 1
      OBVIOUS
    <3> QED BY <2>1, <3>1, Bases, Zenon
  <2>3. 2^(3 * WordBits) = Modulus128 * Word
    BY <2>1, Bases, PowerSum
  <2>4. n \div (Modulus128 * Word) = h \div Word
    <3>1. Splits(n, Modulus128, Word)
      BY Bases, SplitNumber
    <3> QED BY <3>1, Zenon DEF Splits
  <2>5. n \div 1 = n
    OBVIOUS
  <2> QED BY <2>2, <2>3, <2>4, <2>5, Zenon DEF Words
<1>3. lower \in Numbers128 /\ Value128(lower) = n % Modulus128
  BY Words128
<1>4. upper \in Numbers128 /\ Value128(upper) = h % Modulus128
  <2> HIDE DEF h
  <2> QED BY <1>1, Words128
<1>5. n % Modulus = (h % Modulus128) * Modulus128 + (n % Modulus128)
  <2>1. Splits(n, Modulus128, Modulus128)
    BY Bases, SplitNumber
  <2> QED BY <2>1, ModulusIs, Zenon DEF Splits
<1> HIDE DEF h, upper, lower
<1>6. << upper, lower >> \in Numbers256
      /\ Value(<< upper, lower >>) = Value128(upper) * Modulus128 + Value128(lower)
  BY <1>3, <1>4, PairOf128 DEF PairValue
<1> QED BY <1>2, <1>3, <1>4, <1>5, <1>6, Zenon

\* mul256, modulo 2^256
LEMMA Product256 ==
  ASSUME NEW x \in Numbers256, NEW y \in Numbers256
  PROVE  /\ Mul256(x, y) \in Numbers256
         /\ Value(Mul256(x, y)) = (Value(x) * Value(y)) % Modulus
<1>1. PICK a \in Nat, b \in Nat, n \in Nat : a = Value(x) /\ b = Value(y) /\ n = a * b
  BY Type256
<1> QED BY <1>1, WordsAre DEF Mul256

\* A number of one word.
LEMMA SmallIs ==
  ASSUME NEW n \in 0..(Word - 1)
  PROVE  Small(n) \in Numbers256 /\ Value(Small(n)) = n
<1>1. << 0, 0 >> \in Numbers128 /\ Value128(<< 0, 0 >>) = 0
  BY Bases DEF Numbers128, Pairs, Value128, PairValue
<1>2. << 0, n >> \in Numbers128 /\ Value128(<< 0, n >>) = n
  BY Bases DEF Numbers128, Pairs, Value128, PairValue
<1>3. << << 0, 0 >>, << 0, n >> >> \in Numbers256
      /\ Value(<< << 0, 0 >>, << 0, n >> >>) = PairValue(Modulus128, << 0, n >>)
  BY <1>1, <1>2, PairOf128
<1>4. PairValue(Modulus128, << 0, n >>) = n
  BY Bases DEF PairValue
<1> QED BY <1>3, <1>4 DEF Small, Zero128

\* Only zero is written with zeros.
LEMMA ZeroIs ==
  /\ Zero256 \in Numbers256 /\ Value(Zero256) = 0
  /\ \A x \in Numbers256 : Value(x) = 0 <=> x = Zero256
<1>1. 0 \in 0..(Word - 1) /\ Zero256 = Small(0)
  BY Bases DEF Zero256, Small, Zero128
<1>2. Zero256 \in Numbers256 /\ Value(Zero256) = 0
  BY <1>1, SmallIs
<1> QED BY <1>2, Equal256

-----------------------------------------------------------------------------
\* Bytes.

\* The m digits of g behind the first n.
Part(g, n, m) == [i \in 1..m |-> g[n + i]]

\* Digits read after others count for less: a place to the base 2^c for each.
Continues(c, g, n, m) ==
  /\ Number(Part(g, 0, n), 2^c) \in Nat
  /\ Number(Part(g, n, m), 2^c) \in 0..(2^(c * m) - 1)
  /\ Number(Part(g, 0, n + m), 2^c)
       = Number(Part(g, 0, n), 2^c) * 2^(c * m) + Number(Part(g, n, m), 2^c)

\* So it is for all digits.
LEMMA NumberOfParts ==
  ASSUME NEW c \in Nat, NEW length \in Nat, NEW g \in [1..length -> 0..(2^c - 1)],
         NEW n \in Nat, NEW m \in Nat, n + m <= length
  PROVE  /\ Part(g, 0, n + m) \in Seq(Nat) /\ Part(g, n, m) \in Seq(Nat)
         /\ Continues(c, g, n, m)
<1> DEFINE P(k) == /\ Number(Part(g, n, k), 2^c) \in 0..(2^(c * k) - 1)
                   /\ Number(Part(g, 0, n + k), 2^c)
                        = Number(Part(g, 0, n), 2^c) * 2^(c * k) + Number(Part(g, n, k), 2^c)
           S == { k \in Nat : n + k <= length => P(k) }
<1>0. PICK b \in Nat \ {0} : b = 2^c
  BY PowerType
<1>1. ASSUME NEW k \in Nat, NEW l \in Nat, k + l <= length
      PROVE  /\ Part(g, k, l) \in Seq(Nat)
             /\ \A i \in 1..l : g[k + i] \in 0..(b - 1)
  <2>1. \A i \in 1..l : k + i \in 1..length
    BY <1>1
  <2>2. \A i \in 1..l : g[k + i] \in 0..(b - 1)
    BY <1>0, <2>1
  <2>3. [i \in 1..l |-> g[k + i]] \in [1..l -> Nat]
    BY <1>0, <2>2
  <2>4. [i \in 1..l |-> g[k + i]] \in Seq(Nat)
    BY <2>3, SeqOfFunction
  <2> QED BY <2>2, <2>4 DEF Part
<1>2. ASSUME NEW k \in Nat, NEW l \in Nat, k + l + 1 <= length
      PROVE  /\ Number(Part(g, k, l + 1), b) = b * Number(Part(g, k, l), b) + g[k + (l + 1)]
             /\ Number(Part(g, k, l), b) \in Nat
             /\ g[k + (l + 1)] \in 0..(b - 1)
  <2>1. Part(g, k, l) \in Seq(Nat) /\ k + (l + 1) <= length /\ l + 1 \in Nat
    BY <1>1, <1>2
  <2>2. g[k + (l + 1)] \in 0..(b - 1)
    <3>1. \A i \in 1..(l + 1) : g[k + i] \in 0..(b - 1)
      BY <1>1, <2>1
    <3> QED BY <3>1
  <2>3. Part(g, k, l + 1) = Append(Part(g, k, l), g[k + (l + 1)])
    <3>1. Len(Part(g, k, l)) = l
      BY DEF Part
    <3> QED BY <2>1, <3>1 DEF Part
  <2>4. g[k + (l + 1)] \in Nat /\ b \in Nat
    BY <1>0, <2>2
  <2>5. PICK s \in Seq(Nat), d \in Nat : s = Part(g, k, l) /\ d = g[k + (l + 1)]
    BY <2>1, <2>4
  <2>6. Number(Append(s, d), b) = b * Number(s, b) + d /\ Number(s, b) \in Nat
    BY ONLY <2>4, NumberAppend, s \in Seq(Nat), d \in Nat
  <2> QED BY <2>2, <2>3, <2>5, <2>6, Zenon
<1>3. Number(Part(g, 0, n), b) \in Nat
  <2>1. Part(g, 0, n) \in Seq(Nat)
    BY <1>1
  <2> QED BY <1>0, <2>1, NumberType
<1>4. 0 \in S
  <2>1. Part(g, n, 0) = << >>
    BY DEF Part
  <2>2. Number(Part(g, n, 0), b) = 0
    BY <2>1, NumberOfNothing
  <2>3. c * 0 = 0 /\ 2^0 = 1 /\ n + 0 = n
    OBVIOUS
  <2>4. PICK v \in Nat : v = Number(Part(g, 0, n), b)
    BY <1>3
  <2>5. v * 1 + 0 = v /\ 0 \in 0..(1 - 1)
    OBVIOUS
  <2>6. P(0)
    BY <1>0, <2>2, <2>3, <2>4, <2>5, Zenon
  <2> QED BY <2>6
<1>5. ASSUME NEW k \in Nat, k \in S PROVE k + 1 \in S
  <2> SUFFICES ASSUME n + (k + 1) <= length PROVE P(k + 1)
    OBVIOUS
  <2>1. PICK p \in Nat \ {0} : p = 2^(c * k)
    BY PowerType
  <2>2. 2^(c * (k + 1)) = p * b
    <3>1. c * (k + 1) = c * k + c /\ c * k \in Nat
      OBVIOUS
    <3> QED BY <1>0, <2>1, <3>1, PowerSum
  <2>3. PICK u \in Nat, v \in 0..(p - 1), d \in 0..(b - 1) :
          /\ u = Number(Part(g, 0, n), b) /\ v = Number(Part(g, n, k), b)
          /\ d = g[n + (k + 1)]
    <3>1. n + k + 1 <= length /\ n + k <= length
      OBVIOUS
    <3> QED BY <1>0, <1>2, <1>3, <1>5, <2>1, <3>1
  <2>4. Number(Part(g, n, k + 1), b) = b * v + d
    BY <1>2, <2>3
  <2>5. Number(Part(g, 0, n + (k + 1)), b) = b * (u * p + v) + d
    <3>1. n + k <= length /\ 0 + (n + k) + 1 <= length /\ n + k \in Nat
          /\ (n + k) + 1 = n + (k + 1) /\ 0 + ((n + k) + 1) = n + (k + 1)
      OBVIOUS
    <3>2. Number(Part(g, 0, n + k), b) = u * p + v
      BY <1>0, <1>5, <2>1, <2>3, <3>1
    <3>3. Number(Part(g, 0, (n + k) + 1), b)
            = b * Number(Part(g, 0, n + k), b) + g[0 + ((n + k) + 1)]
      BY <1>2, <3>1
    <3> QED BY <2>3, <3>1, <3>2, <3>3
  <2>6. b * v + d \in 0..(p * b - 1)
    <3>1. v * b + d \in 0..(p * b - 1)
      BY <1>0, HalvesRange
    <3>2. v * b = b * v
      OBVIOUS
    <3> QED BY <3>1, <3>2
  <2>7. b * (u * p + v) + d = u * (p * b) + (b * v + d)
    BY <1>0
  <2> QED BY <1>0, <2>2, <2>3, <2>4, <2>5, <2>6, <2>7, Zenon
<1> HIDE DEF S
<1>6. m \in S
  BY <1>4, <1>5, Induction
<1>7. P(m)
  BY <1>6 DEF S
<1>8. Continues(c, g, n, m)
  BY <1>0, <1>3, <1>7, Zenon DEF Continues
<1> QED BY <1>1, <1>8

\* A number filled up with zeros to 256 bits.
Padded(s) ==
  [i \in 1..INT256_LENGTH |->
     IF i <= INT256_LENGTH - Len(s) THEN 0 ELSE s[i - (INT256_LENGTH - Len(s))]]

\* Zeros in front do not count.
LEMMA PaddedIs ==
  ASSUME NEW s \in Seq(0..(2^ByteBits - 1)), Len(s) <= INT256_LENGTH
  PROVE  /\ Padded(s) \in [1..INT256_LENGTH -> 0..(2^ByteBits - 1)]
         /\ Number(Part(Padded(s), 0, INT256_LENGTH), 2^ByteBits) = Number(s, 2^ByteBits)
         /\ Number(s, 2^ByteBits) \in Nat
<1> DEFINE g == Padded(s)
           pad == INT256_LENGTH - Len(s)
<1>0. PICK b \in Nat \ {0} : b = 2^ByteBits
  BY WidthAssumption, PowerType
<1>1. INT256_LENGTH \in Nat /\ ByteBits \in Nat /\ Len(s) \in Nat
  BY WidthAssumption DEF INT256_LENGTH
<1>2. pad \in Nat /\ pad + Len(s) = INT256_LENGTH
  BY <1>1
<1>3. \A i \in 1..INT256_LENGTH : g[i] = IF i <= pad THEN 0 ELSE s[i - pad]
  BY DEF Padded
<1>4. \A i \in 1..INT256_LENGTH : (IF i <= pad THEN 0 ELSE s[i - pad]) \in 0..(b - 1)
  <2> TAKE i \in 1..INT256_LENGTH
  <2> HIDE DEF pad
  <2>1. CASE i <= pad
    BY <1>0, <2>1
  <2>2. CASE ~(i <= pad)
    <3>1. i - pad \in 1..Len(s)
      BY <1>1, <1>2, <2>2
    <3>2. s[i - pad] \in 0..(b - 1)
      BY <1>0, <3>1, ElementOfSeq
    <3> QED BY <2>2, <3>2
  <2> QED BY <2>1, <2>2
<1>5. g \in [1..INT256_LENGTH -> 0..(b - 1)]
  <2>1. g = [i \in 1..INT256_LENGTH |-> IF i <= pad THEN 0 ELSE s[i - pad]]
    BY DEF Padded
  <2> HIDE DEF g, pad
  <2> QED BY <1>4, <2>1
<1>6. Part(g, pad, Len(s)) = s
  <2>1. \A i \in 1..Len(s) : g[pad + i] = s[i]
    <3> TAKE i \in 1..Len(s)
    <3> HIDE DEF g, pad
    <3>1. pad + i \in 1..INT256_LENGTH /\ ~(pad + i <= pad) /\ (pad + i) - pad = i
      BY <1>1, <1>2
    <3> QED BY <1>3, <3>1
  <2> HIDE DEF g, pad
  <2> QED BY <2>1 DEF Part
<1>7. Number(Part(g, 0, pad), b) = 0
  <2> DEFINE S == { n \in Nat : n <= pad => Number(Part(g, 0, n), b) = 0 }
  <2>1. 0 \in S
    <3>1. Part(g, 0, 0) = << >>
      BY DEF Part
    <3> QED BY <3>1, NumberOfNothing
  <2>2. ASSUME NEW n \in Nat, n \in S PROVE n + 1 \in S
    <3> SUFFICES ASSUME n + 1 <= pad PROVE Number(Part(g, 0, n + 1), b) = 0
      OBVIOUS
    <3> HIDE DEF g, pad
    <3>1. Number(Part(g, 0, n), b) = 0
      BY <1>2, <2>2
    <3>2. \A i \in 1..(n + 1) : i \in 1..INT256_LENGTH /\ i <= pad /\ 0 + i = i
      BY <1>1, <1>2
    <3>3. \A i \in 1..(n + 1) : g[0 + i] = 0
      BY <1>3, <3>2
    <3>4. /\ Part(g, 0, n) \in Seq(Nat) /\ Part(g, 0, n + 1) = Append(Part(g, 0, n), 0)
      <4>1. Len(Part(g, 0, n)) = n
        BY DEF Part
      <4>2. Part(g, 0, n) \in Seq(Nat)
        <5>1. [i \in 1..n |-> g[0 + i]] \in [1..n -> Nat]
          BY <3>3
        <5>2. [i \in 1..n |-> g[0 + i]] \in Seq(Nat)
          BY <5>1, SeqOfFunction
        <5> QED BY <5>2 DEF Part
      <4> QED BY <3>3, <4>1, <4>2 DEF Part
    <3>5. PICK t \in Seq(Nat) : t = Part(g, 0, n)
      BY <3>4
    <3>6. Number(Append(t, 0), b) = b * Number(t, b) + 0
      BY ONLY NumberAppend, b \in Nat \ {0}, t \in Seq(Nat)
    <3>7. b * 0 + 0 = 0
      OBVIOUS
    <3> QED BY <3>1, <3>4, <3>5, <3>6, <3>7, Zenon
  <2> HIDE DEF S
  <2>3. pad \in S
    BY <1>2, <2>1, <2>2, Induction
  <2> QED BY <1>2, <2>3 DEF S
<1> HIDE DEF g, pad
<1>8. /\ Number(Part(g, 0, pad + Len(s)), b)
           = Number(Part(g, 0, pad), b) * 2^(ByteBits * Len(s)) + Number(Part(g, pad, Len(s)), b)
      /\ Number(Part(g, pad, Len(s)), b) \in 0..(2^(ByteBits * Len(s)) - 1)
  <2>1. g \in [1..INT256_LENGTH -> 0..(2^ByteBits - 1)] /\ pad + Len(s) <= INT256_LENGTH
    BY <1>0, <1>1, <1>2, <1>5
  <2>2. /\ Number(Part(g, 0, pad + Len(s)), 2^ByteBits)
           = Number(Part(g, 0, pad), 2^ByteBits) * 2^(ByteBits * Len(s))
               + Number(Part(g, pad, Len(s)), 2^ByteBits)
        /\ Number(Part(g, pad, Len(s)), 2^ByteBits) \in 0..(2^(ByteBits * Len(s)) - 1)
    <3>1. Continues(ByteBits, g, pad, Len(s))
      BY <1>1, <1>2, <2>1, NumberOfParts
    <3> QED BY <3>1, Zenon DEF Continues
  <2> QED BY <1>0, <2>2, Zenon
<1>9. PICK p \in Nat, v \in Nat : p = 2^(ByteBits * Len(s)) /\ v = Number(s, b)
  <2>1. ByteBits * Len(s) \in Nat
    BY <1>1
  <2>2. 2^(ByteBits * Len(s)) \in Nat
    BY <2>1, PowerType
  <2>3. Number(s, b) \in Nat
    BY <1>6, <1>8, <2>2
  <2> QED BY <2>2, <2>3
<1>10. 0 * p + v = v
  OBVIOUS
<1> QED BY <1>0, <1>2, <1>5, <1>6, <1>7, <1>8, <1>9, <1>10, Zenon DEF g

\* convertUint256BE
LEMMA FromBytesIs ==
  ASSUME NEW s \in Seq(0..(2^ByteBits - 1)), Len(s) <= INT256_LENGTH
  PROVE  FromBytes(s) \in Numbers256 /\ Value(FromBytes(s)) = Number(s, 2^ByteBits)
<1> DEFINE g == Padded(s)
           W == WordBytes
           upTo(n) == Number(Part(g, 0, n), 2^ByteBits)
           word(n) == Number(Part(g, n, W), 2^ByteBits)
<1>0. W \in Nat /\ ByteBits \in Nat /\ INT256_LENGTH = 4 * W /\ 2^(ByteBits * W) = Word
      /\ Word \in Nat \ {0}
  BY WidthAssumption, Bases DEF INT256_LENGTH, Word, WordBits
<1>1. g \in [1..INT256_LENGTH -> 0..(2^ByteBits - 1)]
  BY PaddedIs
<1>2. ASSUME NEW n \in Nat, n + W <= INT256_LENGTH
      PROVE  /\ upTo(n) \in Nat /\ word(n) \in 0..(Word - 1)
             /\ upTo(n + W) = upTo(n) * Word + word(n)
  <2>1. INT256_LENGTH \in Nat
    BY <1>0
  <2> HIDE DEF g
  <2>2. /\ Number(Part(g, 0, n), 2^ByteBits) \in Nat
        /\ Number(Part(g, n, W), 2^ByteBits) \in 0..(2^(ByteBits * W) - 1)
        /\ Number(Part(g, 0, n + W), 2^ByteBits)
             = Number(Part(g, 0, n), 2^ByteBits) * 2^(ByteBits * W)
                 + Number(Part(g, n, W), 2^ByteBits)
    <3>1. Continues(ByteBits, g, n, W)
      BY <1>0, <1>1, <1>2, <2>1, NumberOfParts
    <3> QED BY <3>1, Zenon DEF Continues
  <2> QED BY <1>0, <2>2, Zenon
<1>3. FromBytes(s) = << << word(0), word(W) >>, << word(2 * W), word(3 * W) >> >>
  <2> DEFINE pad == INT256_LENGTH - Len(s)
             byte(i) == IF i <= pad THEN 0 ELSE s[i - pad]
             part(k) == [i \in 1..W |-> byte(k * W + i)]
  <2>1. ASSUME NEW k \in 0..3 PROVE part(k) = Part(g, k * W, W)
    <3>1. \A i \in 1..W : k * W + i \in 1..INT256_LENGTH
      <4>1. k * W \in Nat /\ k * W <= 3 * W
        BY <1>0
      <4> QED BY <1>0, <4>1
    <3>2. \A i \in 1..W : byte(k * W + i) = g[k * W + i]
      BY <3>1 DEF Padded
    <3> HIDE DEF g, byte
    <3> QED BY <3>2 DEF Part
  <2>2. FromBytes(s)
          = << << Number(part(0), 2^ByteBits), Number(part(1), 2^ByteBits) >>,
               << Number(part(2), 2^ByteBits), Number(part(3), 2^ByteBits) >> >>
    BY Zenon DEF FromBytes
  <2>3. 0 * W = 0 /\ 1 * W = W
    BY <1>0
  <2> HIDE DEF g, part
  <2>4. part(0) = Part(g, 0, W) /\ part(1) = Part(g, W, W)
        /\ part(2) = Part(g, 2 * W, W) /\ part(3) = Part(g, 3 * W, W)
    BY <2>1, <2>3
  <2> QED BY <2>2, <2>4, Zenon
<1>4. upTo(0) = 0
  <2>1. Part(g, 0, 0) = << >>
    BY DEF Part
  <2> QED BY <2>1, NumberOfNothing
<1>5. upTo(INT256_LENGTH) = Number(s, 2^ByteBits)
  BY PaddedIs
<1> HIDE DEF upTo, word, g
<1>6. PICK a \in 0..(Word - 1), b \in 0..(Word - 1), c \in 0..(Word - 1), d \in 0..(Word - 1) :
        /\ a = word(0) /\ b = word(W) /\ c = word(2 * W) /\ d = word(3 * W)
        /\ upTo(W) = 0 * Word + a
        /\ upTo(2 * W) = upTo(W) * Word + b
        /\ upTo(3 * W) = upTo(2 * W) * Word + c
        /\ upTo(INT256_LENGTH) = upTo(3 * W) * Word + d
  <2>1. /\ 0 + W = W /\ W + W = 2 * W /\ 2 * W + W = 3 * W /\ 3 * W + W = INT256_LENGTH
        /\ W <= INT256_LENGTH /\ 2 * W <= INT256_LENGTH /\ 3 * W <= INT256_LENGTH
        /\ 2 * W \in Nat /\ 3 * W \in Nat /\ W \in Nat /\ INT256_LENGTH <= INT256_LENGTH
    BY <1>0
  <2>2. word(0) \in 0..(Word - 1) /\ upTo(0 + W) = upTo(0) * Word + word(0)
    BY <1>2, <2>1
  <2>3. word(W) \in 0..(Word - 1) /\ upTo(W + W) = upTo(W) * Word + word(W)
    BY <1>2, <2>1
  <2>4. word(2 * W) \in 0..(Word - 1) /\ upTo(2 * W + W) = upTo(2 * W) * Word + word(2 * W)
    BY <1>2, <2>1
  <2>5. word(3 * W) \in 0..(Word - 1) /\ upTo(3 * W + W) = upTo(3 * W) * Word + word(3 * W)
    BY <1>2, <2>1
  <2> QED BY <1>4, <2>1, <2>2, <2>3, <2>4, <2>5, Zenon
<1>7. 0 * Word + a = a
  BY <1>0
<1>8. << << a, b >>, << c, d >> >> \in Numbers256
  BY DEF Numbers256, Numbers128, Pairs
<1>9. Value(<< << a, b >>, << c, d >> >>) = ((a * Word + b) * Word + c) * Word + d
  BY DEF Value
<1> QED BY <1>3, <1>5, <1>6, <1>7, <1>8, <1>9, Zenon

=============================================================================
