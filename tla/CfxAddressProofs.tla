-------------------------- MODULE CfxAddressProofs --------------------------
(***************************************************************************)
(* What cfxaddr_encode writes, for every address and every id of a         *)
(* network: it is printed and fits the length that was checked, and a      *)
(* wallet that reads it by CfxDecoder gets the address and the id back.    *)
(* The prefix: the powers of ten that the loop climbs, and its digits.     *)
(* The payload: the bits of its quintets, and the bytes they make up.  The *)
(* checksum: what the register of polymod holds is a remainder of the      *)
(* division over GF(32), and with the checksum behind the payload it is 1. *)
(***************************************************************************)
EXTENDS CfxDecoder, TextsProofs

-----------------------------------------------------------------------------
\* The prefix of an address.

\* The number of words.
WordLimit == 2^WordBits

\* The id of the main network is a word.
LEMMA WordLimitType == WordLimit \in Nat /\ WordLimit > 1029
BY WordAssumption, PowerType DEF WordLimit, CFXADDR_MAINNET_ID

\* The next power of ten, as a word.
Tenfold(p) == (p * 10) % WordLimit

\* It counts if it is not above the id and did not wrap around.
Further(p, id) == Tenfold(p) <= id /\ Tenfold(p) \div 10 = p

\* f finds the power of ten of the first digit.
Climbs(f, id) == f = [p \in 1..WordLimit |-> IF Further(p, id) THEN f[Tenfold(p)] ELSE p]

\* Scale with such a function.
LEMMA ScaleIs ==
  ASSUME NEW id
  PROVE  Scale(id) = (CHOOSE f : Climbs(f, id))[1]
BY DEF Scale, Climbs, Further, Tenfold, WordLimit

\* A product that did not wrap around is larger.
LEMMA TenfoldGrows ==
  ASSUME NEW p \in 1..WordLimit, Tenfold(p) \div 10 = p
  PROVE  Tenfold(p) \in 1..WordLimit /\ p < Tenfold(p)
<1>1. PICK l, t : l = WordLimit /\ t = Tenfold(p)
  OBVIOUS
<1>2. l \in Nat \ {0} /\ p \in Nat \ {0} /\ p * 10 \in Nat
  BY <1>1, WordLimitType
<1>3. t \in 0..(l - 1)
  BY <1>1, <1>2 DEF Tenfold
<1>4. t \div 10 = p /\ t \in Nat
  BY <1>1, <1>2, <1>3
<1>5. t >= 10 * p
  BY ONLY <1>2, <1>4
<1> QED BY <1>1, <1>2, <1>3, <1>5

\* There is such a function.
LEMMA ClimberExists ==
  ASSUME NEW id
  PROVE  \E f \in [1..WordLimit -> 1..WordLimit] : Climbs(f, id)
<1> DEFINE D == 1..WordLimit
           rank == [p \in D |-> WordLimit - p]
           B == { p \in D : ~Further(p, id) }
           base == [p \in D |-> p]
           next == [p \in D |-> Tenfold(p)]
           step == [q \in D \X D |-> q[2]]
<1>1. Descends(D, D, WordLimit, rank, B, base, next, step)
  <2>1. rank \in [D -> 0..WordLimit]
    BY WordLimitType
  <2>2. ASSUME NEW k \in D, k \notin B
        PROVE  /\ next[k] \in D /\ rank[next[k]] < rank[k]
               /\ \A x \in D : step[<< k, x >>] \in D
    <3>1. Tenfold(k) \in D /\ k < Tenfold(k)
      BY <2>2, TenfoldGrows DEF Further
    <3>2. rank[next[k]] = WordLimit - Tenfold(k) /\ rank[k] = WordLimit - k
      BY <3>1
    <3> QED BY <3>1, <3>2, WordLimitType
  <2> QED BY <2>1, <2>2 DEF Descends
<1> HIDE DEF rank
<1>2. PICK f \in [D -> D] : Unrolls(f, D, B, base, next, step)
  <2> HIDE DEF D, B, base, next, step
  <2> QED BY <1>1, WordLimitType, Descent
<1>3. ASSUME NEW p \in D PROVE f[p] = IF Further(p, id) THEN f[Tenfold(p)] ELSE p
  <2>1. f[p] = IF p \in B THEN base[p] ELSE step[<< p, f[next[p]] >>]
    BY <1>2 DEF Unrolls
  <2>2. CASE Further(p, id)
    <3>1. Tenfold(p) \in D
      BY <2>2, TenfoldGrows DEF Further
    <3>2. f[Tenfold(p)] \in D
      BY <3>1
    <3>3. step[<< p, f[next[p]] >>] = f[Tenfold(p)]
      BY <3>2
    <3> QED BY <2>1, <2>2, <3>3
  <2>3. CASE ~Further(p, id)
    BY <2>1, <2>3
  <2> QED BY <2>2, <2>3
<1>4. f = [p \in D |-> IF Further(p, id) THEN f[Tenfold(p)] ELSE p]
  <2> DEFINE h == [p \in D |-> IF Further(p, id) THEN f[Tenfold(p)] ELSE p]
  <2>1. f = h
    BY <1>3
  <2> QED BY <2>1
<1> QED BY <1>4 DEF Climbs

\* A function that climbs is unique, and so it keeps to its set.
LEMMA ClimbersAgree ==
  ASSUME NEW id, NEW f, NEW g, Climbs(f, id), Climbs(g, id)
  PROVE  f = g
<1> DEFINE D == 1..WordLimit
           T == { m \in Nat : m < WordLimit => f[WordLimit - m] = g[WordLimit - m] }
<1>1. ASSUME NEW p \in D
      PROVE  /\ f[p] = IF Further(p, id) THEN f[Tenfold(p)] ELSE p
             /\ g[p] = IF Further(p, id) THEN g[Tenfold(p)] ELSE p
  <2> DEFINE h == [q \in 1..WordLimit |-> IF Further(q, id) THEN f[Tenfold(q)] ELSE q]
             i == [q \in 1..WordLimit |-> IF Further(q, id) THEN g[Tenfold(q)] ELSE q]
  <2>1. f = h /\ g = i
    BY DEF Climbs
  <2>2. /\ h[p] = IF Further(p, id) THEN f[Tenfold(p)] ELSE p
        /\ i[p] = IF Further(p, id) THEN g[Tenfold(p)] ELSE p
    OBVIOUS
  <2> HIDE DEF h, i
  <2> QED BY <2>1, <2>2
<1>2. ASSUME NEW m \in Nat, \A k \in 0..(m - 1) : k \in T PROVE m \in T
  <2> SUFFICES ASSUME m < WordLimit PROVE f[WordLimit - m] = g[WordLimit - m]
    OBVIOUS
  <2>1. PICK p \in D : p = WordLimit - m
    BY WordLimitType
  <2>2. CASE ~Further(p, id)
    BY <1>1, <2>1, <2>2
  <2>3. CASE Further(p, id)
    <3>1. PICK t \in D : t = Tenfold(p) /\ p < t
      BY <2>3, TenfoldGrows DEF Further
    <3>2. WordLimit - t \in 0..(m - 1) /\ WordLimit - (WordLimit - t) = t /\ WordLimit - t < WordLimit
      BY <2>1, <3>1, WordLimitType
    <3>3. f[t] = g[t]
      BY <1>2, <3>2
    <3> QED BY <1>1, <2>1, <2>3, <3>1, <3>3
  <2> QED BY <2>2, <2>3
<1>3. Nat \subseteq T
  <2> HIDE DEF T
  <2> QED BY <1>2, StrongInduction
<1>4. ASSUME NEW p \in D PROVE f[p] = g[p]
  <2>1. WordLimit - p \in Nat /\ WordLimit - p < WordLimit /\ WordLimit - (WordLimit - p) = p
    BY WordLimitType
  <2> QED BY <1>3, <2>1
<1>5. f = [p \in D |-> f[p]] /\ g = [p \in D |-> g[p]]
  BY DEF Climbs
<1> HIDE DEF D
<1> QED BY <1>4, <1>5, Zenon

\* The power of ten is a word, and not 0.
LEMMA ScaleType ==
  ASSUME NEW id
  PROVE  Scale(id) \in 1..WordLimit
<1> DEFINE F == CHOOSE f : Climbs(f, id)
<1>1. PICK f \in [1..WordLimit -> 1..WordLimit] : Climbs(f, id)
  BY ClimberExists
<1>2. Climbs(F, id)
  BY <1>1, Zenon
<1> HIDE DEF F
<1>3. F = f
  BY <1>1, <1>2, ClimbersAgree
<1>4. f[1] \in 1..WordLimit
  BY WordLimitType
<1> QED BY <1>3, <1>4, ScaleIs DEF F

\* The digit of a number at a power of ten.
DigitAt(id, p) == ZERO + ((id \div p) % 10)

\* f writes the digits from a power of ten on.
Divides(f, id) ==
  f = [p \in 0..WordLimit |-> IF p = 0 THEN << >> ELSE << DigitAt(id, p) >> \o f[p \div 10]]

\* NetworkDigits with such a function.
LEMMA NetworkDigitsIs ==
  ASSUME NEW id
  PROVE  NetworkDigits(id) = (CHOOSE f : Divides(f, id))[Scale(id)]
BY DEF NetworkDigits, Divides, DigitAt, WordLimit

\* Digits are digits.
LEMMA DigitType ==
  ASSUME NEW id \in Nat, NEW p \in Nat \ {0}
  PROVE  DigitAt(id, p) \in Digits
<1>1. id \div p \in Nat
  OBVIOUS
<1>2. PICK q \in Nat : q = id \div p
  BY <1>1
<1>3. q % 10 \in 0..9
  OBVIOUS
<1> QED BY <1>2, <1>3 DEF DigitAt, Digits, ZERO

\* Division by ten falls.
LEMMA Tenth ==
  ASSUME NEW p \in Nat, p # 0
  PROVE  p \div 10 \in 0..(p - 1)
OBVIOUS

\* There is such a function.
LEMMA DividerExists ==
  ASSUME NEW id \in Nat
  PROVE  \E f \in [0..WordLimit -> Seq(Digits)] : Divides(f, id)
<1> DEFINE D == 0..WordLimit
           S == Seq(Digits)
           rank == [p \in D |-> p]
           B == { 0 }
           base == [p \in D |-> << >>]
           next == [p \in D |-> p \div 10]
           step == [q \in D \X S |-> << DigitAt(id, q[1]) >> \o q[2]]
<1>1. ASSUME NEW k \in D, k # 0
      PROVE  k \div 10 \in D /\ k \div 10 < k /\ \A x \in S : << DigitAt(id, k) >> \o x \in S
  <2>1. k \in Nat \ {0}
    BY <1>1, WordLimitType
  <2>2. k \div 10 \in 0..(k - 1)
    BY <2>1, Tenth
  <2>3. k \div 10 \in D /\ k \div 10 < k
    BY <2>1, <2>2, WordLimitType
  <2>4. DigitAt(id, k) \in Digits
    BY <2>1, DigitType
  <2>5. ASSUME NEW x \in S PROVE << DigitAt(id, k) >> \o x \in S
    BY <2>4
  <2> QED BY <2>3, <2>5
<1>2. Descends(D, S, WordLimit, rank, B, base, next, step)
  <2>1. rank \in [D -> 0..WordLimit]
    BY WordLimitType
  <2>2. \A k \in D : k \in B => base[k] \in S
    OBVIOUS
  <2>3. ASSUME NEW k \in D, k \notin B
        PROVE  next[k] \in D /\ rank[next[k]] < rank[k] /\ \A x \in S : step[<< k, x >>] \in S
    <3>1. k \div 10 \in D /\ k \div 10 < k /\ \A x \in S : << DigitAt(id, k) >> \o x \in S
      BY <1>1, <2>3
    <3>2. \A x \in S : step[<< k, x >>] = << DigitAt(id, k) >> \o x
      OBVIOUS
    <3> HIDE DEF S, step
    <3> QED BY <3>1, <3>2
  <2> QED BY <2>1, <2>2, <2>3 DEF Descends
<1>3. PICK f \in [D -> S] : Unrolls(f, D, B, base, next, step)
  <2> HIDE DEF D, S, rank, B, base, next, step
  <2> QED BY <1>2, WordLimitType, Descent
<1>4. ASSUME NEW p \in D PROVE f[p] = IF p = 0 THEN << >> ELSE << DigitAt(id, p) >> \o f[p \div 10]
  <2>1. f[p] = IF p \in B THEN base[p] ELSE step[<< p, f[next[p]] >>]
    BY <1>3 DEF Unrolls
  <2>2. CASE p # 0
    <3>1. f[p \div 10] \in S
      BY <1>1, <2>2
    <3>2. step[<< p, f[p \div 10] >>] = << DigitAt(id, p) >> \o f[p \div 10]
      BY <3>1
    <3>3. next[p] = p \div 10 /\ p \notin B
      BY <2>2
    <3> HIDE DEF step, next, B, base
    <3> QED BY <2>1, <2>2, <3>2, <3>3
  <2>3. CASE p = 0
    BY <2>1, <2>3
  <2> QED BY <2>2, <2>3
<1>5. f = [p \in D |-> IF p = 0 THEN << >> ELSE << DigitAt(id, p) >> \o f[p \div 10]]
  <2> DEFINE h == [p \in D |-> IF p = 0 THEN << >> ELSE << DigitAt(id, p) >> \o f[p \div 10]]
  <2>1. f = h
    BY <1>4
  <2> QED BY <2>1
<1> QED BY <1>5 DEF Divides

\* What such a function is at one place.
LEMMA DividesAt ==
  ASSUME NEW id, NEW f, Divides(f, id), NEW p \in 0..WordLimit
  PROVE  f[p] = IF p = 0 THEN << >> ELSE << DigitAt(id, p) >> \o f[p \div 10]
<1> DEFINE h == [q \in 0..WordLimit |->
                   IF q = 0 THEN << >> ELSE << DigitAt(id, q) >> \o f[q \div 10]]
<1>1. f = h
  BY DEF Divides
<1>2. h[p] = IF p = 0 THEN << >> ELSE << DigitAt(id, p) >> \o f[p \div 10]
  OBVIOUS
<1> HIDE DEF h
<1> QED BY <1>1, <1>2

\* It writes digits, at least one.
LEMMA DividerType ==
  ASSUME NEW id \in Nat, NEW f, Divides(f, id), NEW p \in 0..WordLimit
  PROVE  f[p] \in Seq(Digits) /\ (p # 0 => f[p] # << >>)
<1> DEFINE T == { m \in Nat : m <= WordLimit => f[m] \in Seq(Digits) /\ (m # 0 => f[m] # << >>) }
<1>1. ASSUME NEW m \in Nat, \A k \in 0..(m - 1) : k \in T PROVE m \in T
  <2> SUFFICES ASSUME m <= WordLimit PROVE f[m] \in Seq(Digits) /\ (m # 0 => f[m] # << >>)
    OBVIOUS
  <2>1. m \in 0..WordLimit
    OBVIOUS
  <2>2. f[m] = IF m = 0 THEN << >> ELSE << DigitAt(id, m) >> \o f[m \div 10]
    BY <2>1, DividesAt
  <2>3. CASE m = 0
    <3>1. << >> \in Seq(Digits)
      OBVIOUS
    <3> QED BY <2>2, <2>3, <3>1
  <2>4. CASE m # 0
    <3>1. m \div 10 \in 0..(m - 1) /\ m \div 10 \in Nat /\ m \div 10 <= WordLimit
      BY <2>1, <2>4, Tenth, WordLimitType
    <3>2. PICK s : s = f[m \div 10]
      OBVIOUS
    <3>3. s \in Seq(Digits)
      BY <1>1, <3>1, <3>2
    <3>4. PICK d \in Digits : d = DigitAt(id, m)
      BY <2>4, DigitType
    <3>5. << d >> \o s \in Seq(Digits) /\ << d >> \o s # << >>
      BY <3>3
    <3> QED BY <2>2, <2>4, <3>2, <3>4, <3>5
  <2> QED BY <2>3, <2>4
<1> HIDE DEF T
<1>2. Nat \subseteq T
  BY <1>1, StrongInduction
<1>3. p \in T /\ p <= WordLimit
  BY <1>2, WordLimitType
<1> QED BY <1>3 DEF T

\* An id is written as a number.
LEMMA NetworkDigitsType ==
  ASSUME NEW id \in Nat
  PROVE  NetworkDigits(id) \in Seq(Digits) \ {<< >>}
<1> DEFINE F == CHOOSE f : Divides(f, id)
<1>1. Divides(F, id)
  BY DividerExists, Zenon
<1> HIDE DEF F
<1>2. Scale(id) \in 0..WordLimit /\ Scale(id) # 0
  BY ScaleType, WordLimitType
<1>3. PICK s : s = Scale(id)
  OBVIOUS
<1>4. F[s] \in Seq(Digits) /\ F[s] # << >>
  BY <1>1, <1>2, <1>3, DividerType
<1> QED BY <1>3, <1>4, NetworkDigitsIs DEF F

\* A prefix is a text.
LEMMA PrefixType ==
  ASSUME NEW id \in Nat
  PROVE  Prefix(id) \in Seq(Printable) /\ Len(Prefix(id)) \in Nat \ {0}
<1>1. CASE id = CFXADDR_MAINNET_ID
  <2>1. Prefix(id) = << 99, 102, 120, 58 >>
    BY <1>1 DEF Prefix, CFXADDR_MAINNET_ID, CFXADDR_TESTNET_ID
  <2> QED BY <2>1 DEF Printable
<1>2. CASE id # CFXADDR_MAINNET_ID /\ id = CFXADDR_TESTNET_ID
  <2>1. Prefix(id) = << 99, 102, 120, 116, 101, 115, 116, 58 >>
    BY <1>2 DEF Prefix
  <2> QED BY <2>1 DEF Printable
<1>3. CASE id # CFXADDR_MAINNET_ID /\ id # CFXADDR_TESTNET_ID
  <2>1. Prefix(id) = << 110, 101, 116 >> \o NetworkDigits(id) \o << 58 >>
    BY <1>3 DEF Prefix
  <2>2. NetworkDigits(id) \in Seq(Digits)
    BY NetworkDigitsType
  <2>3. PICK d \in Seq(Printable) : d = NetworkDigits(id)
    BY <2>2, TextCharacters
  <2>4. << 110, 101, 116 >> \in Seq(Printable) /\ << 58 >> \in Seq(Printable) /\ Len(<< 58 >>) = 1
    BY DEF Printable
  <2>5. << 110, 101, 116 >> \o d \in Seq(Printable)
    BY <2>4
  <2>6. PICK a, b : a = << 110, 101, 116 >> \o d /\ b = << 58 >>
    OBVIOUS
  <2>7. a \o b \in Seq(Printable) /\ Len(a \o b) = Len(a) + 1 /\ Len(a) \in Nat
    BY <2>4, <2>5, <2>6
  <2> QED BY <2>1, <2>3, <2>6, <2>7
<1> QED BY <1>1, <1>2, <1>3

-----------------------------------------------------------------------------
\* Digits of five bits.

\* Digits of five bits.
Quintets == 0..31

\* Eight of them.
Checksums == [1..8 -> Quintets]

\* The number that five bits write.
LEMMA FiveBits ==
  ASSUME NEW s \in [1..5 -> 0..1]
  PROVE  Number(s, 2) = 16 * s[1] + 8 * s[2] + 4 * s[3] + 2 * s[4] + s[5]
<1> DEFINE F == CHOOSE f : Accumulates(f, s, 2, 5)
<1>1. Accumulates(F, s, 2, 5)
  BY AccumulatorExists, Zenon
<1>2. Len(s) = 5
  OBVIOUS
<1>3. Number(s, 2) = F[5]
  BY <1>2, NumberIs
<1> HIDE DEF F
<1>4. \A n \in 0..5 : F[n] = IF n = 0 THEN 0 ELSE 2 * F[n - 1] + s[n]
  <2> SUFFICES ASSUME NEW n \in 0..5 PROVE F[n] = IF n = 0 THEN 0 ELSE 2 * F[n - 1] + s[n]
    OBVIOUS
  <2> DEFINE h == [m \in 0..5 |-> IF m = 0 THEN 0 ELSE 2 * F[m - 1] + s[m]]
  <2>1. F = h
    BY <1>1 DEF Accumulates
  <2>2. h[n] = IF n = 0 THEN 0 ELSE 2 * F[n - 1] + s[n]
    OBVIOUS
  <2> HIDE DEF h
  <2> QED BY <2>1, <2>2
<1>5. /\ F[0] = 0 /\ F[1] = 2 * F[0] + s[1] /\ F[2] = 2 * F[1] + s[2]
      /\ F[3] = 2 * F[2] + s[3] /\ F[4] = 2 * F[3] + s[4] /\ F[5] = 2 * F[4] + s[5]
  BY <1>4
<1>6. s[1] \in 0..1 /\ s[2] \in 0..1 /\ s[3] \in 0..1 /\ s[4] \in 0..1 /\ s[5] \in 0..1
  OBVIOUS
<1> QED BY <1>3, <1>5, <1>6

\* The bit i of five, upper bit first.
BitOf(n, i) == (n \div 2^(5 - i)) % 2

\* The exclusive or, bit by bit.
LEMMA XorIs ==
  ASSUME NEW a \in Quintets, NEW b \in Quintets
  PROVE  LET x(i) == (BitOf(a, i) + BitOf(b, i)) % 2
         IN /\ XorDigit[a][b] = 16 * x(1) + 8 * x(2) + 4 * x(3) + 2 * x(4) + x(5)
            /\ XorDigit[a][b] \in Quintets
            /\ \A i \in 1..5 : x(i) \in 0..1
<1> DEFINE x(i) == (BitOf(a, i) + BitOf(b, i)) % 2
           s == [i \in 1..5 |-> x(i)]
<1>1. ASSUME NEW i \in 1..5 PROVE BitOf(a, i) \in 0..1 /\ BitOf(b, i) \in 0..1 /\ x(i) \in 0..1
  <2>1. PICK p \in Nat \ {0} : p = 2^(5 - i)
    BY PowerType
  <2>2. a \div p \in Nat /\ b \div p \in Nat
    BY DEF Quintets
  <2>3. (a \div p) % 2 \in 0..1 /\ (b \div p) % 2 \in 0..1
    BY <2>2
  <2>4. BitOf(a, i) \in 0..1 /\ BitOf(b, i) \in 0..1
    BY <2>1, <2>3 DEF BitOf
  <2>5. PICK c \in 0..1, d \in 0..1 : c = BitOf(a, i) /\ d = BitOf(b, i)
    BY <2>4
  <2>6. (c + d) % 2 \in 0..1
    OBVIOUS
  <2> QED BY <2>4, <2>5, <2>6
<1>2. XorDigit[a][b] = Number(s, 2)
  <2>1. a \in 0..31 /\ b \in 0..31
    BY DEF Quintets
  <2> QED BY <2>1 DEF XorDigit, BitOf
<1>3. s \in [1..5 -> 0..1]
  <2> HIDE DEF x
  <2> QED BY <1>1
<1>4. s[1] = x(1) /\ s[2] = x(2) /\ s[3] = x(3) /\ s[4] = x(4) /\ s[5] = x(5)
  <2> HIDE DEF x
  <2> QED OBVIOUS
<1>5. x(1) \in 0..1 /\ x(2) \in 0..1 /\ x(3) \in 0..1 /\ x(4) \in 0..1 /\ x(5) \in 0..1
  <2> HIDE DEF x
  <2> QED BY <1>1
<1> HIDE DEF x, s
<1>6. XorDigit[a][b] = 16 * x(1) + 8 * x(2) + 4 * x(3) + 2 * x(4) + x(5)
  BY <1>2, <1>3, <1>4, FiveBits
<1>7. XorDigit[a][b] \in Quintets
  BY <1>5, <1>6 DEF Quintets
<1> QED BY <1>1, <1>6, <1>7 DEF x

\* The exclusive or of two checksums is a checksum.
LEMMA XorsType ==
  ASSUME NEW s \in Checksums, NEW t \in Checksums
  PROVE  XorDigits(s, t) \in Checksums
<1>1. \A i \in 1..8 : s[i] \in Quintets /\ t[i] \in Quintets
  BY DEF Checksums
<1>2. \A i \in 1..8 : XorDigit[s[i]][t[i]] \in Quintets
  BY <1>1, XorIs
<1>3. XorDigits(s, t) = [i \in 1..8 |-> XorDigit[s[i]][t[i]]]
  BY DEF XorDigits, Checksums
<1> HIDE DEF Quintets
<1> QED BY <1>2, <1>3 DEF Checksums

\* Shifts and masks are in their range.
LEMMA BinaryDigit ==
  ASSUME NEW n \in Nat, NEW k \in Nat
  PROVE  (n \div 2^k) % 2 \in 0..1 /\ (n \div 2^k) % 32 \in 0..31 /\ n % 2^k \in 0..(2^k - 1)
<1>1. PICK p \in Nat \ {0} : p = 2^k
  BY PowerType
<1>2. n \div p \in Nat /\ n % p \in 0..(p - 1)
  OBVIOUS
<1>3. PICK q \in Nat : q = n \div p
  BY <1>2
<1>4. q % 2 \in 0..1 /\ q % 32 \in 0..31
  OBVIOUS
<1> QED BY <1>1, <1>2, <1>3, <1>4

\* The constants are checksums.
LEMMA FixedDigits == /\ Zeros \in Checksums /\ One \in Checksums
                     /\ \A k \in 1..5 : Generators[k] \in Checksums
<1>1. Zeros \in Checksums
  BY DEF Zeros, Checksums, Quintets
<1>2. One \in Checksums
  BY DEF One, Checksums, Quintets
<1>3. Generators[1] \in Checksums
  BY DEF Generators, Checksums, Quintets
<1>4. Generators[2] \in Checksums
  BY DEF Generators, Checksums, Quintets
<1>5. Generators[3] \in Checksums
  BY DEF Generators, Checksums, Quintets
<1>6. Generators[4] \in Checksums
  BY DEF Generators, Checksums, Quintets
<1>7. Generators[5] \in Checksums
  BY DEF Generators, Checksums, Quintets
<1>8. \A k \in 1..5 : k = 1 \/ k = 2 \/ k = 3 \/ k = 4 \/ k = 5
  OBVIOUS
<1> HIDE DEF Checksums
<1> QED BY <1>1, <1>2, <1>3, <1>4, <1>5, <1>6, <1>7, <1>8

\* One generator is added or not.
Mixed(old, c, k) ==
  IF (c \div 2^(k - 1)) % 2 = 1 THEN XorDigits(old, Generators[k]) ELSE old

\* f adds the generators one by one.
Mixes(f, c) == f = [k \in 0..5 |-> IF k = 0 THEN Zeros ELSE Mixed(f[k - 1], c, k)]

\* Feedback with such a function.
LEMMA FeedbackIs ==
  ASSUME NEW c \in Quintets
  PROVE  Feedback[c] = (CHOOSE f : Mixes(f, c))[5]
BY DEF Feedback, Mixes, Mixed, Quintets

\* There is such a function.
LEMMA MixerExists ==
  ASSUME NEW c \in Quintets
  PROVE  \E f : Mixes(f, c)
<1> DEFINE S == Checksums
           step == [p \in (1..5) \X S |-> Mixed(p[2], c, p[1])]
<1>1. ASSUME NEW k \in 1..5, NEW x \in S PROVE Mixed(x, c, k) \in S
  <2>1. Generators[k] \in S
    BY FixedDigits
  <2>2. XorDigits(x, Generators[k]) \in S
    BY <2>1, XorsType
  <2> HIDE DEF S
  <2> QED BY <2>2 DEF Mixed
<1> HIDE DEF S
<1>2. step \in [(1..5) \X S -> S] /\ \A k \in 1..5, x \in S : step[<< k, x >>] = Mixed(x, c, k)
  BY <1>1
<1>3. Zeros \in S
  BY FixedDigits DEF S
<1> HIDE DEF step
<1>4. PICK f \in [0..5 -> S] : Recurs(f, Zeros, 5, step)
  BY <1>2, <1>3, Recursion
<1>5. ASSUME NEW k \in 0..5 PROVE f[k] = IF k = 0 THEN Zeros ELSE Mixed(f[k - 1], c, k)
  <2>1. CASE k = 0
    BY <1>4, <2>1 DEF Recurs
  <2>2. CASE k # 0
    <3>1. k \in 1..5 /\ k - 1 \in 0..5
      BY <2>2
    <3>2. f[k] = step[<< k, f[k - 1] >>]
      BY <1>4, <3>1 DEF Recurs
    <3>3. f[k - 1] \in S
      BY <3>1
    <3> QED BY <1>2, <2>2, <3>1, <3>2, <3>3
  <2> QED BY <2>1, <2>2
<1>6. f = [k \in 0..5 |-> IF k = 0 THEN Zeros ELSE Mixed(f[k - 1], c, k)]
  <2> DEFINE h == [k \in 0..5 |-> IF k = 0 THEN Zeros ELSE Mixed(f[k - 1], c, k)]
  <2>1. f = h
    BY <1>5
  <2> QED BY <2>1
<1> QED BY <1>6 DEF Mixes

\* Feedback, generator by generator.
LEMMA FeedbackSteps ==
  ASSUME NEW c \in Quintets
  PROVE  \E f : /\ f[0] = Zeros /\ f[5] = Feedback[c]
                /\ \A k \in 1..5 : f[k] = Mixed(f[k - 1], c, k)
<1> DEFINE F == CHOOSE f : Mixes(f, c)
<1>1. Mixes(F, c)
  BY MixerExists, Zenon
<1>2. F[5] = Feedback[c]
  BY FeedbackIs
<1> HIDE DEF F
<1>3. ASSUME NEW k \in 0..5 PROVE F[k] = IF k = 0 THEN Zeros ELSE Mixed(F[k - 1], c, k)
  <2> DEFINE h == [j \in 0..5 |-> IF j = 0 THEN Zeros ELSE Mixed(F[j - 1], c, j)]
  <2>1. F = h
    BY <1>1 DEF Mixes
  <2>2. h[k] = IF k = 0 THEN Zeros ELSE Mixed(F[k - 1], c, k)
    OBVIOUS
  <2> HIDE DEF h
  <2> QED BY <2>1, <2>2
<1>4. F[0] = Zeros
  BY <1>3
<1>5. \A k \in 1..5 : F[k] = Mixed(F[k - 1], c, k)
  <2>1. \A k \in 1..5 : k \in 0..5 /\ k # 0
    OBVIOUS
  <2> QED BY <1>3, <2>1
<1> QED BY <1>2, <1>4, <1>5

\* The feedback is a checksum.
LEMMA FeedbackType ==
  ASSUME NEW c \in Quintets
  PROVE  Feedback[c] \in Checksums
<1>1. PICK f : /\ f[0] = Zeros /\ f[5] = Feedback[c]
               /\ \A k \in 1..5 : f[k] = Mixed(f[k - 1], c, k)
  BY FeedbackSteps
<1>2. ASSUME NEW k \in 1..5, f[k - 1] \in Checksums PROVE f[k] \in Checksums
  <2>1. XorDigits(f[k - 1], Generators[k]) \in Checksums
    BY <1>2, FixedDigits, XorsType
  <2>2. f[k] = Mixed(f[k - 1], c, k)
    BY <1>1
  <2> HIDE DEF Checksums
  <2> QED BY <1>2, <2>1, <2>2 DEF Mixed
<1>3. f[0] \in Checksums
  BY <1>1, FixedDigits
<1> HIDE DEF Checksums
<1>4. f[1] \in Checksums
  <2>1. 1 \in 1..5 /\ 1 - 1 = 0
    OBVIOUS
  <2> QED BY <1>2, <1>3, <2>1
<1>5. f[2] \in Checksums
  <2>1. 2 \in 1..5 /\ 2 - 1 = 1
    OBVIOUS
  <2> QED BY <1>2, <1>4, <2>1
<1>6. f[3] \in Checksums
  <2>1. 3 \in 1..5 /\ 3 - 1 = 2
    OBVIOUS
  <2> QED BY <1>2, <1>5, <2>1
<1>7. f[4] \in Checksums
  <2>1. 4 \in 1..5 /\ 4 - 1 = 3
    OBVIOUS
  <2> QED BY <1>2, <1>6, <2>1
<1>8. f[5] \in Checksums
  <2>1. 5 \in 1..5 /\ 5 - 1 = 4
    OBVIOUS
  <2> QED BY <1>2, <1>7, <2>1
<1> QED BY <1>1, <1>8

-----------------------------------------------------------------------------
\* The checksum.

\* One step of Polymod.
Shifted(old, d) == XorDigits(Append(Tail(old), d), Feedback[Head(old)])

\* f is the state after each digit.
Shifts(f, data) ==
  f = [n \in 0..Len(data) |-> IF n = 0 THEN One ELSE Shifted(f[n - 1], data[n])]

\* Polymod with such a function.
LEMMA PolymodIs ==
  ASSUME NEW data
  PROVE  Polymod(data) = XorDigits((CHOOSE f : Shifts(f, data))[Len(data)], One)
BY DEF Polymod, Shifts, Shifted

\* A step gives a checksum.
LEMMA ShiftedType ==
  ASSUME NEW old \in Checksums, NEW d \in Quintets
  PROVE  Shifted(old, d) \in Checksums
<1>1. old \in Seq(Quintets) /\ Len(old) = 8 /\ Head(old) \in Quintets
  <2> HIDE DEF Quintets
  <2>1. old \in Seq(Quintets) /\ Len(old) = 8
    BY SeqOfFunction DEF Checksums
  <2>2. Head(old) = old[1]
    OBVIOUS
  <2> QED BY <2>1, <2>2 DEF Checksums
<1> HIDE DEF Quintets
<1>2. PICK s : s = Append(Tail(old), d)
  OBVIOUS
<1>3. s \in Seq(Quintets) /\ Len(s) = 8
  BY <1>1, <1>2
<1>4. s \in Checksums
  <2>1. s \in [1..Len(s) -> Quintets]
    BY <1>3, FunctionOfSeq
  <2> QED BY <1>3, <2>1 DEF Checksums
<1>5. Feedback[Head(old)] \in Checksums
  BY <1>1, FeedbackType
<1>6. XorDigits(s, Feedback[Head(old)]) \in Checksums
  BY <1>4, <1>5, XorsType
<1> QED BY <1>2, <1>6 DEF Shifted

\* There is such a function.
LEMMA ShifterExists ==
  ASSUME NEW data \in Seq(Quintets)
  PROVE  \E f \in [0..Len(data) -> Checksums] : Shifts(f, data)
<1> DEFINE S == Checksums
           n == Len(data)
           step == [p \in (1..n) \X S |-> Shifted(p[2], data[p[1]])]
<1>1. n \in Nat /\ \A k \in 1..n : data[k] \in Quintets
  OBVIOUS
<1>2. ASSUME NEW k \in 1..n, NEW x \in S PROVE Shifted(x, data[k]) \in S
  BY <1>1, ShiftedType
<1> HIDE DEF S, n
<1>3. step \in [(1..n) \X S -> S] /\ \A k \in 1..n, x \in S : step[<< k, x >>] = Shifted(x, data[k])
  BY <1>2
<1>4. One \in S
  BY FixedDigits DEF S
<1> HIDE DEF step
<1>5. PICK f \in [0..n -> S] : Recurs(f, One, n, step)
  BY <1>1, <1>3, <1>4, Recursion
<1>6. ASSUME NEW k \in 0..n PROVE f[k] = IF k = 0 THEN One ELSE Shifted(f[k - 1], data[k])
  <2>1. CASE k = 0
    BY <1>5, <2>1 DEF Recurs
  <2>2. CASE k # 0
    <3>1. k \in 1..n /\ k - 1 \in 0..n
      BY <1>1, <2>2
    <3>2. f[k] = step[<< k, f[k - 1] >>]
      BY <1>5, <3>1 DEF Recurs
    <3>3. f[k - 1] \in S
      BY <3>1
    <3> QED BY <1>3, <2>2, <3>1, <3>2, <3>3
  <2> QED BY <2>1, <2>2
<1>7. f = [k \in 0..n |-> IF k = 0 THEN One ELSE Shifted(f[k - 1], data[k])]
  <2> DEFINE h == [k \in 0..n |-> IF k = 0 THEN One ELSE Shifted(f[k - 1], data[k])]
  <2>1. f = h
    BY <1>6
  <2> QED BY <2>1
<1> QED BY <1>7 DEF Shifts, n, S

\* What such a function is at one place.
LEMMA ShiftsAt ==
  ASSUME NEW data, NEW f, Shifts(f, data), NEW n \in 0..Len(data)
  PROVE  f[n] = IF n = 0 THEN One ELSE Shifted(f[n - 1], data[n])
<1> DEFINE h == [m \in 0..Len(data) |-> IF m = 0 THEN One ELSE Shifted(f[m - 1], data[m])]
<1>1. f = h
  BY DEF Shifts
<1>2. h[n] = IF n = 0 THEN One ELSE Shifted(f[n - 1], data[n])
  OBVIOUS
<1> HIDE DEF h
<1> QED BY <1>1, <1>2

\* Each state is a checksum.
LEMMA ShiftsType ==
  ASSUME NEW data \in Seq(Quintets), NEW f, Shifts(f, data), NEW n \in 0..Len(data)
  PROVE  f[n] \in Checksums
<1> DEFINE T == { m \in Nat : m <= Len(data) => f[m] \in Checksums }
<1>1. Len(data) \in Nat
  OBVIOUS
<1>2. 0 \in T
  <2>1. f[0] = One
    BY <1>1, ShiftsAt
  <2> QED BY <2>1, FixedDigits
<1>3. ASSUME NEW m \in Nat, m \in T PROVE m + 1 \in T
  <2> SUFFICES ASSUME m + 1 <= Len(data) PROVE f[m + 1] \in Checksums
    OBVIOUS
  <2>1. m + 1 \in 0..Len(data) /\ m + 1 # 0 /\ (m + 1) - 1 = m /\ m <= Len(data)
    BY <1>1
  <2>2. data[m + 1] \in Quintets
    <3> HIDE DEF Quintets
    <3> QED BY <2>1
  <2>3. f[m] \in Checksums
    BY <1>3, <2>1
  <2>4. f[m + 1] = Shifted(f[m], data[m + 1])
    BY <2>1, ShiftsAt
  <2> QED BY <2>2, <2>3, <2>4, ShiftedType
<1> HIDE DEF T
<1>4. Nat \subseteq T
  BY <1>2, <1>3, Induction
<1>5. n \in T /\ n <= Len(data)
  BY <1>1, <1>4
<1> QED BY <1>5 DEF T

\* So is the result.
LEMMA PolymodType ==
  ASSUME NEW data \in Seq(Quintets)
  PROVE  Polymod(data) \in Checksums
<1> DEFINE F == CHOOSE f : Shifts(f, data)
<1>1. Shifts(F, data)
  BY ShifterExists, Zenon
<1> HIDE DEF F
<1>2. Len(data) \in 0..Len(data)
  <2>1. Len(data) \in Nat
    OBVIOUS
  <2> QED BY <2>1
<1>3. F[Len(data)] \in Checksums
  BY <1>1, <1>2, ShiftsType
<1>4. XorDigits(F[Len(data)], One) \in Checksums
  BY <1>3, FixedDigits, XorsType
<1> QED BY <1>4, PolymodIs DEF F

-----------------------------------------------------------------------------
\* The payload.

\* The states of the conversion from eight to five bits.
Regroups ==
  { s \in [acc : Nat, num : 0..8, out : Seq(Quintets)] : s.acc < 2^s.num }

\* One byte more.
Regrouped(s, b) ==
  LET acc == (s.acc * 256 + b) % 2^16
      num == s.num + 8
  IN [ acc |-> acc % 2^(num % 5),
       num |-> num % 5,
       out |-> s.out \o [i \in 1..(num \div 5) |-> (acc \div 2^(num - 5 * i)) % 32] ]

\* The first state: the version byte.
Regroup0 == [acc |-> 0, num |-> 8, out |-> << >>]

\* f is the state after each byte.
Regroup(f, bytes) ==
  f = [n \in 0..Len(bytes) |-> IF n = 0 THEN Regroup0 ELSE Regrouped(f[n - 1], bytes[n])]

\* Payload with such a function.
LEMMA PayloadIs ==
  ASSUME NEW bytes
  PROVE  LET last == (CHOOSE f : Regroup(f, bytes))[Len(bytes)]
         IN Payload(bytes) = Append(last.out, last.acc * 2^(5 - last.num))
BY DEF Payload, Regroup, Regrouped, Regroup0

\* A byte adds one or two digits.
LEMMA RegroupedType ==
  ASSUME NEW s \in Regroups, NEW b \in Octets
  PROVE  /\ Regrouped(s, b) \in Regroups
         /\ Regrouped(s, b).num = (s.num + 8) % 5
         /\ Len(Regrouped(s, b).out) = Len(s.out) + ((s.num + 8) \div 5)
<1>1. PICK num \in 8..16 : num = s.num + 8
  BY DEF Regroups
<1>2. PICK acc \in Nat : acc = (s.acc * 256 + b) % 2^16
  <2>0. PICK a \in Nat : a = s.acc
    BY DEF Regroups
  <2>1. s.acc * 256 + b \in Nat /\ 2^16 \in Nat \ {0}
    <3>1. a * 256 + b \in Nat
      BY DEF Octets
    <3> QED BY <2>0, <3>1, PowerType
  <2>2. PICK x \in Nat, p \in Nat \ {0} : x = s.acc * 256 + b /\ p = 2^16
    BY <2>1
  <2>3. x % p \in Nat
    OBVIOUS
  <2> QED BY <2>2, <2>3
<1>3. PICK c \in Nat : c = num \div 5
  OBVIOUS
<1>4. num % 5 \in 0..4 /\ 5 * c <= num
  BY <1>3
<1>5. PICK new : new = [i \in 1..c |-> (acc \div 2^(num - 5 * i)) % 32]
  OBVIOUS
<1>6. ASSUME NEW i \in 1..c PROVE (acc \div 2^(num - 5 * i)) % 32 \in Quintets
  <2>1. PICK k \in Nat : k = num - 5 * i
    BY <1>4
  <2>2. (acc \div 2^k) % 32 \in 0..31
    BY BinaryDigit
  <2> QED BY <2>1, <2>2 DEF Quintets
<1>7. new \in Seq(Quintets) /\ Len(new) = c
  <2>1. new \in [1..c -> Quintets]
    BY <1>5, <1>6
  <2> QED BY <2>1, SeqOfFunction
<1>8. PICK out : out = s.out \o new
  OBVIOUS
<1>9. out \in Seq(Quintets) /\ Len(out) = Len(s.out) + c
  <2>1. s.out \in Seq(Quintets)
    BY DEF Regroups
  <2>2. PICK old \in Seq(Quintets) : old = s.out
    BY <2>1
  <2> HIDE DEF Quintets
  <2>3. old \o new \in Seq(Quintets) /\ Len(old \o new) = Len(old) + Len(new)
    BY <1>7
  <2> QED BY <1>7, <1>8, <2>2, <2>3
<1>10. PICK left : left = acc % 2^(num % 5)
  OBVIOUS
<1>11. left \in Nat /\ left < 2^(num % 5)
  <2>1. PICK k \in Nat : k = num % 5
    BY <1>4
  <2>2. acc % 2^k \in 0..(2^k - 1) /\ 2^k \in Nat
    BY BinaryDigit, PowerType
  <2> QED BY <1>10, <2>1, <2>2
<1>12. Regrouped(s, b) = [acc |-> left, num |-> num % 5, out |-> out]
  <2> DEFINE A == (s.acc * 256 + b) % 2^16
             N == s.num + 8
  <2>1. Regrouped(s, b)
          = [ acc |-> A % 2^(N % 5), num |-> N % 5,
              out |-> s.out \o [i \in 1..(N \div 5) |-> (A \div 2^(N - 5 * i)) % 32] ]
    BY Zenon DEF Regrouped
  <2>2. A = acc /\ N = num
    BY <1>1, <1>2, <1>3
  <2> HIDE DEF A, N
  <2>3. Regrouped(s, b)
          = [ acc |-> acc % 2^(num % 5), num |-> num % 5,
              out |-> s.out \o [i \in 1..(num \div 5) |-> (acc \div 2^(num - 5 * i)) % 32] ]
    BY <2>1, <2>2, Zenon
  <2>4. s.out \o [i \in 1..(num \div 5) |-> (acc \div 2^(num - 5 * i)) % 32] = out
    BY <1>3, <1>5, <1>8, Zenon
  <2> QED BY <1>10, <2>3, <2>4, Zenon
<1>13. [acc |-> left, num |-> num % 5, out |-> out] \in Regroups
  BY <1>4, <1>9, <1>11 DEF Regroups
<1> QED BY <1>1, <1>3, <1>9, <1>12, <1>13

\* The first state is one of the states.
LEMMA Regroup0Type == Regroup0 \in Regroups
<1>1. 0 < 2^8
  OBVIOUS
<1>2. << >> \in Seq(Quintets)
  OBVIOUS
<1>3. Regroup0 \in [acc : Nat, num : 0..8, out : Seq(Quintets)]
  BY <1>2 DEF Regroup0
<1>4. Regroup0.acc = 0 /\ Regroup0.num = 8
  BY DEF Regroup0
<1>5. Regroup0.acc < 2^Regroup0.num
  BY <1>1, <1>4
<1> QED BY <1>3, <1>5 DEF Regroups

\* There is such a function.
LEMMA RegrouperExists ==
  ASSUME NEW bytes \in Seq(Octets)
  PROVE  \E f : Regroup(f, bytes)
<1> DEFINE S == Regroups
           n == Len(bytes)
           step == [p \in (1..n) \X S |-> Regrouped(p[2], bytes[p[1]])]
<1>1. n \in Nat /\ \A k \in 1..n : bytes[k] \in Octets
  OBVIOUS
<1>2. ASSUME NEW k \in 1..n, NEW x \in S PROVE Regrouped(x, bytes[k]) \in S
  BY <1>1, RegroupedType
<1> HIDE DEF S, n
<1>3. step \in [(1..n) \X S -> S] /\ \A k \in 1..n, x \in S : step[<< k, x >>] = Regrouped(x, bytes[k])
  BY <1>2
<1>4. Regroup0 \in S
  BY Regroup0Type DEF S
<1> HIDE DEF step
<1>5. PICK f \in [0..n -> S] : Recurs(f, Regroup0, n, step)
  BY <1>1, <1>3, <1>4, Recursion
<1>6. ASSUME NEW k \in 0..n PROVE f[k] = IF k = 0 THEN Regroup0 ELSE Regrouped(f[k - 1], bytes[k])
  <2>1. CASE k = 0
    BY <1>5, <2>1 DEF Recurs
  <2>2. CASE k # 0
    <3>1. k \in 1..n /\ k - 1 \in 0..n
      BY <1>1, <2>2
    <3>2. f[k] = step[<< k, f[k - 1] >>]
      BY <1>5, <3>1 DEF Recurs
    <3>3. f[k - 1] \in S
      BY <3>1
    <3> QED BY <1>3, <2>2, <3>1, <3>2, <3>3
  <2> QED BY <2>1, <2>2
<1>7. f = [k \in 0..n |-> IF k = 0 THEN Regroup0 ELSE Regrouped(f[k - 1], bytes[k])]
  <2> DEFINE h == [k \in 0..n |-> IF k = 0 THEN Regroup0 ELSE Regrouped(f[k - 1], bytes[k])]
  <2>1. f = h
    BY <1>6
  <2> QED BY <2>1
<1> QED BY <1>7 DEF Regroup, n

\* What such a function is at one place.
LEMMA RegroupAt ==
  ASSUME NEW bytes, NEW f, Regroup(f, bytes), NEW n \in 0..Len(bytes)
  PROVE  f[n] = IF n = 0 THEN Regroup0 ELSE Regrouped(f[n - 1], bytes[n])
<1> DEFINE h == [m \in 0..Len(bytes) |->
                   IF m = 0 THEN Regroup0 ELSE Regrouped(f[m - 1], bytes[m])]
<1>1. f = h
  BY DEF Regroup
<1>2. h[n] = IF n = 0 THEN Regroup0 ELSE Regrouped(f[n - 1], bytes[n])
  OBVIOUS
<1> HIDE DEF h
<1> QED BY <1>1, <1>2

\* After each byte, all bits are in a digit or in acc.
AllBits(s, n) ==
  /\ s \in Regroups /\ 5 * Len(s.out) + s.num = 8 * (n + 1)
  /\ n > 0 => s.num <= 4

\* All the bits of the bytes so far are there.
LEMMA RegroupType ==
  ASSUME NEW bytes \in Seq(Octets), NEW f, Regroup(f, bytes), NEW n \in 0..Len(bytes)
  PROVE  AllBits(f[n], n)
<1> DEFINE T == { m \in Nat : m <= Len(bytes) => AllBits(f[m], m) }
<1>1. Len(bytes) \in Nat
  OBVIOUS
<1>2. 0 \in T
  <2>1. f[0] = Regroup0
    BY <1>1, RegroupAt
  <2>2. Len(<< >>) = 0
    OBVIOUS
  <2>3. Regroup0.out = << >> /\ Regroup0.num = 8
    BY DEF Regroup0
  <2> QED BY <2>1, <2>2, <2>3, Regroup0Type DEF AllBits
<1>3. ASSUME NEW m \in Nat, m \in T PROVE m + 1 \in T
  <2> SUFFICES ASSUME m + 1 <= Len(bytes) PROVE AllBits(f[m + 1], m + 1)
    OBVIOUS
  <2>1. m + 1 \in 0..Len(bytes) /\ m + 1 # 0 /\ (m + 1) - 1 = m /\ m <= Len(bytes)
    BY <1>1
  <2>2. bytes[m + 1] \in Octets
    BY <2>1
  <2>3. AllBits(f[m], m)
    BY <1>3, <2>1
  <2>4. f[m + 1] = Regrouped(f[m], bytes[m + 1])
    BY <2>1, RegroupAt
  <2>5. PICK s, t : s = f[m] /\ t = f[m + 1]
    OBVIOUS
  <2>6. s \in Regroups /\ 5 * Len(s.out) + s.num = 8 * (m + 1)
    BY <2>3, <2>5 DEF AllBits
  <2>7. t \in Regroups /\ t.num = (s.num + 8) % 5 /\ Len(t.out) = Len(s.out) + ((s.num + 8) \div 5)
    BY <2>2, <2>4, <2>5, <2>6, RegroupedType
  <2>8. PICK num, len : num = s.num /\ len = Len(s.out)
    OBVIOUS
  <2>9. num \in 0..8 /\ len \in Nat
    <3>1. s.num \in 0..8 /\ s.out \in Seq(Quintets)
      BY <2>6 DEF Regroups
    <3>2. PICK o \in Seq(Quintets) : o = s.out
      BY <3>1
    <3>3. Len(o) \in Nat
      OBVIOUS
    <3> QED BY <2>8, <3>1, <3>2, <3>3
  <2>10. 5 * (len + ((num + 8) \div 5)) + ((num + 8) % 5) = 5 * len + num + 8 /\ (num + 8) % 5 <= 4
    BY <2>9
  <2>11. 5 * Len(t.out) + t.num = 8 * (m + 2) /\ t.num <= 4
    BY <2>6, <2>7, <2>8, <2>9, <2>10
  <2> QED BY <2>5, <2>7, <2>11 DEF AllBits
<1> HIDE DEF T
<1>4. Nat \subseteq T
  BY <1>2, <1>3, Induction
<1>5. n \in T /\ n <= Len(bytes)
  BY <1>1, <1>4
<1> QED BY <1>5 DEF T

\* 20 bytes.
Addresses == [1..20 -> Octets]

\* The payload of an address has 34 digits.
LEMMA PayloadType ==
  ASSUME NEW bytes \in Addresses
  PROVE  Payload(bytes) \in Seq(Quintets) /\ Len(Payload(bytes)) = 34
<1> DEFINE F == CHOOSE f : Regroup(f, bytes)
<1>1. bytes \in Seq(Octets) /\ Len(bytes) = 20
  BY SeqOfFunction DEF Addresses
<1>2. Regroup(F, bytes)
  BY <1>1, RegrouperExists, Zenon
<1>3. Payload(bytes) = Append(F[20].out, F[20].acc * 2^(5 - F[20].num))
  BY <1>1, PayloadIs
<1> HIDE DEF F
<1>4. AllBits(F[20], 20)
  <2>1. 20 \in 0..Len(bytes)
    BY <1>1
  <2> QED BY <1>1, <1>2, <2>1, RegroupType
<1>5. PICK s : s = F[20]
  OBVIOUS
<1>6. s \in Regroups /\ 5 * Len(s.out) + s.num = 168 /\ s.num <= 4
  BY <1>4, <1>5 DEF AllBits
<1>7. PICK o \in Seq(Quintets) : o = s.out
  BY <1>6 DEF Regroups
<1>8. Len(o) \in Nat /\ s.num \in 0..8 /\ s.acc \in Nat /\ s.acc < 2^s.num
  BY <1>6 DEF Regroups
<1>9. s.num = 3 /\ Len(o) = 33
  <2>1. PICK n \in 0..4, l \in Nat : n = s.num /\ l = Len(o)
    BY <1>6, <1>8
  <2>2. 5 * l + n = 168
    BY <1>6, <1>7, <2>1
  <2>3. n = 3 /\ l = 33
    BY <2>2
  <2> QED BY <2>1, <2>3
<1>10. s.acc < 8 /\ 5 - s.num = 2
  <2>1. 2^3 = 8
    OBVIOUS
  <2> QED BY <1>8, <1>9, <2>1
<1>11. PICK d : d = s.acc * 2^(5 - s.num)
  OBVIOUS
<1>12. d \in Quintets
  <2>1. 2^2 = 4
    OBVIOUS
  <2>2. d = s.acc * 4
    BY <1>10, <1>11, <2>1
  <2>3. PICK a \in Nat : a = s.acc
    BY <1>8
  <2>4. a < 8
    BY <1>10, <2>3
  <2>5. a * 4 \in 0..31
    BY <2>4
  <2> QED BY <2>2, <2>3, <2>5 DEF Quintets
<1>13. Append(o, d) \in Seq(Quintets) /\ Len(Append(o, d)) = 34
  <2>1. Append(o, d) \in Seq(Quintets) /\ Len(Append(o, d)) = Len(o) + 1
    BY <1>12, AppendType
  <2>2. 33 + 1 = 34
    OBVIOUS
  <2> QED BY <1>9, <2>1, <2>2
<1> QED BY <1>3, <1>5, <1>7, <1>11, <1>13

-----------------------------------------------------------------------------
\* The whole text.

\* A character for each digit.
LEMMA CharsType ==
  ASSUME NEW digits \in Seq(Quintets)
  PROVE  Chars(digits) \in Seq(Printable) /\ Len(Chars(digits)) = Len(digits)
<1>1. \A d \in Quintets : CHARSET[d + 1] \in Printable
  <2>1. CHARSET \in Seq(Printable) /\ Len(CHARSET) = 32
    BY DEF CHARSET, Printable
  <2>2. \A d \in Quintets : d + 1 \in 1..32
    BY DEF Quintets
  <2> HIDE DEF CHARSET
  <2> QED BY <2>1, <2>2, ElementType
<1>2. PICK n \in Nat : n = Len(digits) /\ DOMAIN digits = 1..n
  OBVIOUS
<1>3. ASSUME NEW i \in 1..n PROVE CHARSET[digits[i] + 1] \in Printable
  <2>1. digits[i] \in Quintets
    <3> HIDE DEF Quintets
    <3> QED BY <1>2
  <2> QED BY <1>1, <2>1
<1>4. Chars(digits) \in [1..n -> Printable]
  BY <1>2, <1>3 DEF Chars
<1> QED BY <1>2, <1>4, SeqOfFunction

\* A digit for each character.
LEMMA ExtendedPrefixType ==
  ASSUME NEW prefix \in Seq(Nat)
  PROVE  ExtendedPrefix(prefix) \in Seq(Quintets) /\ Len(ExtendedPrefix(prefix)) = Len(prefix)
<1>1. PICK n \in Nat : n = Len(prefix)
  OBVIOUS
<1>2. ASSUME NEW i \in 1..n PROVE (IF i < Len(prefix) THEN prefix[i] % 32 ELSE 0) \in Quintets
  <2>1. PICK c \in Nat : c = prefix[i]
    BY <1>1
  <2>2. c % 32 \in 0..31
    OBVIOUS
  <2> QED BY <2>1, <2>2 DEF Quintets
<1>3. ExtendedPrefix(prefix) \in [1..n -> Quintets]
  BY <1>1, <1>2 DEF ExtendedPrefix
<1> QED BY <1>1, <1>3, SeqOfFunction

\* The text of an address.
AddressText(address, id) ==
  Prefix(id) \o Chars(Payload(address))
    \o Chars(Polymod(ExtendedPrefix(Prefix(id)) \o Payload(address) \o Zeros))

\* cfxaddr_encode stores it with its terminator.
LEMMA EncodeIs ==
  ASSUME NEW address \in Addresses, NEW id \in Nat
  PROVE  /\ AddressText(address, id) \in Seq(Printable)
         /\ Encode(address, id) = Terminated(AddressText(address, id))
         /\ Len(AddressText(address, id)) = Len(Prefix(id)) + 42
         /\ ExtendedPrefix(Prefix(id)) \o Payload(address) \o Zeros \in Seq(Quintets)
<1>1. PICK p \in Seq(Printable) : p = Prefix(id)
  BY PrefixType
<1>2. PICK e \in Seq(Quintets) : e = ExtendedPrefix(p)
  <2>1. p \in Seq(Nat)
    <3>1. Printable \subseteq Nat
      BY DEF Printable
    <3> QED BY <3>1, SeqMonotone
  <2> QED BY <2>1, ExtendedPrefixType
<1>3. PICK y \in Seq(Quintets) : y = Payload(address) /\ Len(y) = 34
  BY PayloadType
<1>4. Zeros \in Seq(Quintets)
  BY FixedDigits, SeqOfFunction DEF Checksums
<1>5. PICK data \in Seq(Quintets) : data = e \o y \o Zeros
  <2> HIDE DEF Quintets
  <2>1. e \o y \in Seq(Quintets)
    OBVIOUS
  <2>2. PICK x \in Seq(Quintets) : x = e \o y
    BY <2>1
  <2>3. x \o Zeros \in Seq(Quintets)
    BY <1>4
  <2> QED BY <2>2, <2>3
<1>6. PICK k \in Seq(Quintets) : k = Polymod(data) /\ Len(k) = 8
  <2>1. Polymod(data) \in [1..8 -> Quintets]
    BY PolymodType DEF Checksums
  <2> QED BY <2>1, SeqOfFunction
<1>7. PICK a \in Seq(Printable) : a = Chars(y) /\ Len(a) = 34
  BY <1>3, CharsType
<1>8. PICK b \in Seq(Printable) : b = Chars(k) /\ Len(b) = 8
  BY <1>6, CharsType
<1>9. PICK t : t = p \o a \o b
  OBVIOUS
<1>10. t \in Seq(Printable) /\ Len(t) = Len(p) + 42
  <2> HIDE DEF Printable
  <2>1. p \o a \in Seq(Printable) /\ Len(p \o a) = Len(p) + 34
    BY <1>7, ConcatType
  <2>2. PICK x \in Seq(Printable) : x = p \o a
    BY <2>1
  <2>3. x \o b \in Seq(Printable) /\ Len(x \o b) = Len(x) + 8 /\ Len(p) \in Nat
    BY <1>8, ConcatType
  <2> QED BY <1>9, <2>1, <2>2, <2>3
<1>11. AddressText(address, id) = t
  BY <1>1, <1>2, <1>3, <1>5, <1>6, <1>7, <1>8, <1>9, Zenon DEF AddressText
<1>12. Encode(address, id) = Terminated(AddressText(address, id))
  BY Zenon DEF Encode, AddressText
<1>13. ExtendedPrefix(Prefix(id)) \o Payload(address) \o Zeros = data
  BY <1>1, <1>2, <1>3, <1>5, Zenon
<1> QED BY <1>1, <1>5, <1>10, <1>11, <1>12, <1>13

-----------------------------------------------------------------------------
\* The parts of a text.

\* Where the part that begins at i stops.
Stop(text, separator, i) ==
  Min({ j \in i..Len(text) : text[j] = separator } \cup { Len(text) + 1 })

\* f splits what begins at a place.
Splits(f, text, separator) ==
  f = [i \in 1..(Len(text) + 1) |->
         << SubSeq(text, i, Stop(text, separator, i) - 1) >>
           \o (IF Stop(text, separator, i) > Len(text) THEN << >>
               ELSE f[Stop(text, separator, i) + 1])]

\* Parts as a function of the place where it begins.
LEMMA PartsIs ==
  ASSUME NEW text, NEW separator
  PROVE  Parts(text, separator) = (CHOOSE f : Splits(f, text, separator))[1]
BY DEF Parts, Splits, Stop

\* A part stops at the next separator or at the end.
LEMMA StopIs ==
  ASSUME NEW C, NEW text \in Seq(C), NEW separator, NEW i \in 1..(Len(text) + 1)
  PROVE  /\ Stop(text, separator, i) \in i..(Len(text) + 1)
         /\ \A j \in i..(Stop(text, separator, i) - 1) : text[j] # separator
         /\ Stop(text, separator, i) <= Len(text) => text[Stop(text, separator, i)] = separator
<1> DEFINE n == Len(text)
           S == { j \in i..n : text[j] = separator } \cup { n + 1 }
           stop == Min(S)
<1>1. n \in Nat
  OBVIOUS
<1>2. stop = Stop(text, separator, i)
  BY DEF Stop
<1> HIDE DEF n
<1>3. S \subseteq Nat /\ n + 1 \in S
  BY <1>1
<1>4. stop \in S /\ \A x \in S : stop <= x
  <2> HIDE DEF S
  <2> QED BY <1>3, Least
<1> HIDE DEF stop
<1>5. stop <= n + 1 /\ i <= n + 1
  BY <1>3, <1>4 DEF n
<1>6. ASSUME NEW j \in i..(stop - 1) PROVE text[j] # separator
  <2>1. j \in i..n /\ ~(stop <= j)
    BY <1>1, <1>3, <1>4, <1>5
  <2> QED BY <1>4, <2>1
<1> QED BY <1>1, <1>2, <1>4, <1>5, <1>6 DEF n

\* A part of a text without separators.
Lacks(text, separator, from, to) == \A j \in from..to : text[j] # separator

\* It is the one place of that kind.
LEMMA StopUnique ==
  ASSUME NEW C, NEW text \in Seq(C), NEW separator, NEW i \in 1..(Len(text) + 1),
         NEW k \in i..(Len(text) + 1), Lacks(text, separator, i, k - 1),
         k <= Len(text) => text[k] = separator
  PROVE  Stop(text, separator, i) = k
<1> USE DEF Lacks
<1>1. PICK s : s = Stop(text, separator, i)
  OBVIOUS
<1>2. /\ s \in i..(Len(text) + 1)
      /\ \A j \in i..(s - 1) : text[j] # separator
      /\ s <= Len(text) => text[s] = separator
  BY <1>1, StopIs
<1>3. Len(text) \in Nat
  OBVIOUS
<1>4. ~(s < k)
  <2> SUFFICES ASSUME s < k PROVE FALSE
    OBVIOUS
  <2>1. s \in i..(k - 1) /\ s <= Len(text)
    BY <1>2, <1>3
  <2> QED BY <1>2, <2>1
<1>5. ~(k < s)
  <2> SUFFICES ASSUME k < s PROVE FALSE
    OBVIOUS
  <2>1. k \in i..(s - 1) /\ k <= Len(text)
    BY <1>2, <1>3
  <2> QED BY <1>2, <2>1
<1>6. s \in Int /\ k \in Int
  BY <1>2, <1>3
<1> QED BY <1>1, <1>4, <1>5, <1>6

\* What the function is at one place.
LEMMA SplitsAt ==
  ASSUME NEW f, NEW text, NEW separator, Splits(f, text, separator),
         NEW i \in 1..(Len(text) + 1)
  PROVE  f[i] = << SubSeq(text, i, Stop(text, separator, i) - 1) >>
                  \o (IF Stop(text, separator, i) > Len(text) THEN << >>
                      ELSE f[Stop(text, separator, i) + 1])
<1> DEFINE h == [j \in 1..(Len(text) + 1) |->
                   << SubSeq(text, j, Stop(text, separator, j) - 1) >>
                     \o (IF Stop(text, separator, j) > Len(text) THEN << >>
                         ELSE f[Stop(text, separator, j) + 1])]
<1>1. f = h
  BY DEF Splits
<1>2. h[i] = << SubSeq(text, i, Stop(text, separator, i) - 1) >>
               \o (IF Stop(text, separator, i) > Len(text) THEN << >>
                   ELSE f[Stop(text, separator, i) + 1])
  OBVIOUS
<1> HIDE DEF h
<1> QED BY <1>1, <1>2

\* The last part ends the text.
LEMMA LastPart ==
  ASSUME NEW C, NEW f, NEW text \in Seq(C), NEW separator, Splits(f, text, separator),
         NEW i \in 1..(Len(text) + 1), Lacks(text, separator, i, Len(text)),
         NEW a, a = SubSeq(text, i, Len(text))
  PROVE  f[i] = << a >>
<1>1. Len(text) \in Nat
  OBVIOUS
<1>2. PICK k : k = Len(text) + 1
  OBVIOUS
<1>3. k \in i..(Len(text) + 1) /\ k - 1 = Len(text) /\ k > Len(text) /\ ~(k <= Len(text))
  BY <1>1, <1>2
<1>4. Stop(text, separator, i) = k
  <2>1. k \in i..(Len(text) + 1)
    BY <1>3
  <2>2. Lacks(text, separator, i, k - 1)
    BY <1>3
  <2>3. k <= Len(text) => text[k] = separator
    BY <1>3
  <2> QED BY <2>1, <2>2, <2>3, StopUnique, Zenon
<1>5. PICK s : s = Stop(text, separator, i)
  OBVIOUS
<1>6. f[i] = << SubSeq(text, i, s - 1) >> \o (IF s > Len(text) THEN << >> ELSE f[s + 1])
  <2>1. f[i] = << SubSeq(text, i, Stop(text, separator, i) - 1) >>
                 \o (IF Stop(text, separator, i) > Len(text) THEN << >>
                     ELSE f[Stop(text, separator, i) + 1])
    BY SplitsAt
  <2> QED BY <1>5, <2>1, Zenon
<1>7. SubSeq(text, i, s - 1) = a /\ s > Len(text)
  BY <1>3, <1>4, <1>5
<1>8. f[i] = << a >> \o << >>
  BY <1>6, <1>7, Zenon
<1>9. << a >> \o << >> = << a >>
  OBVIOUS
<1> QED BY <1>8, <1>9

\* There is such a function.
LEMMA SplitterExists ==
  ASSUME NEW C, NEW text \in Seq(C), NEW separator
  PROVE  \E f : Splits(f, text, separator)
<1> DEFINE n == Len(text)
           stop(i) == Stop(text, separator, i)
           part(i) == << SubSeq(text, i, stop(i) - 1) >>
           Solves(f, m) ==
             f = [i \in (n + 1 - m)..(n + 1) |->
                    part(i) \o (IF stop(i) > n THEN << >> ELSE f[stop(i) + 1])]
           T == { m \in Nat : m <= n => \E f : Solves(f, m) }
<1>1. n \in Nat
  OBVIOUS
<1>2. \A i \in 1..(n + 1) : stop(i) \in i..(n + 1)
  BY StopIs
<1> HIDE DEF n, stop, part
<1>3. 0 \in T
  <2> DEFINE f == [i \in (n + 1 - 0)..(n + 1) |-> part(i) \o << >>]
  <2>1. Solves(f, 0)
    <3>1. ASSUME NEW i \in (n + 1 - 0)..(n + 1)
          PROVE  part(i) \o << >> = part(i) \o (IF stop(i) > n THEN << >> ELSE f[stop(i) + 1])
      <4>1. i = n + 1
        BY <1>1
      <4>2. stop(i) > n
        BY <1>1, <1>2, <4>1
      <4> HIDE DEF f
      <4> QED BY <4>2
    <3> DEFINE h == [i \in (n + 1 - 0)..(n + 1) |->
                       part(i) \o (IF stop(i) > n THEN << >> ELSE f[stop(i) + 1])]
    <3>2. f = h
      BY <3>1, Zenon
    <3> HIDE DEF f
    <3> QED BY <3>2
  <2> HIDE DEF Solves
  <2> QED BY <2>1
<1>4. ASSUME NEW m \in Nat, m \in T PROVE m + 1 \in T
  <2> SUFFICES ASSUME m + 1 <= n PROVE \E f : Solves(f, m + 1)
    OBVIOUS
  <2>1. PICK f : Solves(f, m)
    <3>1. m <= n
      BY <1>1
    <3> HIDE DEF Solves
    <3> QED BY <1>4, <3>1
  <2> DEFINE k == n - m
             rest == IF stop(k) > n THEN << >> ELSE f[stop(k) + 1]
             g == [i \in k..(n + 1) |-> IF i = k THEN part(k) \o rest ELSE f[i]]
             h == [i \in k..(n + 1) |->
                     part(i) \o (IF stop(i) > n THEN << >> ELSE g[stop(i) + 1])]
  <2>2. k \in Nat /\ 1 <= k /\ k <= n /\ n + 1 - (m + 1) = k /\ n + 1 - m = k + 1
    BY <1>1
  <2> HIDE DEF k
  <2>3. ASSUME NEW i \in k..(n + 1), ~(stop(i) > n) PROVE g[stop(i) + 1] = f[stop(i) + 1]
    <3>1. i \in 1..(n + 1)
      BY <1>1, <2>2
    <3>2. stop(i) \in i..(n + 1)
      BY <1>2, <3>1
    <3>3. stop(i) + 1 \in k..(n + 1) /\ stop(i) + 1 # k
      BY <1>1, <2>2, <2>3, <3>1, <3>2
    <3> QED BY <3>3
  <2>4. ASSUME NEW i \in k..(n + 1) PROVE g[i] = h[i]
    <3>1. h[i] = part(i) \o (IF stop(i) > n THEN << >> ELSE f[stop(i) + 1])
      <4>1. h[i] = part(i) \o (IF stop(i) > n THEN << >> ELSE g[stop(i) + 1])
        OBVIOUS
      <4> HIDE DEF g, h
      <4> QED BY <2>3, <4>1
    <3>2. CASE i = k
      <4>1. g[i] = part(k) \o rest
        BY <3>2
      <4> HIDE DEF g, h
      <4> QED BY <3>1, <3>2, <4>1
    <3>3. CASE i # k
      <4>1. i \in (k + 1)..(n + 1)
        BY <1>1, <2>2, <3>3
      <4>2. f[i] = part(i) \o (IF stop(i) > n THEN << >> ELSE f[stop(i) + 1])
        <5> DEFINE e == [j \in (n + 1 - m)..(n + 1) |->
                           part(j) \o (IF stop(j) > n THEN << >> ELSE f[stop(j) + 1])]
        <5>1. f = e
          BY <2>1
        <5>2. i \in (n + 1 - m)..(n + 1)
          BY <2>2, <4>1
        <5>3. e[i] = part(i) \o (IF stop(i) > n THEN << >> ELSE f[stop(i) + 1])
          BY <5>2
        <5> HIDE DEF e
        <5> QED BY <5>1, <5>3
      <4>3. g[i] = f[i]
        BY <3>3
      <4> HIDE DEF g, h
      <4> QED BY <3>1, <4>2, <4>3
    <3> QED BY <3>2, <3>3
  <2>5. g = h
    BY <2>4
  <2>6. Solves(g, m + 1)
    <3> HIDE DEF g
    <3> QED BY <2>2, <2>5
  <2> HIDE DEF Solves
  <2> QED BY <2>6
<1>5. Nat \subseteq T
  <2> HIDE DEF T
  <2> QED BY <1>3, <1>4, Induction
<1>6. PICK f : Solves(f, n)
  <2> HIDE DEF Solves
  <2> QED BY <1>1, <1>5
<1>7. n + 1 - n = 1
  BY <1>1
<1>8. Splits(f, text, separator)
  BY <1>6, <1>7 DEF Splits, n, stop, part
<1> QED BY <1>8

\* Where the separators of a longer text are.
LEMMA Longer ==
  ASSUME NEW C, NEW t \in Seq(C), NEW a \in Seq(C), NEW separator \in C
  PROVE  LET u == t \o << separator >> \o a
         IN /\ u \in Seq(C) /\ Len(u) = Len(t) + 1 + Len(a)
            /\ \A i \in 1..Len(t) : u[i] = t[i]
            /\ u[Len(t) + 1] = separator
            /\ \A i \in 1..Len(a) : u[Len(t) + 1 + i] = a[i]
<1> DEFINE m == t \o << separator >>
           u == m \o a
<1>1. m \in Seq(C) /\ Len(m) = Len(t) + 1 /\ m[Len(t) + 1] = separator
      /\ \A i \in 1..Len(t) : m[i] = t[i]
  OBVIOUS
<1> HIDE DEF m
<1>2. /\ u \in Seq(C) /\ Len(u) = Len(m) + Len(a)
      /\ \A i \in 1..Len(m) : u[i] = m[i]
      /\ \A i \in 1..Len(a) : u[Len(m) + i] = a[i]
  <2>1. u \in Seq(C) /\ Joins(u, m, a)
    BY <1>1, Concatenated
  <2> HIDE DEF u
  <2> QED BY <2>1 DEF Joins
<1>3. u = t \o << separator >> \o a
  BY DEF m
<1> HIDE DEF u
<1>4. Len(t) \in Nat /\ Len(a) \in Nat
  OBVIOUS
<1>5. \A i \in 1..Len(t) : i \in 1..Len(m)
  BY <1>1, <1>4
<1>6. Len(t) + 1 \in 1..Len(m)
  BY <1>1, <1>4
<1> QED BY <1>1, <1>2, <1>3, <1>4, <1>5, <1>6

\* A text without separators is one part.
LEMMA PartsOne ==
  ASSUME NEW C, NEW a \in Seq(C), NEW separator, Lacks(a, separator, 1, Len(a))
  PROVE  Parts(a, separator) = << a >>
<1> DEFINE F == CHOOSE f : Splits(f, a, separator)
<1>1. Splits(F, a, separator)
  BY SplitterExists, Zenon
<1> HIDE DEF F
<1>2. Len(a) \in Nat /\ 1 \in 1..(Len(a) + 1) /\ Len(a) + 1 \in 1..(Len(a) + 1)
  OBVIOUS
<1>3. a = SubSeq(a, 1, Len(a))
  BY <1>2
<1>4. F[1] = << a >>
  BY <1>1, <1>2, <1>3, LastPart
<1> QED BY <1>4, PartsIs DEF F

\* What follows the last separator is a part of its own.
LEMMA PartsAppend ==
  ASSUME NEW C, NEW t \in Seq(C), NEW a \in Seq(C), NEW separator \in C,
         Lacks(a, separator, 1, Len(a))
  PROVE  /\ Parts(t, separator) \in Seq(Seq(C))
         /\ Parts(t \o << separator >> \o a, separator) = Append(Parts(t, separator), a)
<1>a. \A i \in 1..Len(a) : a[i] # separator
  BY DEF Lacks
<1> USE <1>a
<1> DEFINE u == t \o << separator >> \o a
           F == CHOOSE f : Splits(f, t, separator)
           G == CHOOSE f : Splits(f, u, separator)
           n == Len(t)
           P(i) == F[i] \in Seq(Seq(C)) /\ G[i] = F[i] \o << a >>
           T == { m \in Nat : m <= n => P(n + 1 - m) }
<1>1. /\ u \in Seq(C) /\ Len(u) = n + 1 + Len(a)
      /\ \A i \in 1..n : u[i] = t[i]
      /\ u[n + 1] = separator
      /\ \A i \in 1..Len(a) : u[n + 1 + i] = a[i]
  BY Longer
<1> HIDE DEF u
<1>2. Splits(F, t, separator) /\ Splits(G, u, separator)
  BY <1>1, SplitterExists, Zenon
<1> HIDE DEF F, G
<1>3. n \in Nat /\ Len(a) \in Nat /\ n + 2 \in 1..(Len(u) + 1)
  BY <1>1
<1>4. G[n + 2] = << a >>
  <2>1. Lacks(u, separator, n + 2, Len(u))
    <3> SUFFICES ASSUME NEW j \in (n + 2)..Len(u) PROVE u[j] # separator
      BY DEF Lacks
    <3>1. PICK i \in Nat : i = j - (n + 1) /\ i \in 1..Len(a) /\ n + 1 + i = j
      <4>1. PICK l \in Nat : l = Len(a)
        BY <1>3
      <4>2. j \in (n + 2)..(n + 1 + l)
        BY <1>1, <4>1
      <4> HIDE DEF n
      <4>3. j - (n + 1) \in 1..l /\ n + 1 + (j - (n + 1)) = j
        BY <1>3, <4>2
      <4> QED BY <4>1, <4>3
    <3>2. u[n + 1 + i] = a[i]
      BY <1>1, <3>1, Zenon
    <3>3. a[i] # separator
      BY <3>1
    <3> QED BY <3>1, <3>2, <3>3, Zenon
  <2>2. a = SubSeq(u, n + 2, Len(u))
    <3> DEFINE s == SubSeq(u, n + 2, Len(u))
    <3>1. s \in Seq(C) /\ Len(s) = Len(a) /\ \A i \in 1..Len(a) : s[i] = u[n + 1 + i]
      BY <1>1, <1>3
    <3> HIDE DEF s
    <3>2. \A i \in 1..Len(a) : s[i] = a[i]
      BY <1>1, <3>1
    <3>3. s = a
      BY <3>1, <3>2
    <3> QED BY <3>3 DEF s
  <2>3. u \in Seq(C)
    BY <1>1
  <2> HIDE DEF n
  <2> QED BY <1>2, <1>3, <2>1, <2>2, <2>3, LastPart
<1>5. ASSUME NEW i \in 1..(n + 1)
      PROVE  /\ Stop(u, separator, i) = Stop(t, separator, i)
             /\ Stop(t, separator, i) \in i..(n + 1)
             /\ SubSeq(u, i, Stop(t, separator, i) - 1) = SubSeq(t, i, Stop(t, separator, i) - 1)
             /\ SubSeq(t, i, Stop(t, separator, i) - 1) \in Seq(C)
  <2>1. PICK s : s = Stop(t, separator, i)
    OBVIOUS
  <2>2. /\ s \in i..(n + 1)
        /\ \A j \in i..(s - 1) : t[j] # separator
        /\ s <= n => t[s] = separator
    BY <2>1, StopIs
  <2>3. i \in 1..(Len(u) + 1) /\ s \in i..(Len(u) + 1)
    BY <1>1, <1>3, <2>2
  <2>4. \A j \in i..(s - 1) : j \in 1..n
    BY <1>3, <2>2
  <2>5. \A j \in i..(s - 1) : u[j] # separator
    BY <1>1, <2>2, <2>4
  <2>6. u[s] = separator
    <3>1. CASE s <= n
      <4>1. s \in 1..n
        BY <1>3, <2>2, <3>1
      <4> QED BY <1>1, <2>2, <3>1, <4>1
    <3>2. CASE ~(s <= n)
      <4>1. s = n + 1
        BY <1>3, <2>2, <3>2
      <4> QED BY <1>1, <4>1
    <3> QED BY <3>1, <3>2
  <2>7. Stop(u, separator, i) = s
    <3>1. Lacks(u, separator, i, s - 1)
      BY <2>5 DEF Lacks
    <3>2. u \in Seq(C)
      BY <1>1
    <3> HIDE DEF n
    <3> QED BY <2>3, <2>6, <3>1, <3>2, StopUnique
  <2>8. SubSeq(u, i, s - 1) = SubSeq(t, i, s - 1) /\ SubSeq(t, i, s - 1) \in Seq(C)
    <3> DEFINE x == SubSeq(u, i, s - 1)
               y == SubSeq(t, i, s - 1)
    <3>1. i \in Int /\ s \in Int /\ 1 <= i /\ i <= s /\ s <= n + 1 /\ Len(u) \in Int /\ n + 1 <= Len(u)
      BY <1>1, <1>3, <2>2
    <3>2. x \in Seq(C) /\ Len(x) = s - i /\ \A j \in 1..(s - i) : x[j] = u[i + j - 1]
      <4>1. u \in Seq(C)
        BY <1>1
      <4>2. s - 1 <= Len(u)
        BY <3>1
      <4> QED BY ONLY <3>1, <4>1, <4>2
    <3>3. y \in Seq(C) /\ Len(y) = s - i /\ \A j \in 1..(s - i) : y[j] = t[i + j - 1]
      BY <3>1
    <3> HIDE DEF x, y
    <3>4. \A j \in 1..(s - i) : i + j - 1 \in 1..n
      BY <3>1
    <3>5. \A j \in 1..(s - i) : x[j] = y[j]
      BY <1>1, <3>2, <3>3, <3>4
    <3>6. x = y
      BY <3>2, <3>3, <3>5
    <3> QED BY <3>3, <3>6 DEF x, y
  <2> QED BY <2>1, <2>2, <2>7, <2>8
<1>6. ASSUME NEW i \in 1..(n + 1), \A j \in (i + 1)..(n + 1) : P(j) PROVE P(i)
  <2>1. PICK s, p : s = Stop(t, separator, i) /\ p = SubSeq(t, i, s - 1)
    OBVIOUS
  <2>2. /\ s = Stop(u, separator, i) /\ s \in i..(n + 1)
        /\ p = SubSeq(u, i, s - 1) /\ p \in Seq(C)
    BY <1>5, <2>1
  <2>3. F[i] = << p >> \o (IF s > n THEN << >> ELSE F[s + 1])
    <3>1. F[i] = << SubSeq(t, i, Stop(t, separator, i) - 1) >>
                    \o (IF Stop(t, separator, i) > Len(t) THEN << >>
                        ELSE F[Stop(t, separator, i) + 1])
      BY <1>2, SplitsAt
    <3> QED BY <2>1, <3>1, Zenon
  <2>4. G[i] = << p >> \o (IF s > Len(u) THEN << >> ELSE G[s + 1])
    <3>1. i \in 1..(Len(u) + 1)
      BY <1>1, <1>3
    <3>2. G[i] = << SubSeq(u, i, Stop(u, separator, i) - 1) >>
                    \o (IF Stop(u, separator, i) > Len(u) THEN << >>
                        ELSE G[Stop(u, separator, i) + 1])
      BY <1>2, <3>1, SplitsAt
    <3> QED BY <2>2, <3>2, Zenon
  <2>5. G[i] = << p >> \o G[s + 1]
    <3>1. ~(s > Len(u))
      BY <1>1, <1>3, <2>2
    <3> QED BY <2>4, <3>1
  <2>6. CASE s > n
    <3>1. s + 1 = n + 2
      <4>1. s \in Int /\ n \in Int /\ s <= n + 1 /\ s > n
        BY <1>3, <2>2, <2>6
      <4> QED BY ONLY <4>1
    <3>2. F[i] = << p >> /\ G[i] = << p >> \o << a >>
      <4>1. << p >> \o << >> = << p >>
        OBVIOUS
      <4> QED BY <1>4, <2>3, <2>5, <2>6, <3>1, <4>1
    <3> QED BY <2>2, <3>2
  <2>7. CASE ~(s > n)
    <3>1. s + 1 \in (i + 1)..(n + 1)
      BY <1>3, <2>2, <2>7
    <3>2. PICK x : x = F[s + 1] /\ x \in Seq(Seq(C)) /\ G[s + 1] = x \o << a >>
      BY <1>6, <3>1
    <3>3. F[i] = << p >> \o x /\ G[i] = << p >> \o (x \o << a >>)
      BY <2>3, <2>5, <2>7, <3>2
    <3>4. << p >> \in Seq(Seq(C)) /\ << a >> \in Seq(Seq(C))
      BY <2>2
    <3>5. << p >> \o (x \o << a >>) = (<< p >> \o x) \o << a >> /\ << p >> \o x \in Seq(Seq(C))
      <4> DEFINE D == Seq(C)
      <4>1. << p >> \in Seq(D) /\ << a >> \in Seq(D) /\ x \in Seq(D)
        BY <3>2, <3>4
      <4> HIDE DEF D
      <4>2. << p >> \o (x \o << a >>) = (<< p >> \o x) \o << a >> /\ << p >> \o x \in Seq(D)
        BY <4>1
      <4> QED BY <4>2 DEF D
    <3> QED BY <3>3, <3>5
  <2> QED BY <2>6, <2>7
<1> HIDE DEF P
<1>7. ASSUME NEW m \in Nat, \A k \in 0..(m - 1) : k \in T PROVE m \in T
  <2> SUFFICES ASSUME m <= n PROVE P(n + 1 - m)
    OBVIOUS
  <2>1. n + 1 - m \in 1..(n + 1)
    BY <1>3
  <2>2. ASSUME NEW j \in (n + 1 - m + 1)..(n + 1) PROVE P(j)
    <3>1. n + 1 - j \in 0..(m - 1) /\ n + 1 - (n + 1 - j) = j /\ n + 1 - j <= n
      BY <1>3
    <3>2. n + 1 - j \in T
      BY <1>7, <3>1
    <3> QED BY <3>1, <3>2
  <2> QED BY <1>6, <2>1, <2>2
<1> HIDE DEF T
<1>8. Nat \subseteq T
  BY <1>7, StrongInduction
<1>9. P(1)
  <2>1. n \in T /\ n + 1 - n = 1 /\ n <= n
    BY <1>3, <1>8
  <2> QED BY <2>1 DEF T
<1>10. F[1] \o << a >> = Append(F[1], a)
  <2> DEFINE D == Seq(C)
  <2>1. F[1] \in Seq(D) /\ a \in D
    BY <1>9 DEF P
  <2> HIDE DEF D
  <2> QED BY <2>1
<1> QED BY <1>9, <1>10, PartsIs DEF P, F, G, u

\* A product that did not wrap around is the product.
LEMMA TenfoldIs ==
  ASSUME NEW p \in 1..WordLimit, Tenfold(p) \div 10 = p
  PROVE  Tenfold(p) = 10 * p
<1>1. PICK l, t : l = WordLimit /\ t = Tenfold(p)
  OBVIOUS
<1>2. l \in Nat \ {0} /\ p \in Nat \ {0} /\ p * 10 \in Nat
  BY <1>1, WordLimitType
<1>3. t \in Nat /\ t <= p * 10
  <2>1. t = (p * 10) % l
    BY <1>1 DEF Tenfold
  <2>2. PICK n \in Nat : n = p * 10
    BY <1>2
  <2>3. n % l \in Nat /\ n % l <= n
    BY ONLY <1>2, <2>2
  <2> QED BY <2>1, <2>2, <2>3
<1>4. t \div 10 = p
  BY <1>1
<1>5. t >= 10 * p
  BY ONLY <1>2, <1>3, <1>4
<1> QED BY <1>1, <1>2, <1>3, <1>5

\* The last power of ten before the id, and no power is left out.
LEMMA TenfoldStops ==
  ASSUME NEW id \in Nat, id < WordLimit, NEW p \in 1..WordLimit, ~Further(p, id)
  PROVE  id < 10 * p
<1>1. PICK l, t : l = WordLimit /\ t = Tenfold(p)
  OBVIOUS
<1>2. l \in Nat \ {0} /\ p \in Nat \ {0} /\ id < l
  BY <1>1, WordLimitType
<1>3. t = (p * 10) % l
  BY <1>1 DEF Tenfold
<1>4. ~(t <= id /\ t \div 10 = p)
  BY <1>1 DEF Further
<1>5. CASE p * 10 >= l
  BY ONLY <1>2, <1>5
<1>6. CASE p * 10 < l
  <2>1. PICK n \in Nat : n = p * 10
    BY <1>2
  <2>2. n % l = n
    BY ONLY <1>2, <1>6, <2>1
  <2>3. t = n
    BY <1>3, <2>1, <2>2
  <2>4. n \div 10 = p
    BY ONLY <1>2, <2>1
  <2> QED BY ONLY <1>2, <1>4, <2>1, <2>3, <2>4
<1> QED BY <1>2, <1>5, <1>6

\* What a function that climbs is at one place.
LEMMA ClimbsAt ==
  ASSUME NEW f, NEW id, Climbs(f, id), NEW p \in 1..WordLimit
  PROVE  f[p] = IF Further(p, id) THEN f[Tenfold(p)] ELSE p
<1> DEFINE h == [q \in 1..WordLimit |-> IF Further(q, id) THEN f[Tenfold(q)] ELSE q]
<1>1. f = h
  BY DEF Climbs
<1>2. h[p] = IF Further(p, id) THEN f[Tenfold(p)] ELSE p
  OBVIOUS
<1> HIDE DEF h
<1> QED BY <1>1, <1>2

\* The power of ten of the first digit of an id: 10^k, with k + 1 digits.
Leads(p, id, k) ==
  p = TenTo(k) /\ id < TenTo(k + 1) /\ (k = 0 \/ TenTo(k) <= id)

\* Ten to one more.
LEMMA TenNext ==
  ASSUME NEW k \in Nat
  PROVE  TenTo(k) \in Nat \ {0} /\ TenTo(k + 1) = 10 * TenTo(k)
BY TenIs

\* Each power of ten that is not above the id leads there.
LEMMA ClimbsToLead ==
  ASSUME NEW id \in Nat, id < WordLimit, NEW f, Climbs(f, id),
         NEW j \in Nat, TenTo(j) <= WordLimit, j = 0 \/ TenTo(j) <= id
  PROVE  \E k \in Nat : Leads(f[TenTo(j)], id, k)
<1> DEFINE Good(p) == \A i \in Nat : p = TenTo(i) /\ (i = 0 \/ p <= id)
                                       => \E k \in Nat : Leads(f[p], id, k)
           T == { m \in Nat : m < WordLimit => Good(WordLimit - m) }
<1>1. ASSUME NEW m \in Nat, \A k \in 0..(m - 1) : k \in T PROVE m \in T
  <2> SUFFICES ASSUME m < WordLimit PROVE Good(WordLimit - m)
    OBVIOUS
  <2>1. PICK p \in 1..WordLimit : p = WordLimit - m
    BY WordLimitType
  <2> SUFFICES ASSUME NEW i \in Nat, p = TenTo(i), i = 0 \/ p <= id
               PROVE  \E k \in Nat : Leads(f[p], id, k)
    BY <2>1
  <2>2. f[p] = IF Further(p, id) THEN f[Tenfold(p)] ELSE p
    BY ClimbsAt
  <2>3. TenTo(i + 1) = 10 * p
    BY TenNext
  <2>4. CASE ~Further(p, id)
    <3>1. id < 10 * p
      BY <2>4, TenfoldStops
    <3> QED BY <2>2, <2>3, <2>4, <3>1 DEF Leads
  <2>5. CASE Further(p, id)
    <3>1. Tenfold(p) = 10 * p /\ Tenfold(p) <= id /\ Tenfold(p) \in 1..WordLimit /\ p < Tenfold(p)
      BY <2>5, TenfoldIs, TenfoldGrows DEF Further
    <3>2. PICK t \in 1..WordLimit : t = Tenfold(p) /\ p < t /\ t <= id /\ t = 10 * p
      BY <3>1
    <3>3. WordLimit - t \in 0..(m - 1) /\ WordLimit - (WordLimit - t) = t /\ WordLimit - t < WordLimit
      BY <2>1, <3>2, WordLimitType
    <3>4. Good(t)
      <4> HIDE DEF Good
      <4>1. WordLimit - t \in T
        BY <1>1, <3>3
      <4> QED BY <3>3, <4>1
    <3>5. t = TenTo(i + 1) /\ i + 1 \in Nat
      BY <2>3, <3>2
    <3>6. \E k \in Nat : Leads(f[t], id, k)
      BY <3>2, <3>4, <3>5
    <3> QED BY <2>2, <2>5, <3>2, <3>6
  <2> QED BY <2>4, <2>5
<1>2. Nat \subseteq T
  <2> HIDE DEF T
  <2> QED BY <1>1, StrongInduction
<1>3. PICK p \in 1..WordLimit : p = TenTo(j)
  BY TenNext, WordLimitType
<1>4. WordLimit - p \in Nat /\ WordLimit - p < WordLimit /\ WordLimit - (WordLimit - p) = p
  BY WordLimitType
<1>5. Good(p)
  <2> HIDE DEF Good
  <2> QED BY <1>2, <1>4
<1> QED BY <1>3, <1>5

\* Scale finds it.
LEMMA ScaleLeads ==
  ASSUME NEW id \in Nat, id < WordLimit
  PROVE  \E k \in Nat : Leads(Scale(id), id, k)
<1> DEFINE F == CHOOSE f : Climbs(f, id)
<1>1. Climbs(F, id)
  BY ClimberExists, Zenon
<1> HIDE DEF F
<1>2. TenTo(0) = 1 /\ 0 \in Nat /\ 1 <= WordLimit
  BY TenIs, WordLimitType
<1>3. \E k \in Nat : Leads(F[TenTo(0)], id, k)
  BY <1>1, <1>2, ClimbsToLead
<1> QED BY <1>2, <1>3, ScaleIs DEF F

\* Nothing and a digit.
LEMMA ConcatNothing ==
  ASSUME NEW d
  PROVE  << >> \o << d >> = << d >> /\ << d >> \o << >> = << d >>
OBVIOUS

\* The digits that are written from a power of ten on.
Tells(text, id, k) ==
  /\ text \in Seq(Digits) /\ Len(text) = k + 1
  /\ ReadNumber(text) = id % TenTo(k + 1)

\* A digit and what is behind it.
LEMMA DigitAndRest ==
  ASSUME NEW id \in Nat, NEW p \in Nat \ {0}
  PROVE  ((id \div p) % 10) * p + (id % p) = id % (10 * p)
<1>1. PICK q \in Nat, r \in Nat : q = id \div p /\ r = id % p /\ id = q * p + r /\ r < p
  OBVIOUS
<1>2. PICK u \in Nat, d \in Nat : u = q \div 10 /\ d = q % 10 /\ q = 10 * u + d /\ d <= 9
  OBVIOUS
<1>3. PICK a \in Nat, b \in Nat : a = u * p /\ b = d * p
  OBVIOUS
<1>4. q * p = 10 * a + b
  BY ONLY <1>2, <1>3, p \in Nat
<1>5. b <= 9 * p
  BY ONLY <1>2, <1>3, p \in Nat
<1>6. id = 10 * a + b + r /\ b + r < 10 * p /\ b + r \in Nat
  BY <1>1, <1>4, <1>5
<1>7. PICK m \in Nat \ {0} : m = 10 * p
  OBVIOUS
<1>8. id = u * m + (b + r)
  <2>1. u * m = 10 * a
    BY ONLY <1>2, <1>3, <1>7, p \in Nat
  <2> QED BY <1>6, <2>1
<1>9. PICK c \in Nat : c = b + r /\ c < m
  BY <1>6, <1>7
<1>10. (u * m + c) % m = c
  BY ONLY <1>9, u \in Nat, m \in Nat \ {0}
<1>11. id % m = c
  BY <1>8, <1>9, <1>10
<1> QED BY <1>1, <1>2, <1>3, <1>7, <1>9, <1>11

\* One digit.
LEMMA ReadDigit ==
  ASSUME NEW d \in Digits
  PROVE  ReadNumber(<< d >>) = d - ZERO /\ << d >> \in Seq(Digits) /\ Len(<< d >>) = 1
<1>1. << >> \in Seq(Digits) /\ Len(<< >>) = 0
  OBVIOUS
<1>2. \A i \in 1..Len(<< >>) : << >>[i] = ZERO
  BY <1>1
<1>3. ReadNumber(<< >>) = 0
  BY <1>1, <1>2, ReadZeros, Zenon
<1>4. ReadNumber(<< >> \o << d >>) = 10 * ReadNumber(<< >>) + (d - ZERO)
  BY <1>1, ReadAppend
<1>5. << >> \o << d >> = << d >> /\ << d >> \in Seq(Digits) /\ Len(<< d >>) = 1
  BY ConcatNothing
<1>6. PICK r : r = ReadNumber(<< >>)
  OBVIOUS
<1>7. 10 * r + (d - ZERO) = d - ZERO
  BY <1>3, <1>6 DEF Digits, ZERO
<1> QED BY <1>4, <1>5, <1>6, <1>7

\* They tell the number behind that power.
LEMMA DividerTells ==
  ASSUME NEW id \in Nat, NEW f, Divides(f, id), NEW k \in Nat, TenTo(k) <= WordLimit
  PROVE  Tells(f[TenTo(k)], id, k)
<1> DEFINE T == { m \in Nat : TenTo(m) <= WordLimit => Tells(f[TenTo(m)], id, m) }
<1>0. f[0] = << >>
  <2>1. 0 \in 0..WordLimit
    BY WordLimitType
  <2>2. f[0] = IF 0 = 0 THEN << >> ELSE << DigitAt(id, 0) >> \o f[0 \div 10]
    BY <2>1, DividesAt
  <2> QED BY <2>2
<1>1. 0 \in T
  <2>1. TenTo(0) = 1 /\ TenTo(0 + 1) = 10 /\ 1 \in 0..WordLimit
    BY TenIs, WordLimitType
  <2>2. PICK d \in Digits : d = DigitAt(id, 1)
    BY DigitType
  <2>3. PICK p \in Nat \ {0} : p = 1
    OBVIOUS
  <2>3a. p \in 0..WordLimit
    BY <2>1, <2>3
  <2>3b. f[p] = IF p = 0 THEN << >> ELSE << DigitAt(id, p) >> \o f[p \div 10]
    BY <2>3a, DividesAt
  <2>3c. f[p] = << DigitAt(id, p) >> \o f[p \div 10]
    BY <2>3b
  <2>4. f[1] = << d >>
    <3>1. << d >> \o << >> = << d >>
      BY ConcatNothing
    <3>2. 1 \div 10 = 0
      OBVIOUS
    <3>3. f[1 \div 10] = << >>
      BY <1>0, <3>2
    <3>4. f[1] = << DigitAt(id, 1) >> \o f[1 \div 10]
      BY <2>3, <2>3c, Zenon
    <3>5. f[1] = << d >> \o << >>
      BY <2>2, <3>3, <3>4, Zenon
    <3> QED BY <3>1, <3>5, Zenon
  <2>5. d - ZERO = id % 10
    BY <2>2 DEF DigitAt, ZERO
  <2>6. ReadNumber(<< d >>) = d - ZERO /\ << d >> \in Seq(Digits) /\ Len(<< d >>) = 1
    BY ReadDigit
  <2>7. Tells(f[TenTo(0)], id, 0)
    <3> HIDE DEF T
    <3>1. f[TenTo(0)] = << d >>
      BY <2>1, <2>4, Zenon
    <3>2. ReadNumber(<< d >>) = id % TenTo(0 + 1)
      BY <2>1, <2>5, <2>6, Zenon
    <3>3. Tells(<< d >>, id, 0)
      BY <2>6, <3>2 DEF Tells
    <3> QED BY <3>1, <3>3, Zenon
  <2> QED BY <2>7
<1>2. ASSUME NEW m \in Nat, m \in T PROVE m + 1 \in T
  <2> SUFFICES ASSUME TenTo(m + 1) <= WordLimit PROVE Tells(f[TenTo(m + 1)], id, m + 1)
    OBVIOUS
  <2>1. PICK p \in Nat \ {0} : p = TenTo(m)
    BY TenNext
  <2>2. TenTo(m + 1) = 10 * p /\ TenTo(m + 1 + 1) = 10 * TenTo(m + 1)
    BY <2>1, TenNext
  <2>3. PICK q \in Nat \ {0} : q = TenTo(m + 1) /\ q = 10 * p /\ q \div 10 = p
    BY <2>2
  <2>4. q \in 0..WordLimit /\ p <= WordLimit
    BY <2>3, WordLimitType
  <2>5. PICK s : s = f[p]
    OBVIOUS
  <2>6. Tells(s, id, m)
    BY <1>2, <2>1, <2>4, <2>5
  <2>7. s \in Seq(Digits) /\ Len(s) = m + 1 /\ ReadNumber(s) = id % q
    BY <2>3, <2>6 DEF Tells
  <2>8. PICK d \in Digits : d = DigitAt(id, q)
    BY DigitType
  <2>9. f[q] = << d >> \o s
    BY <2>3, <2>4, <2>5, <2>8, DividesAt
  <2>10. << d >> \in Seq(Digits) /\ Len(<< d >>) = 1 /\ ReadNumber(<< d >>) = d - ZERO
    BY ReadDigit
  <2>11. ReadsJoined(<< d >>, s)
    BY <2>7, <2>10, ReadJoined
  <2>12. ReadNumber(<< d >> \o s) = (d - ZERO) * q + (id % q)
    BY <2>3, <2>7, <2>10, <2>11 DEF ReadsJoined
  <2>13. d - ZERO = (id \div q) % 10
    <3>1. PICK e : e = (id \div q) % 10
      OBVIOUS
    <3>2. e \in 0..9
      BY <3>1
    <3> QED BY <2>8, <3>1, <3>2 DEF DigitAt, ZERO
  <2>14. ((id \div q) % 10) * q + (id % q) = id % (10 * q)
    BY DigitAndRest
  <2>15. ReadNumber(<< d >> \o s) = id % TenTo(m + 1 + 1)
    BY <2>2, <2>3, <2>12, <2>13, <2>14
  <2>16. << d >> \o s \in Seq(Digits) /\ Len(<< d >> \o s) = m + 1 + 1
    BY <2>7, <2>10, ConcatType
  <2> QED BY <2>3, <2>9, <2>15, <2>16 DEF Tells
<1> HIDE DEF T
<1>3. Nat \subseteq T
  BY <1>1, <1>2, Induction
<1> QED BY <1>3 DEF T

\* The id in the prefix of an address reads as the id.
LEMMA NetworkDigitsRead ==
  ASSUME NEW id \in Nat, id < WordLimit
  PROVE  /\ NetworkDigits(id) \in Seq(Digits)
         /\ IsNumeral(NetworkDigits(id)) /\ ReadNumber(NetworkDigits(id)) = id
<1> DEFINE F == CHOOSE f : Divides(f, id)
<1>1. Divides(F, id)
  BY DividerExists, Zenon
<1> HIDE DEF F
<1>2. PICK k \in Nat : Leads(Scale(id), id, k)
  BY ScaleLeads
<1>3. PICK p \in Nat \ {0} : p = TenTo(k) /\ TenTo(k + 1) = 10 * p
  BY TenNext
<1>4. p = Scale(id) /\ id < 10 * p /\ (k = 0 \/ p <= id) /\ p <= WordLimit
  BY <1>2, <1>3, ScaleType DEF Leads
<1>5. PICK s : s = F[p]
  OBVIOUS
<1>6. Tells(s, id, k)
  BY <1>1, <1>3, <1>4, <1>5, DividerTells
<1>7. id % (10 * p) = id
  <2>1. PICK m \in Nat \ {0} : m = 10 * p
    OBVIOUS
  <2>2. id % m = id
    BY ONLY <1>4, <2>1, id \in Nat, m \in Nat \ {0}
  <2> QED BY <2>1, <2>2
<1>8. s \in Seq(Digits) /\ Len(s) = k + 1 /\ ReadNumber(s) = id
  BY <1>3, <1>6, <1>7 DEF Tells
<1>9. NetworkDigits(id) = s
  BY <1>4, <1>5, NetworkDigitsIs DEF F
<1>10. s[1] = ZERO => Len(s) = 1
  <2> SUFFICES ASSUME k # 0 PROVE s[1] # ZERO
    BY <1>8
  <2>0. p \in 0..WordLimit /\ p # 0
    BY <1>4, WordLimitType
  <2>1. F[p] = IF p = 0 THEN << >> ELSE << DigitAt(id, p) >> \o F[p \div 10]
    BY <1>1, <2>0, DividesAt
  <2>2. PICK d \in Digits : d = DigitAt(id, p)
    BY DigitType
  <2>3. PICK t : t = F[p \div 10]
    OBVIOUS
  <2>4. t \in Seq(Digits)
    <3>1. p \div 10 \in 0..(p - 1)
      BY Tenth
    <3>2. p \div 10 \in 0..WordLimit
      BY <1>4, <3>1, WordLimitType
    <3> QED BY <1>1, <2>3, <3>2, DividerType
  <2>5. s[1] = d
    BY <1>5, <2>0, <2>1, <2>2, <2>3, <2>4
  <2>6. PICK q \in Nat : q = id \div p
    OBVIOUS
  <2>7. q \in 1..9
    BY ONLY <1>4, <2>6, id \in Nat, p \in Nat \ {0}, k # 0
  <2>8. q % 10 = q
    BY <2>7
  <2> QED BY <2>2, <2>5, <2>6, <2>7, <2>8 DEF DigitAt, ZERO
<1>11. IsNumeral(s)
  <2>1. s # << >> /\ DOMAIN s = 1..Len(s) /\ \A i \in 1..Len(s) : s[i] \in Digits
    BY <1>8
  <2> QED BY <1>10, <2>1 DEF IsNumeral, IsNumber, Digits
<1> QED BY <1>8, <1>9, <1>11

-----------------------------------------------------------------------------
\* The exclusive or of digits of five bits.

Bits == 0..1

\* Five bits, upper bit first.
Vectors == [1..5 -> Bits]

\* The digit that they write.
Five(s) == 16 * s[1] + 8 * s[2] + 4 * s[3] + 2 * s[4] + s[5]

\* The sum of two bits.
Xor(x, y) == (x + y) % 2

\* The sum of two vectors.
Sum2(s, t) == [i \in 1..5 |-> Xor(s[i], t[i])]

\* Bits are added without a carry.
LEMMA XorBits ==
  ASSUME NEW x \in Bits, NEW y \in Bits, NEW z \in Bits
  PROVE  /\ Xor(x, y) \in Bits /\ Xor(x, y) = Xor(y, x)
         /\ Xor(Xor(x, y), z) = Xor(x, Xor(y, z))
         /\ Xor(x, x) = 0 /\ Xor(x, 0) = x /\ Xor(0, x) = x
<1>1. x = 0 \/ x = 1
  BY DEF Bits
<1>2. y = 0 \/ y = 1
  BY DEF Bits
<1>3. z = 0 \/ z = 1
  BY DEF Bits
<1> QED BY <1>1, <1>2, <1>3 DEF Bits, Xor

\* Vectors without a bit.
Null == [i \in 1..5 |-> 0]

\* So are vectors.
LEMMA Sum2Is ==
  ASSUME NEW s \in Vectors, NEW t \in Vectors, NEW u \in Vectors
  PROVE  /\ Sum2(s, t) \in Vectors /\ Sum2(s, t) = Sum2(t, s)
         /\ Sum2(Sum2(s, t), u) = Sum2(s, Sum2(t, u))
         /\ Null \in Vectors
         /\ Sum2(s, s) = Null /\ Sum2(s, Null) = s
<1>1. \A i \in 1..5 : s[i] \in Bits /\ t[i] \in Bits /\ u[i] \in Bits
  BY DEF Vectors
<1>2. ASSUME NEW i \in 1..5
      PROVE  /\ Xor(s[i], t[i]) \in Bits /\ Xor(s[i], t[i]) = Xor(t[i], s[i])
             /\ Xor(Xor(s[i], t[i]), u[i]) = Xor(s[i], Xor(t[i], u[i]))
             /\ Xor(s[i], s[i]) = 0 /\ Xor(s[i], 0) = s[i]
  <2>1. PICK x \in Bits, y \in Bits, z \in Bits : x = s[i] /\ y = t[i] /\ z = u[i]
    BY <1>1
  <2>2. /\ Xor(x, y) \in Bits /\ Xor(x, y) = Xor(y, x)
        /\ Xor(Xor(x, y), z) = Xor(x, Xor(y, z))
        /\ Xor(x, x) = 0 /\ Xor(x, 0) = x
    BY XorBits
  <2> QED BY <2>1, <2>2, Zenon
<1>3. Null \in Vectors
  BY DEF Null, Vectors, Bits
<1>4. Sum2(s, t) \in Vectors
  BY <1>2 DEF Sum2, Vectors
<1>5. Sum2(s, t) = Sum2(t, s)
  BY <1>2 DEF Sum2
<1>6. Sum2(Sum2(s, t), u) = Sum2(s, Sum2(t, u))
  <2>1. Sum2(Sum2(s, t), u) = [i \in 1..5 |-> Xor(Xor(s[i], t[i]), u[i])]
    BY DEF Sum2
  <2>2. Sum2(s, Sum2(t, u)) = [i \in 1..5 |-> Xor(s[i], Xor(t[i], u[i]))]
    BY DEF Sum2
  <2> QED BY <1>2, <2>1, <2>2
<1>7. Sum2(s, s) = Null
  BY <1>2 DEF Sum2, Null
<1>8. Sum2(s, Null) = s
  <2>1. s = [i \in 1..5 |-> s[i]]
    BY DEF Vectors
  <2>2. Sum2(s, Null) = [i \in 1..5 |-> Xor(s[i], 0)]
    BY DEF Sum2, Null
  <2> QED BY <1>2, <2>1, <2>2
<1> QED BY <1>3, <1>4, <1>5, <1>6, <1>7, <1>8

\* a is the digit of s.
Writes(s, a) == /\ a \in Quintets /\ a = Five(s)
                /\ \A i \in 1..5 : BitOf(a, i) = s[i]

\* Five bits are those of the digit that they write.
LEMMA FiveIs ==
  ASSUME NEW s \in Vectors
  PROVE  Writes(s, Five(s))
<1>1. PICK v \in 0..1, w \in 0..1, x \in 0..1, y \in 0..1, z \in 0..1 :
        v = s[1] /\ w = s[2] /\ x = s[3] /\ y = s[4] /\ z = s[5]
  BY DEF Vectors, Bits
<1>2. PICK a : a = 16 * v + 8 * w + 4 * x + 2 * y + z
  OBVIOUS
<1>3. a \in 0..31 /\ a \in Nat
  BY <1>2
<1>4. /\ a \div 16 = v /\ a \div 8 = 2 * v + w /\ a \div 4 = 4 * v + 2 * w + x
      /\ a \div 2 = 8 * v + 4 * w + 2 * x + y
  BY <1>2
<1>5. /\ v % 2 = v /\ (2 * v + w) % 2 = w /\ (4 * v + 2 * w + x) % 2 = x
      /\ (8 * v + 4 * w + 2 * x + y) % 2 = y /\ a % 2 = z
  BY <1>2
<1>6. 2^(5 - 1) = 16 /\ 2^(5 - 2) = 8 /\ 2^(5 - 3) = 4 /\ 2^(5 - 4) = 2 /\ 2^(5 - 5) = 1
  OBVIOUS
<1>7. a \div 1 = a
  BY <1>3
<1>8. BitOf(a, 1) = v
  BY <1>4, <1>5, <1>6 DEF BitOf
<1>9. BitOf(a, 2) = w
  BY <1>4, <1>5, <1>6 DEF BitOf
<1>10. BitOf(a, 3) = x
  BY <1>4, <1>5, <1>6 DEF BitOf
<1>11. BitOf(a, 4) = y
  BY <1>4, <1>5, <1>6 DEF BitOf
<1>12. BitOf(a, 5) = z
  BY <1>5, <1>6, <1>7 DEF BitOf
<1>13. \A i \in 1..5 : i = 1 \/ i = 2 \/ i = 3 \/ i = 4 \/ i = 5
  OBVIOUS
<1>14. \A i \in 1..5 : BitOf(a, i) = s[i]
  BY <1>1, <1>8, <1>9, <1>10, <1>11, <1>12, <1>13
<1>15. a = Five(s)
  BY <1>1, <1>2 DEF Five
<1> QED BY <1>3, <1>14, <1>15 DEF Writes, Quintets

\* Half a digit, and what is left.
LEMMA Halved ==
  ASSUME NEW n \in Nat
  PROVE  n = 2 * (n \div 2) + (n % 2) /\ n \div 2 \in Nat /\ n % 2 \in 0..1
OBVIOUS

\* Every digit is written so.
LEMMA FiveExists ==
  ASSUME NEW a \in Quintets
  PROVE  \E s \in Vectors : a = Five(s)
<1>0. a \in Nat /\ a <= 31
  BY DEF Quintets
<1>1. PICK b \in Nat, z \in 0..1 : a = 2 * b + z
  BY <1>0, Halved
<1>2. PICK c \in Nat, y \in 0..1 : b = 2 * c + y
  BY Halved
<1>3. PICK d \in Nat, x \in 0..1 : c = 2 * d + x
  BY Halved
<1>4. PICK v \in Nat, w \in 0..1 : d = 2 * v + w
  BY Halved
<1>5. v \in 0..1
  BY <1>0, <1>1, <1>2, <1>3, <1>4
<1> DEFINE s == [i \in 1..5 |-> IF i = 1 THEN v ELSE IF i = 2 THEN w ELSE IF i = 3 THEN x
                                ELSE IF i = 4 THEN y ELSE z]
<1>6. s \in Vectors
  BY <1>5 DEF Vectors, Bits
<1>7. s[1] = v /\ s[2] = w /\ s[3] = x /\ s[4] = y /\ s[5] = z
  OBVIOUS
<1> HIDE DEF s
<1>8. a = Five(s)
  BY <1>1, <1>2, <1>3, <1>4, <1>5, <1>7 DEF Five
<1> QED BY <1>6, <1>8

\* The exclusive or of two digits.
Plus(a, b) == XorDigit[a][b]

\* It is taken bit by bit.
LEMMA PlusFive ==
  ASSUME NEW s \in Vectors, NEW t \in Vectors
  PROVE  Plus(Five(s), Five(t)) = Five(Sum2(s, t))
<1>1. PICK a, b : a = Five(s) /\ b = Five(t)
  OBVIOUS
<1>2. Writes(s, a) /\ Writes(t, b)
  BY <1>1, FiveIs
<1> DEFINE x(i) == (BitOf(a, i) + BitOf(b, i)) % 2
<1>3. XorDigit[a][b] = 16 * x(1) + 8 * x(2) + 4 * x(3) + 2 * x(4) + x(5)
  <2>1. a \in Quintets /\ b \in Quintets
    BY <1>2 DEF Writes
  <2> QED BY <2>1, XorIs
<1>4. \A i \in 1..5 : x(i) = Sum2(s, t)[i]
  BY <1>2 DEF Writes, Sum2, Xor
<1> HIDE DEF x
<1>5. /\ x(1) = Sum2(s, t)[1] /\ x(2) = Sum2(s, t)[2] /\ x(3) = Sum2(s, t)[3]
      /\ x(4) = Sum2(s, t)[4] /\ x(5) = Sum2(s, t)[5]
  BY <1>4
<1>6. XorDigit[a][b] = Five(Sum2(s, t))
  BY <1>3, <1>5, Zenon DEF Five
<1> QED BY <1>1, <1>6 DEF Plus

\* No bit.
LEMMA FiveNull == Null \in Vectors /\ Five(Null) = 0
<1>1. Null \in Vectors
  BY DEF Null, Vectors, Bits
<1>2. Null[1] = 0 /\ Null[2] = 0 /\ Null[3] = 0 /\ Null[4] = 0 /\ Null[5] = 0
  BY DEF Null
<1> QED BY <1>1, <1>2 DEF Five

\* The digits are a group of which every element is its own inverse.
LEMMA PlusIs ==
  ASSUME NEW a \in Quintets, NEW b \in Quintets, NEW c \in Quintets
  PROVE  /\ Plus(a, b) \in Quintets /\ Plus(a, b) = Plus(b, a)
         /\ Plus(Plus(a, b), c) = Plus(a, Plus(b, c))
         /\ Plus(a, a) = 0 /\ Plus(a, 0) = a /\ Plus(0, a) = a
<1>1. PICK s \in Vectors : a = Five(s)
  BY FiveExists
<1>2. PICK t \in Vectors : b = Five(t)
  BY FiveExists
<1>3. PICK u \in Vectors : c = Five(u)
  BY FiveExists
<1>4. Sum2(s, t) \in Vectors /\ Sum2(t, u) \in Vectors /\ Sum2(s, t) = Sum2(t, s)
  BY Sum2Is
<1>5. Plus(a, b) = Five(Sum2(s, t)) /\ Plus(b, a) = Five(Sum2(t, s)) /\ Plus(b, c) = Five(Sum2(t, u))
  BY <1>1, <1>2, <1>3, PlusFive
<1>6. Plus(a, b) \in Quintets
  BY <1>4, <1>5, FiveIs DEF Writes
<1>7. Plus(Plus(a, b), c) = Five(Sum2(Sum2(s, t), u))
  BY <1>3, <1>4, <1>5, PlusFive
<1>8. Plus(a, Plus(b, c)) = Five(Sum2(s, Sum2(t, u)))
  BY <1>1, <1>4, <1>5, PlusFive
<1>9. Plus(a, a) = 0
  BY <1>1, PlusFive, Sum2Is, FiveNull
<1>10. Plus(a, 0) = a
  BY <1>1, PlusFive, Sum2Is, FiveNull
<1>11. Plus(0, a) = a
  <2>1. Plus(0, a) = Five(Sum2(Null, s)) /\ Sum2(Null, s) = Sum2(s, Null) /\ Sum2(s, Null) = s
    BY <1>1, PlusFive, Sum2Is, FiveNull
  <2> QED BY <1>1, <2>1
<1> QED BY <1>4, <1>5, <1>6, <1>7, <1>8, <1>9, <1>10, <1>11, Sum2Is

-----------------------------------------------------------------------------
\* GF(32).

\* Doubling turns the bits round, and adds the first to the third.
Turned(s) ==
  [i \in 1..5 |-> IF i = 2 THEN Xor(s[3], s[1]) ELSE IF i = 5 THEN s[1] ELSE s[i + 1]]

LEMMA TurnedType ==
  ASSUME NEW s \in Vectors
  PROVE  /\ Turned(s) \in Vectors
         /\ Turned(s)[1] = s[2] /\ Turned(s)[2] = Xor(s[3], s[1]) /\ Turned(s)[3] = s[4]
         /\ Turned(s)[4] = s[5] /\ Turned(s)[5] = s[1]
<1>1. s[1] \in Bits /\ s[2] \in Bits /\ s[3] \in Bits /\ s[4] \in Bits /\ s[5] \in Bits
  BY DEF Vectors
<1>2. Xor(s[3], s[1]) \in Bits
  BY <1>1, XorBits
<1>3. ASSUME NEW i \in 1..5
      PROVE (IF i = 2 THEN Xor(s[3], s[1]) ELSE IF i = 5 THEN s[1] ELSE s[i + 1]) \in Bits
  <2>1. i = 2 \/ i = 5 \/ i + 1 \in 1..5
    OBVIOUS
  <2> QED BY <1>1, <1>2, <2>1 DEF Vectors
<1>4. Turned(s) \in Vectors
  BY <1>3 DEF Turned, Vectors
<1> QED BY <1>4 DEF Turned

\* What Double does.
LEMMA DoubleFive ==
  ASSUME NEW s \in Vectors
  PROVE  Double(Five(s)) = Five(Turned(s))
<1>1. PICK v \in 0..1, w \in 0..1, x \in 0..1, y \in 0..1, z \in 0..1 :
        v = s[1] /\ w = s[2] /\ x = s[3] /\ y = s[4] /\ z = s[5]
  BY DEF Vectors, Bits
<1>2. PICK a : a = Five(s)
  OBVIOUS
<1>3. a = 16 * v + 8 * w + 4 * x + 2 * y + z
  BY <1>1, <1>2, Zenon DEF Five
<1>4. Double(a) = IF a < 16 THEN 2 * a ELSE Plus(2 * a - 32, 9)
  BY DEF Double, Plus
<1>5. Five(Turned(s)) = 16 * w + 8 * Xor(x, v) + 4 * y + 2 * z + v
  BY <1>1, TurnedType, Zenon DEF Five
<1>6. CASE v = 0
  <2>1. Xor(x, v) = x
    BY <1>6 DEF Xor
  <2>2. a < 16 /\ 2 * a = 16 * w + 8 * x + 4 * y + 2 * z + v
    BY <1>3, <1>6
  <2> QED BY <1>2, <1>4, <1>5, <2>1, <2>2
<1>7. CASE v = 1
  <2> DEFINE t == [i \in 1..5 |-> IF i = 1 THEN w ELSE IF i = 2 THEN x ELSE IF i = 3 THEN y
                                  ELSE IF i = 4 THEN z ELSE 0]
             nine == [i \in 1..5 |-> IF i = 2 \/ i = 5 THEN 1 ELSE 0]
  <2>1. t \in Vectors /\ nine \in Vectors
    BY DEF Vectors, Bits
  <2>2. t[1] = w /\ t[2] = x /\ t[3] = y /\ t[4] = z /\ t[5] = 0
    OBVIOUS
  <2>3. nine[1] = 0 /\ nine[2] = 1 /\ nine[3] = 0 /\ nine[4] = 0 /\ nine[5] = 1
    OBVIOUS
  <2> HIDE DEF t, nine
  <2>4. Five(t) = 2 * a - 32 /\ ~(a < 16)
    BY <1>3, <1>7, <2>2 DEF Five
  <2>5. Five(nine) = 9
    BY <2>3 DEF Five
  <2>6. Plus(2 * a - 32, 9) = Five(Sum2(t, nine))
    BY <2>1, <2>4, <2>5, PlusFive
  <2>7. /\ Sum2(t, nine)[1] = w /\ Sum2(t, nine)[2] = Xor(x, v) /\ Sum2(t, nine)[3] = y
        /\ Sum2(t, nine)[4] = z /\ Sum2(t, nine)[5] = v
    <3>1. Xor(w, 0) = w /\ Xor(y, 0) = y /\ Xor(z, 0) = z /\ Xor(0, 1) = 1
      BY DEF Xor
    <3> QED BY <1>7, <2>2, <2>3, <3>1 DEF Sum2
  <2>8. Five(Sum2(t, nine)) = 16 * w + 8 * Xor(x, v) + 4 * y + 2 * z + v
    BY <2>7, Zenon DEF Five
  <2> QED BY <1>2, <1>4, <1>5, <2>4, <2>6, <2>8
<1>8. v = 0 \/ v = 1
  OBVIOUS
<1> QED BY <1>6, <1>7, <1>8

\* Doubling is linear.
LEMMA DoubleIs ==
  ASSUME NEW a \in Quintets, NEW b \in Quintets
  PROVE  /\ Double(a) \in Quintets /\ Double(0) = 0
         /\ Double(Plus(a, b)) = Plus(Double(a), Double(b))
<1>1. PICK s \in Vectors : a = Five(s)
  BY FiveExists
<1>2. PICK t \in Vectors : b = Five(t)
  BY FiveExists
<1>3. Turned(s) \in Vectors /\ Turned(t) \in Vectors /\ Sum2(s, t) \in Vectors
  BY TurnedType, Sum2Is
<1>4. Double(a) = Five(Turned(s)) /\ Double(b) = Five(Turned(t))
  BY <1>1, <1>2, DoubleFive
<1>5. Double(Plus(a, b)) = Five(Turned(Sum2(s, t)))
  BY <1>1, <1>2, <1>3, PlusFive, DoubleFive
<1>6. Plus(Double(a), Double(b)) = Five(Sum2(Turned(s), Turned(t)))
  BY <1>3, <1>4, PlusFive
<1>7. Turned(Sum2(s, t)) = Sum2(Turned(s), Turned(t))
  <2>1. PICK x, y : x = Turned(Sum2(s, t)) /\ y = Sum2(Turned(s), Turned(t))
    OBVIOUS
  <2>2. x \in Vectors /\ y \in Vectors
    BY <1>3, <2>1, TurnedType, Sum2Is
  <2>3. \A i \in 1..5 : s[i] \in Bits /\ t[i] \in Bits /\ Sum2(s, t)[i] = Xor(s[i], t[i])
    BY DEF Vectors, Sum2
  <2>4. \A i \in 1..5 : y[i] = Xor(Turned(s)[i], Turned(t)[i])
    BY <2>1 DEF Sum2
  <2>5. x[1] = y[1] /\ x[3] = y[3] /\ x[4] = y[4] /\ x[5] = y[5]
    BY <1>3, <2>1, <2>3, <2>4, TurnedType
  <2>6. x[2] = Xor(Xor(s[3], t[3]), Xor(s[1], t[1])) /\ y[2] = Xor(Xor(s[3], s[1]), Xor(t[3], t[1]))
    BY <1>3, <2>1, <2>3, <2>4, TurnedType
  <2>7. PICK s1 \in {0, 1}, s3 \in {0, 1}, t1 \in {0, 1}, t3 \in {0, 1} :
          s1 = s[1] /\ s3 = s[3] /\ t1 = t[1] /\ t3 = t[3]
    BY DEF Vectors, Bits
  <2>8. Xor(Xor(s3, t3), Xor(s1, t1)) = Xor(Xor(s3, s1), Xor(t3, t1))
    BY DEF Xor
  <2>9. \A i \in 1..5 : x[i] = y[i]
    <3>1. \A i \in 1..5 : i = 1 \/ i = 2 \/ i = 3 \/ i = 4 \/ i = 5
      OBVIOUS
    <3> QED BY <2>5, <2>6, <2>7, <2>8, <3>1
  <2>10. x = y
    BY <2>2, <2>9 DEF Vectors
  <2> QED BY <2>1, <2>10
<1>8. Double(a) \in Quintets
  BY <1>3, <1>4, FiveIs DEF Writes
<1>9. Double(0) = 0
  BY DEF Double
<1> QED BY <1>5, <1>6, <1>7, <1>8, <1>9

\* A digit, if a bit is set.
When(bit, a) == IF bit = 1 THEN a ELSE 0

\* It can be doubled before or afterwards.
LEMMA WhenIs ==
  ASSUME NEW bit, NEW a \in Quintets
  PROVE  When(bit, a) \in Quintets /\ Double(When(bit, a)) = When(bit, Double(a))
<1>1. 0 \in Quintets /\ Double(0) = 0
  BY DoubleIs DEF Quintets
<1> QED BY <1>1 DEF When

\* One bit of the factor c, upper bit first.
Horner(x, a, c, k) == Plus(Double(x), When((c \div 2^k) % 2, a))

\* f multiplies bit by bit.
Multiplies(f, a, c) == f = [k \in 0..5 |-> IF k = 5 THEN 0 ELSE Horner(f[k + 1], a, c, k)]

\* Product with such a function.
LEMMA ProductIs ==
  ASSUME NEW a \in Quintets, NEW c \in Quintets
  PROVE  Product[a][c] = (CHOOSE f : Multiplies(f, a, c))[0]
BY DEF Product, Multiplies, Horner, Plus, When, Quintets

\* Product, bit by bit.
LEMMA ProductSteps ==
  ASSUME NEW a \in Quintets, NEW c \in Quintets
  PROVE  \E f : /\ f[5] = 0 /\ f[0] = Product[a][c]
                /\ \A k \in 0..4 : f[k] = Horner(f[k + 1], a, c, k)
<1>1. \E f : Multiplies(f, a, c)
  <2>1. PICK x4 : x4 = Horner(0, a, c, 4)
    OBVIOUS
  <2>2. PICK x3 : x3 = Horner(x4, a, c, 3)
    OBVIOUS
  <2>3. PICK x2 : x2 = Horner(x3, a, c, 2)
    OBVIOUS
  <2>4. PICK x1 : x1 = Horner(x2, a, c, 1)
    OBVIOUS
  <2>5. PICK x0 : x0 = Horner(x1, a, c, 0)
    OBVIOUS
  <2> DEFINE f == [k \in 0..5 |-> IF k = 5 THEN 0 ELSE IF k = 4 THEN x4 ELSE IF k = 3 THEN x3
                                  ELSE IF k = 2 THEN x2 ELSE IF k = 1 THEN x1 ELSE x0]
  <2>6. f[5] = 0 /\ f[4] = x4 /\ f[3] = x3 /\ f[2] = x2 /\ f[1] = x1 /\ f[0] = x0
    OBVIOUS
  <2>7. f = [k \in 0..5 |-> f[k]]
    OBVIOUS
  <2> HIDE DEF f
  <2>8. ASSUME NEW k \in 0..5 PROVE f[k] = IF k = 5 THEN 0 ELSE Horner(f[k + 1], a, c, k)
    <3>1. k = 5 \/ k = 4 \/ k = 3 \/ k = 2 \/ k = 1 \/ k = 0
      OBVIOUS
    <3>2. 4 + 1 = 5 /\ 3 + 1 = 4 /\ 2 + 1 = 3 /\ 1 + 1 = 2 /\ 0 + 1 = 1
      OBVIOUS
    <3> QED BY <2>1, <2>2, <2>3, <2>4, <2>5, <2>6, <3>1, <3>2
  <2>9. f = [k \in 0..5 |-> IF k = 5 THEN 0 ELSE Horner(f[k + 1], a, c, k)]
    BY <2>7, <2>8
  <2> QED BY <2>9 DEF Multiplies
<1> DEFINE F == CHOOSE f : Multiplies(f, a, c)
<1>2. Multiplies(F, a, c)
  BY <1>1, Zenon
<1>3. F[0] = Product[a][c]
  BY ProductIs
<1> HIDE DEF F
<1>4. ASSUME NEW k \in 0..5 PROVE F[k] = IF k = 5 THEN 0 ELSE Horner(F[k + 1], a, c, k)
  <2> DEFINE h == [j \in 0..5 |-> IF j = 5 THEN 0 ELSE Horner(F[j + 1], a, c, j)]
  <2>1. F = h
    BY <1>2 DEF Multiplies
  <2>2. h[k] = IF k = 5 THEN 0 ELSE Horner(F[k + 1], a, c, k)
    OBVIOUS
  <2> HIDE DEF h
  <2> QED BY <2>1, <2>2
<1>5. F[5] = 0
  BY <1>4
<1>6. \A k \in 0..4 : F[k] = Horner(F[k + 1], a, c, k)
  <2>1. \A k \in 0..4 : k \in 0..5 /\ k # 5
    OBVIOUS
  <2> QED BY <1>4, <2>1
<1> QED BY <1>3, <1>5, <1>6

\* The sum of five digits, from the left.
Total(a, b, c, d, e) == Plus(Plus(Plus(Plus(a, b), c), d), e)

\* The order does not matter.
Reverses(a, b, c, d, e) == Total(a, b, c, d, e) = Total(e, d, c, b, a)

LEMMA TotalReversed ==
  ASSUME NEW a \in Quintets, NEW b \in Quintets, NEW c \in Quintets, NEW d \in Quintets,
         NEW e \in Quintets
  PROVE  Reverses(a, b, c, d, e)
<1>1. PICK ab \in Quintets, de \in Quintets, cd \in Quintets, cde \in Quintets, abc \in Quintets :
        /\ ab = Plus(a, b) /\ de = Plus(e, d) /\ abc = Plus(ab, c)
        /\ cde = Plus(de, c) /\ cd = Plus(c, d)
  BY PlusIs
<1>2. Plus(Plus(abc, d), e) = Plus(abc, Plus(d, e)) /\ Plus(d, e) = de
  BY <1>1, PlusIs
<1>3. Plus(abc, de) = Plus(ab, Plus(c, de)) /\ Plus(c, de) = cde
  BY <1>1, PlusIs
<1>4. Plus(ab, cde) = Plus(cde, ab) /\ Plus(cde, ab) = Plus(cde, Plus(b, a)) /\ ab = Plus(b, a)
  BY <1>1, PlusIs
<1>5. Plus(cde, Plus(b, a)) = Plus(Plus(cde, b), a)
  BY <1>1, PlusIs
<1> QED BY <1>1, <1>2, <1>3, <1>4, <1>5 DEF Total, Reverses

\* a1, a2, a3 and a4 are a, doubled again and again.
Distributes(a, c, a1, a2, a3, a4) ==
  a1 = Double(a) /\ a2 = Double(a1) /\ a3 = Double(a2) /\ a4 = Double(a3) =>
    Product[a][c] = Total(When((c \div 2^0) % 2, a), When((c \div 2^1) % 2, a1),
                          When((c \div 2^2) % 2, a2), When((c \div 2^3) % 2, a3),
                          When((c \div 2^4) % 2, a4))

\* A product is the sum of what each bit of the second factor contributes.
LEMMA ProductTotal ==
  ASSUME NEW a \in Quintets, NEW c \in Quintets,
         NEW a1, NEW a2, NEW a3, NEW a4
  PROVE  Distributes(a, c, a1, a2, a3, a4)
<1> SUFFICES ASSUME a1 = Double(a), a2 = Double(a1), a3 = Double(a2), a4 = Double(a3)
             PROVE  Product[a][c] = Total(When((c \div 2^0) % 2, a), When((c \div 2^1) % 2, a1),
                                          When((c \div 2^2) % 2, a2), When((c \div 2^3) % 2, a3),
                                          When((c \div 2^4) % 2, a4))
  BY Zenon DEF Distributes
<1> DEFINE B(k) == (c \div 2^k) % 2
<1>1. a1 \in Quintets /\ a2 \in Quintets /\ a3 \in Quintets /\ a4 \in Quintets
  BY DoubleIs
<1>2. PICK f : /\ f[5] = 0 /\ f[0] = Product[a][c]
               /\ \A k \in 0..4 : f[k] = Horner(f[k + 1], a, c, k)
  BY ProductSteps
<1>3. /\ f[4] = Plus(Double(f[5]), When(B(4), a)) /\ f[3] = Plus(Double(f[4]), When(B(3), a))
      /\ f[2] = Plus(Double(f[3]), When(B(2), a)) /\ f[1] = Plus(Double(f[2]), When(B(1), a))
      /\ f[0] = Plus(Double(f[1]), When(B(0), a))
  <2>1. /\ f[4] = Horner(f[4 + 1], a, c, 4) /\ f[3] = Horner(f[3 + 1], a, c, 3)
        /\ f[2] = Horner(f[2 + 1], a, c, 2) /\ f[1] = Horner(f[1 + 1], a, c, 1)
        /\ f[0] = Horner(f[0 + 1], a, c, 0)
    BY <1>2
  <2>2. 4 + 1 = 5 /\ 3 + 1 = 4 /\ 2 + 1 = 3 /\ 1 + 1 = 2 /\ 0 + 1 = 1
    OBVIOUS
  <2> QED BY <2>1, <2>2, Zenon DEF Horner
<1> HIDE DEF B
<1>4. PICK w0 \in Quintets, w1 \in Quintets, w2 \in Quintets, w3 \in Quintets, w4 \in Quintets :
        /\ w0 = When(B(0), a) /\ w1 = When(B(1), a) /\ w2 = When(B(2), a)
        /\ w3 = When(B(3), a) /\ w4 = When(B(4), a)
  BY WhenIs
<1>5. f[4] = w4
  <2>1. Double(0) = 0
    BY DoubleIs
  <2>2. Plus(0, w4) = w4
    BY PlusIs
  <2> QED BY <1>2, <1>3, <1>4, <2>1, <2>2
<1>6. f[3] = Plus(Double(w4), w3)
  BY <1>3, <1>4, <1>5
<1>7. PICK x4 \in Quintets, x3 \in Quintets : x4 = Double(w4) /\ x3 = Double(w3)
  BY DoubleIs
<1>8. f[2] = Plus(Plus(Double(x4), x3), w2)
  <2>1. Double(Plus(x4, w3)) = Plus(Double(x4), Double(w3))
    BY DoubleIs
  <2> QED BY <1>3, <1>4, <1>6, <1>7, <2>1
<1>9. PICK y4 \in Quintets, y3 \in Quintets, y2 \in Quintets :
        y4 = Double(x4) /\ y3 = Double(x3) /\ y2 = Double(w2)
  BY DoubleIs
<1>10. f[1] = Plus(Plus(Plus(Double(y4), y3), y2), w1)
  <2>1. Plus(y4, x3) \in Quintets
    BY PlusIs
  <2>2. Double(Plus(Plus(y4, x3), w2)) = Plus(Double(Plus(y4, x3)), Double(w2))
    BY <2>1, DoubleIs
  <2>3. Double(Plus(y4, x3)) = Plus(Double(y4), Double(x3))
    BY DoubleIs
  <2> QED BY <1>3, <1>4, <1>8, <1>9, <2>2, <2>3
<1>11. PICK z4 \in Quintets, z3 \in Quintets, z2 \in Quintets, z1 \in Quintets :
         z4 = Double(y4) /\ z3 = Double(y3) /\ z2 = Double(y2) /\ z1 = Double(w1)
  BY DoubleIs
<1>12. f[0] = Total(Double(z4), z3, z2, z1, w0)
  <2>1. PICK p \in Quintets, q \in Quintets : p = Plus(z4, y3) /\ q = Plus(p, y2)
    BY PlusIs
  <2>2. Double(Plus(q, w1)) = Plus(Double(q), Double(w1))
    BY DoubleIs
  <2>3. Double(q) = Plus(Double(p), Double(y2))
    BY <2>1, DoubleIs
  <2>4. Double(p) = Plus(Double(z4), Double(y3))
    BY <2>1, DoubleIs
  <2>5. f[0] = Plus(Double(Plus(q, w1)), w0)
    BY <1>3, <1>4, <1>10, <1>11, <2>1
  <2> QED BY <1>11, <2>2, <2>3, <2>4, <2>5 DEF Total
<1>13. PICK t4 \in Quintets : t4 = Double(z4)
  BY DoubleIs
<1>14. t4 = When(B(4), a4)
  <2>1. x4 = When(B(4), a1)
    BY <1>4, <1>7, WhenIs
  <2>2. y4 = When(B(4), a2)
    BY <1>1, <1>9, <2>1, WhenIs
  <2>3. z4 = When(B(4), a3)
    BY <1>1, <1>11, <2>2, WhenIs
  <2> QED BY <1>1, <1>13, <2>3, WhenIs
<1>15. z3 = When(B(3), a3)
  <2>1. x3 = When(B(3), a1)
    BY <1>4, <1>7, WhenIs
  <2>2. y3 = When(B(3), a2)
    BY <1>1, <1>9, <2>1, WhenIs
  <2> QED BY <1>1, <1>11, <2>2, WhenIs
<1>16. z2 = When(B(2), a2)
  <2>1. y2 = When(B(2), a1)
    BY <1>4, <1>9, WhenIs
  <2> QED BY <1>1, <1>11, <2>1, WhenIs
<1>17. z1 = When(B(1), a1)
  BY <1>4, <1>11, WhenIs
<1>18. Total(t4, z3, z2, z1, w0) = Total(w0, z1, z2, z3, t4)
  <2>1. Reverses(t4, z3, z2, z1, w0)
    BY TotalReversed, Zenon
  <2> QED BY <2>1 DEF Reverses
<1>19. Product[a][c] = Total(When(B(0), a), When(B(1), a1), When(B(2), a2), When(B(3), a3), When(B(4), a4))
  BY <1>2, <1>4, <1>12, <1>13, <1>14, <1>15, <1>16, <1>17, <1>18
<1> QED BY <1>19, Zenon DEF B

\* What Double makes of a number.
LEMMA DoubleValue ==
  ASSUME NEW a \in Quintets
  PROVE  Double(a) = IF a < 16 THEN 2 * a
                     ELSE IF (a \div 4) % 2 = 0 THEN 2 * a - 23 ELSE 2 * a - 39
<1>1. PICK s \in Vectors : a = Five(s)
  BY FiveExists
<1>2. PICK v \in 0..1, w \in 0..1, x \in 0..1, y \in 0..1, z \in 0..1 :
        v = s[1] /\ w = s[2] /\ x = s[3] /\ y = s[4] /\ z = s[5]
  BY DEF Vectors, Bits
<1>3. a = 16 * v + 8 * w + 4 * x + 2 * y + z
  BY <1>1, <1>2, Zenon DEF Five
<1>4. Double(a) = 16 * w + 8 * Xor(x, v) + 4 * y + 2 * z + v
  <2>1. Five(Turned(s)) = 16 * w + 8 * Xor(x, v) + 4 * y + 2 * z + v
    BY <1>2, TurnedType, Zenon DEF Five
  <2> QED BY <1>1, <2>1, DoubleFive
<1>5. a \div 4 = 4 * v + 2 * w + x /\ (a \div 4) % 2 = x
  BY <1>3
<1>6. Xor(x, v) = IF v = 0 THEN x ELSE 1 - x
  BY DEF Xor
<1> QED BY <1>3, <1>4, <1>5, <1>6

\* The generators are the first one, doubled again and again.
Doubled(k) == \A i \in 1..8 : Generators[k + 1][i] = Double(Generators[k][i])

\* The places of a checksum.
LEMMA EightPlaces == \A i \in 1..8 : i = 1 \/ i = 2 \/ i = 3 \/ i = 4 \/ i = 5 \/ i = 6 \/ i = 7 \/ i = 8
OBVIOUS

LEMMA GeneratorsDouble == Doubled(1) /\ Doubled(2) /\ Doubled(3) /\ Doubled(4)
<1>1. Doubled(1)
  <2>1. /\ Double(19) = 15 /\ Double(3) = 6 /\ Double(25) = 27 /\ Double(11) = 22 /\ Double(1) = 2
    <3>1. 19 \in Quintets /\ 3 \in Quintets /\ 25 \in Quintets /\ 11 \in Quintets /\ 1 \in Quintets
      BY DEF Quintets
    <3> QED BY <3>1, DoubleValue
  <2>2. 1 + 1 = 2
    OBVIOUS
  <2>3. /\ Generators[1][1] = 19 /\ Generators[2][1] = 15 /\ Generators[1][2] = 3 /\ Generators[2][2] = 6
        /\ Generators[1][3] = 25 /\ Generators[2][3] = 27 /\ Generators[1][4] = 11 /\ Generators[2][4] = 22
        /\ Generators[1][5] = 25 /\ Generators[2][5] = 27 /\ Generators[1][6] = 3 /\ Generators[2][6] = 6
        /\ Generators[1][7] = 19 /\ Generators[2][7] = 15 /\ Generators[1][8] = 1 /\ Generators[2][8] = 2
    BY DEF Generators
  <2> QED BY <2>1, <2>2, <2>3, EightPlaces DEF Doubled
<1>2. Doubled(2)
  <2>1. /\ Double(15) = 30 /\ Double(6) = 12 /\ Double(27) = 31 /\ Double(22) = 5 /\ Double(2) = 4
    <3>1. 15 \in Quintets /\ 6 \in Quintets /\ 27 \in Quintets /\ 22 \in Quintets /\ 2 \in Quintets
      BY DEF Quintets
    <3> QED BY <3>1, DoubleValue
  <2>2. 2 + 1 = 3
    OBVIOUS
  <2>3. /\ Generators[2][1] = 15 /\ Generators[3][1] = 30 /\ Generators[2][2] = 6 /\ Generators[3][2] = 12
        /\ Generators[2][3] = 27 /\ Generators[3][3] = 31 /\ Generators[2][4] = 22 /\ Generators[3][4] = 5
        /\ Generators[2][5] = 27 /\ Generators[3][5] = 31 /\ Generators[2][6] = 6 /\ Generators[3][6] = 12
        /\ Generators[2][7] = 15 /\ Generators[3][7] = 30 /\ Generators[2][8] = 2 /\ Generators[3][8] = 4
    BY DEF Generators
  <2> QED BY <2>1, <2>2, <2>3, EightPlaces DEF Doubled
<1>3. Doubled(3)
  <2>1. /\ Double(30) = 21 /\ Double(12) = 24 /\ Double(31) = 23 /\ Double(5) = 10 /\ Double(4) = 8
    <3>1. 30 \in Quintets /\ 12 \in Quintets /\ 31 \in Quintets /\ 5 \in Quintets /\ 4 \in Quintets
      BY DEF Quintets
    <3> QED BY <3>1, DoubleValue
  <2>2. 3 + 1 = 4
    OBVIOUS
  <2>3. /\ Generators[3][1] = 30 /\ Generators[4][1] = 21 /\ Generators[3][2] = 12 /\ Generators[4][2] = 24
        /\ Generators[3][3] = 31 /\ Generators[4][3] = 23 /\ Generators[3][4] = 5 /\ Generators[4][4] = 10
        /\ Generators[3][5] = 31 /\ Generators[4][5] = 23 /\ Generators[3][6] = 12 /\ Generators[4][6] = 24
        /\ Generators[3][7] = 30 /\ Generators[4][7] = 21 /\ Generators[3][8] = 4 /\ Generators[4][8] = 8
    BY DEF Generators
  <2> QED BY <2>1, <2>2, <2>3, EightPlaces DEF Doubled
<1>4. Doubled(4)
  <2>1. /\ Double(21) = 3 /\ Double(24) = 25 /\ Double(23) = 7 /\ Double(10) = 20 /\ Double(8) = 16
    <3>1. 21 \in Quintets /\ 24 \in Quintets /\ 23 \in Quintets /\ 10 \in Quintets /\ 8 \in Quintets
      BY DEF Quintets
    <3> QED BY <3>1, DoubleValue
  <2>2. 4 + 1 = 5
    OBVIOUS
  <2>3. /\ Generators[4][1] = 21 /\ Generators[5][1] = 3 /\ Generators[4][2] = 24 /\ Generators[5][2] = 25
        /\ Generators[4][3] = 23 /\ Generators[5][3] = 7 /\ Generators[4][4] = 10 /\ Generators[5][4] = 20
        /\ Generators[4][5] = 23 /\ Generators[5][5] = 7 /\ Generators[4][6] = 24 /\ Generators[5][6] = 25
        /\ Generators[4][7] = 21 /\ Generators[5][7] = 3 /\ Generators[4][8] = 8 /\ Generators[5][8] = 16
    BY DEF Generators
  <2> QED BY <2>1, <2>2, <2>3, EightPlaces DEF Doubled
<1> QED BY <1>1, <1>2, <1>3, <1>4

\* One step of Feedback, at one place.
LEMMA MixedAt ==
  ASSUME NEW s \in Checksums, NEW c, NEW k \in 1..5, NEW i \in 1..8
  PROVE  Mixed(s, c, k)[i] = Plus(s[i], When((c \div 2^(k - 1)) % 2, Generators[k][i]))
<1>1. s[i] \in Quintets /\ Generators[k][i] \in Quintets /\ DOMAIN s = 1..8
  <2> HIDE DEF Quintets
  <2>1. Generators[k] \in Checksums
    BY FixedDigits
  <2> QED BY <2>1 DEF Checksums
<1>2. XorDigits(s, Generators[k])[i] = Plus(s[i], Generators[k][i])
  BY <1>1 DEF XorDigits, Plus
<1>3. Plus(s[i], 0) = s[i]
  BY <1>1, PlusIs
<1> QED BY <1>2, <1>3 DEF Mixed, When

\* What is shifted out brings back its multiple of the generator.
LEMMA FeedbackMultiplies ==
  ASSUME NEW c \in Quintets
  PROVE  Feedback[c] = Times(c, Generator)
<1>1. PICK f : /\ f[0] = Zeros /\ f[5] = Feedback[c]
               /\ \A k \in 1..5 : f[k] = Mixed(f[k - 1], c, k)
  BY FeedbackSteps
<1>2. \A k \in 1..5, s \in Checksums : Mixed(s, c, k) \in Checksums
  <2>1. ASSUME NEW k \in 1..5, NEW s \in Checksums PROVE Mixed(s, c, k) \in Checksums
    <3>1. XorDigits(s, Generators[k]) \in Checksums
      BY FixedDigits, XorsType
    <3> HIDE DEF Checksums
    <3> QED BY <3>1 DEF Mixed
  <2> QED BY <2>1
<1>3. /\ f[1] = Mixed(f[0], c, 1) /\ f[2] = Mixed(f[1], c, 2) /\ f[3] = Mixed(f[2], c, 3)
      /\ f[4] = Mixed(f[3], c, 4) /\ f[5] = Mixed(f[4], c, 5)
  <2>1. /\ f[1] = Mixed(f[1 - 1], c, 1) /\ f[2] = Mixed(f[2 - 1], c, 2) /\ f[3] = Mixed(f[3 - 1], c, 3)
        /\ f[4] = Mixed(f[4 - 1], c, 4) /\ f[5] = Mixed(f[5 - 1], c, 5)
    BY <1>1
  <2>2. 1 - 1 = 0 /\ 2 - 1 = 1 /\ 3 - 1 = 2 /\ 4 - 1 = 3 /\ 5 - 1 = 4
    OBVIOUS
  <2> QED BY <2>1, <2>2, Zenon
<1>4. f[0] \in Checksums /\ f[1] \in Checksums /\ f[2] \in Checksums /\ f[3] \in Checksums
        /\ f[4] \in Checksums /\ f[5] \in Checksums
  <2>1. f[0] \in Checksums
    BY <1>1, FixedDigits
  <2> HIDE DEF Checksums
  <2> QED BY <1>2, <1>3, <2>1
<1> DEFINE B(k) == (c \div 2^k) % 2
<1>5. ASSUME NEW i \in 1..8
      PROVE  Feedback[c][i] = Product[Generator[i]][c]
  <2>1. Generators[1][i] = Generator[i]
    BY DEF Generators, Generator
  <2>2. Generator[i] \in Quintets
    <3>1. Generators[1] \in Checksums
      BY FixedDigits
    <3> HIDE DEF Quintets
    <3> QED BY <2>1, <3>1 DEF Checksums
  <2>3. /\ Generators[2][i] = Double(Generators[1][i]) /\ Generators[3][i] = Double(Generators[2][i])
        /\ Generators[4][i] = Double(Generators[3][i]) /\ Generators[5][i] = Double(Generators[4][i])
    <3>1. 1 + 1 = 2 /\ 2 + 1 = 3 /\ 3 + 1 = 4 /\ 4 + 1 = 5
      OBVIOUS
    <3> QED BY <3>1, GeneratorsDouble, Zenon DEF Doubled
  <2>4. Product[Generator[i]][c] = Total(When(B(0), Generator[i]), When(B(1), Generators[2][i]),
                               When(B(2), Generators[3][i]), When(B(3), Generators[4][i]),
                               When(B(4), Generators[5][i]))
    <3>1. Distributes(Generator[i], c, Generators[2][i], Generators[3][i], Generators[4][i], Generators[5][i])
      BY <2>2, ProductTotal, Zenon
    <3> QED BY <2>1, <2>3, <3>1, Zenon DEF Distributes
  <2>5. /\ f[1][i] = Plus(f[0][i], When(B(0), Generators[1][i]))
        /\ f[2][i] = Plus(f[1][i], When(B(1), Generators[2][i]))
        /\ f[3][i] = Plus(f[2][i], When(B(2), Generators[3][i]))
        /\ f[4][i] = Plus(f[3][i], When(B(3), Generators[4][i]))
        /\ f[5][i] = Plus(f[4][i], When(B(4), Generators[5][i]))
    <3> HIDE DEF B
    <3>1. f[1][i] = Plus(f[0][i], When(B(0), Generators[1][i]))
      <4>1. 1 \in 1..5 /\ 1 - 1 = 0 /\ f[0] \in Checksums
        BY <1>4
      <4>2. Mixed(f[0], c, 1)[i] = Plus(f[0][i], When((c \div 2^(1 - 1)) % 2, Generators[1][i]))
        BY <4>1, MixedAt, ZenonT(30)
      <4> QED BY <1>3, <4>1, <4>2, Zenon DEF B
    <3>2. f[2][i] = Plus(f[1][i], When(B(1), Generators[2][i]))
      <4>1. 2 \in 1..5 /\ 2 - 1 = 1 /\ f[1] \in Checksums
        BY <1>4
      <4>2. Mixed(f[1], c, 2)[i] = Plus(f[1][i], When((c \div 2^(2 - 1)) % 2, Generators[2][i]))
        BY <4>1, MixedAt, ZenonT(30)
      <4> QED BY <1>3, <4>1, <4>2, Zenon DEF B
    <3>3. f[3][i] = Plus(f[2][i], When(B(2), Generators[3][i]))
      <4>1. 3 \in 1..5 /\ 3 - 1 = 2 /\ f[2] \in Checksums
        BY <1>4
      <4>2. Mixed(f[2], c, 3)[i] = Plus(f[2][i], When((c \div 2^(3 - 1)) % 2, Generators[3][i]))
        BY <4>1, MixedAt, ZenonT(30)
      <4> QED BY <1>3, <4>1, <4>2, Zenon DEF B
    <3>4. f[4][i] = Plus(f[3][i], When(B(3), Generators[4][i]))
      <4>1. 4 \in 1..5 /\ 4 - 1 = 3 /\ f[3] \in Checksums
        BY <1>4
      <4>2. Mixed(f[3], c, 4)[i] = Plus(f[3][i], When((c \div 2^(4 - 1)) % 2, Generators[4][i]))
        BY <4>1, MixedAt, ZenonT(30)
      <4> QED BY <1>3, <4>1, <4>2, Zenon DEF B
    <3>5. f[5][i] = Plus(f[4][i], When(B(4), Generators[5][i]))
      <4>1. 5 \in 1..5 /\ 5 - 1 = 4 /\ f[4] \in Checksums
        BY <1>4
      <4>2. Mixed(f[4], c, 5)[i] = Plus(f[4][i], When((c \div 2^(5 - 1)) % 2, Generators[5][i]))
        BY <4>1, MixedAt, ZenonT(30)
      <4> QED BY <1>3, <4>1, <4>2, Zenon DEF B
    <3> QED BY <3>1, <3>2, <3>3, <3>4, <3>5
  <2>6. f[0][i] = 0
    BY <1>1, EightPlaces DEF Zeros
  <2>7. Plus(0, When(B(0), Generator[i])) = When(B(0), Generator[i])
    BY <2>2, WhenIs, PlusIs
  <2> HIDE DEF B
  <2>8. f[1][i] = When(B(0), Generator[i])
    BY <2>1, <2>5, <2>6, <2>7
  <2> QED BY <1>1, <2>4, <2>5, <2>8, Zenon DEF Total
<1>6. Feedback[c] \in Checksums
  BY FeedbackType
<1>7. DOMAIN Generator = 1..8
  BY DEF Generator
<1>8. Feedback[c] = [i \in 1..8 |-> Feedback[c][i]]
  BY <1>6 DEF Checksums
<1>9. Times(c, Generator) = [i \in 1..8 |-> Product[Generator[i]][c]]
  BY <1>7 DEF Times
<1> QED BY <1>5, <1>8, <1>9

\* One step of a division.
Reduced(r, d) == XorDigits(Append(Tail(r), d), Times(Head(r), Generator))

\* f is the remainder so far.
Reduces(f, data) ==
  f = [n \in 0..Len(data) |-> IF n = 0 THEN Zeros ELSE Reduced(f[n - 1], data[n])]

\* Remainder with such a function.
LEMMA RemainderIs ==
  ASSUME NEW data
  PROVE  Remainder(data) = (CHOOSE f : Reduces(f, data))[Len(data)]
BY DEF Remainder, Reduces, Reduced, Zeros

\* A checksum as a sequence.
LEMMA ChecksumSeq ==
  ASSUME NEW s \in Checksums
  PROVE  s \in Seq(Quintets) /\ Len(s) = 8 /\ Head(s) = s[1] /\ s[1] \in Quintets
<1> HIDE DEF Quintets
<1>1. s \in Seq(Quintets) /\ Len(s) = 8
  BY SeqOfFunction DEF Checksums
<1>2. Head(s) = s[1]
  BY <1>1
<1> QED BY <1>1, <1>2 DEF Checksums

\* It is a step of Polymod.
LEMMA ReducedIs ==
  ASSUME NEW s \in Checksums, NEW d
  PROVE  Reduced(s, d) = Shifted(s, d)
<1>1. Head(s) \in Quintets
  BY ChecksumSeq
<1>2. Feedback[Head(s)] = Times(Head(s), Generator)
  BY <1>1, FeedbackMultiplies
<1> QED BY <1>2 DEF Reduced, Shifted

\* A place of the rest of a sequence.
LEMMA TailCell ==
  ASSUME NEW S, NEW s \in Seq(S), NEW i \in 1..(Len(s) - 1)
  PROVE  Tail(s)[i] = s[i + 1]
OBVIOUS

\* A place of a sequence with one more value.
LEMMA AppendCell ==
  ASSUME NEW S, NEW s \in Seq(S), NEW d \in S, NEW i \in 1..Len(s)
  PROVE  Append(s, d)[i] = s[i]
OBVIOUS

\* A digit comes in at the end, and the others move up.
LEMMA ComesIn ==
  ASSUME NEW s \in Checksums, NEW d \in Quintets
  PROVE  /\ Append(Tail(s), d) \in Checksums
         /\ \A i \in 1..8 : Append(Tail(s), d)[i] = IF i < 8 THEN s[i + 1] ELSE d
<1> HIDE DEF Quintets
<1>1. s \in Seq(Quintets) /\ Len(s) = 8
  BY ChecksumSeq
<1>2. PICK t \in Seq(Quintets) : t = Tail(s) /\ Len(t) = 7 /\ \A i \in 1..7 : t[i] = s[i + 1]
  <2>1. PICK n : n = Len(s)
    OBVIOUS
  <2>2. Tail(s) \in Seq(Quintets) /\ Len(Tail(s)) = 7
    BY <1>1
  <2>3. ASSUME NEW i \in 1..7 PROVE Tail(s)[i] = s[i + 1]
    <3>1. 1..7 = 1..(Len(s) - 1)
      BY <1>1
    <3> QED BY <1>1, <3>1, TailCell
  <2> QED BY <2>2, <2>3
<1>3. PICK u : u = Append(t, d)
  OBVIOUS
<1>4. u \in Seq(Quintets) /\ Len(u) = 8
  BY <1>2, <1>3, AppendType
<1>5. ASSUME NEW i \in 1..7 PROVE u[i] = t[i]
  <2>1. 1..7 = 1..Len(t)
    BY <1>2
  <2> QED BY <1>2, <1>3, <2>1, AppendCell
<1>6. u[8] = d
  BY <1>2, <1>3
<1>7. u \in Checksums
  <2>1. u \in [1..Len(u) -> Quintets]
    BY <1>4, FunctionOfSeq
  <2> QED BY <1>4, <2>1 DEF Checksums
<1>8. \A i \in 1..8 : u[i] = IF i < 8 THEN s[i + 1] ELSE d
  <2> SUFFICES ASSUME NEW i \in 1..8 PROVE u[i] = IF i < 8 THEN s[i + 1] ELSE d
    OBVIOUS
  <2>1. CASE i \in 1..7
    <3>1. u[i] = t[i] /\ t[i] = s[i + 1]
      BY <1>2, <1>5, <2>1
    <3> QED BY <2>1, <3>1
  <2>2. CASE i = 8
    BY <1>6, <2>2
  <2> QED BY <2>1, <2>2
<1> QED BY <1>2, <1>3, <1>7, <1>8

\* The first step from nothing.
LEMMA FirstReduced == Reduced(Zeros, 1) = One
<1>1. Zeros \in Checksums /\ Head(Zeros) = 0 /\ 0 \in Quintets
  BY FixedDigits DEF Zeros, Quintets
<1>2. PICK s : s = Append(Tail(Zeros), 1)
  OBVIOUS
<1>3. s = One
  <2>1. 1 \in Quintets
    BY DEF Quintets
  <2>2. s \in Checksums /\ \A i \in 1..8 : s[i] = IF i < 8 THEN Zeros[i + 1] ELSE 1
    BY <1>1, <1>2, <2>1, ComesIn
  <2>3. \A i \in 1..8 : Zeros[i] = 0 /\ One[i] = IF i < 8 THEN 0 ELSE 1
    BY EightPlaces DEF Zeros, One
  <2>4. \A i \in 1..8 : s[i] = One[i]
    <3>1. \A i \in 1..8 : i < 8 => i + 1 \in 1..8
      OBVIOUS
    <3> QED BY <2>2, <2>3, <3>1
  <2> QED BY <2>2, <2>4, FixedDigits DEF Checksums
<1>4. Feedback[0] = Zeros
  <2>1. PICK f : /\ f[0] = Zeros /\ f[5] = Feedback[0]
                 /\ \A k \in 1..5 : f[k] = Mixed(f[k - 1], 0, k)
    BY <1>1, FeedbackSteps
  <2>2. ASSUME NEW k \in 1..5 PROVE f[k] = f[k - 1]
    <3>1. PICK p \in Nat \ {0} : p = 2^(k - 1)
      BY PowerType
    <3>2. (0 \div p) % 2 = 0
      OBVIOUS
    <3>3. Mixed(f[k - 1], 0, k) = f[k - 1]
      BY <3>1, <3>2 DEF Mixed
    <3> QED BY <2>1, <3>3
  <2>3. f[1] = f[1 - 1] /\ f[2] = f[2 - 1] /\ f[3] = f[3 - 1] /\ f[4] = f[4 - 1] /\ f[5] = f[5 - 1]
    BY <2>2
  <2>4. 1 - 1 = 0 /\ 2 - 1 = 1 /\ 3 - 1 = 2 /\ 4 - 1 = 3 /\ 5 - 1 = 4
    OBVIOUS
  <2> QED BY <2>1, <2>3, <2>4
<1>5. XorDigits(One, Zeros) = One
  <2>1. One \in Checksums
    BY FixedDigits
  <2>2. ASSUME NEW i \in 1..8 PROVE XorDigit[One[i]][Zeros[i]] = One[i]
    <3>1. Zeros[i] = 0
      BY EightPlaces DEF Zeros
    <3>2. One[i] \in Quintets
      BY <2>1 DEF Checksums
    <3>3. Plus(One[i], 0) = One[i]
      BY <3>2, PlusIs
    <3> QED BY <3>1, <3>3 DEF Plus
  <2>3. One = [i \in 1..8 |-> One[i]] /\ DOMAIN One = 1..8
    BY <2>1 DEF Checksums
  <2>4. XorDigits(One, Zeros) = [i \in 1..8 |-> XorDigit[One[i]][Zeros[i]]]
    BY <2>3 DEF XorDigits
  <2> QED BY <2>2, <2>3, <2>4
<1>6. Reduced(Zeros, 1) = Shifted(Zeros, 1)
  BY <1>1, ReducedIs
<1>7. Shifted(Zeros, 1) = XorDigits(s, Feedback[0])
  BY <1>1, <1>2 DEF Shifted
<1> QED BY <1>3, <1>4, <1>5, <1>6, <1>7

\* What such functions are at one place.
LEMMA ReducesAt ==
  ASSUME NEW data, NEW f, Reduces(f, data), NEW n \in 0..Len(data)
  PROVE  f[n] = IF n = 0 THEN Zeros ELSE Reduced(f[n - 1], data[n])
<1> DEFINE h == [m \in 0..Len(data) |-> IF m = 0 THEN Zeros ELSE Reduced(f[m - 1], data[m])]
<1>1. f = h
  BY DEF Reduces
<1>2. h[n] = IF n = 0 THEN Zeros ELSE Reduced(f[n - 1], data[n])
  OBVIOUS
<1> HIDE DEF h
<1> QED BY <1>1, <1>2

\* A one ahead of the data leaves the state from which Polymod starts.
LEMMA RemainderShifts ==
  ASSUME NEW data \in Seq(Quintets), NEW f, Shifts(f, data)
  PROVE  Remainder(<< 1 >> \o data) = f[Len(data)]
<1>1. PICK n \in Nat : n = Len(data)
  OBVIOUS
<1>2. PICK code : code = << 1 >> \o data
  OBVIOUS
<1>3. Len(code) = n + 1 /\ code[1] = 1 /\ \A m \in 1..n : code[m + 1] = data[m]
  <2> HIDE DEF Quintets
  <2> QED BY <1>1, <1>2
<1> DEFINE g == [m \in 0..(n + 1) |-> IF m = 0 THEN Zeros ELSE f[m - 1]]
<1>4. \A m \in 0..n : /\ f[m] \in Checksums
                      /\ f[m] = IF m = 0 THEN One ELSE Shifted(f[m - 1], data[m])
  BY <1>1, ShiftsType, ShiftsAt
<1>5. ASSUME NEW m \in 0..(n + 1)
      PROVE  g[m] = IF m = 0 THEN Zeros ELSE Reduced(g[m - 1], code[m])
  <2>1. CASE m = 0
    BY <2>1
  <2>2. CASE m = 1
    <3>1. g[0] = Zeros /\ g[1] = f[0] /\ f[0] = One
      BY <1>4
    <3>2. 1 - 1 = 0
      OBVIOUS
    <3> HIDE DEF g
    <3> QED BY <1>3, <2>2, <3>1, <3>2, FirstReduced
  <2>3. CASE m # 0 /\ m # 1
    <3>1. PICK k \in 1..n : k = m - 1 /\ m = k + 1 /\ k - 1 \in 0..n
      BY <2>3
    <3>2. g[m] = f[k] /\ g[k] = f[k - 1]
      BY <3>1
    <3>3. f[k] = Shifted(f[k - 1], data[k]) /\ f[k - 1] \in Checksums
      BY <1>4, <3>1
    <3>4. Reduced(f[k - 1], data[k]) = Shifted(f[k - 1], data[k])
      BY <3>3, ReducedIs
    <3>5. code[m] = data[k]
      BY <1>3, <3>1
    <3> HIDE DEF g
    <3> QED BY <2>3, <3>1, <3>2, <3>3, <3>4, <3>5
  <2> QED BY <2>1, <2>2, <2>3
<1>6. Reduces(g, code)
  <2>1. g = [m \in 0..(n + 1) |-> g[m]]
    OBVIOUS
  <2> HIDE DEF g
  <2>2. g = [m \in 0..(n + 1) |-> IF m = 0 THEN Zeros ELSE Reduced(g[m - 1], code[m])]
    BY <1>5, <2>1
  <2> QED BY <1>3, <2>2 DEF Reduces
<1>7. g[n + 1] = f[n]
  OBVIOUS
<1> HIDE DEF g
<1> DEFINE F == CHOOSE h : Reduces(h, code)
<1>8. Reduces(F, code)
  BY <1>6, Zenon
<1>9. Remainder(code) = F[n + 1]
  BY <1>3, RemainderIs
<1> HIDE DEF F
<1> DEFINE T == { m \in Nat : m <= n + 1 => F[m] = g[m] }
<1>10. 0 \in T
  <2>1. 0 \in 0..Len(code)
    BY <1>3
  <2>2. F[0] = Zeros /\ g[0] = Zeros
    BY <1>6, <1>8, <2>1, ReducesAt
  <2> QED BY <2>2
<1>11. ASSUME NEW m \in Nat, m \in T PROVE m + 1 \in T
  <2> SUFFICES ASSUME m + 1 <= n + 1 PROVE F[m + 1] = g[m + 1]
    OBVIOUS
  <2>1. PICK k \in 0..Len(code) : k = m + 1 /\ k # 0 /\ k - 1 = m
    BY <1>3
  <2>2. F[k] = Reduced(F[k - 1], code[k]) /\ g[k] = Reduced(g[k - 1], code[k])
    BY <1>6, <1>8, <2>1, ReducesAt
  <2>3. F[m] = g[m]
    BY <1>11
  <2> QED BY <2>1, <2>2, <2>3
<1> HIDE DEF T
<1>12. Nat \subseteq T
  BY <1>10, <1>11, Induction
<1>13. F[n + 1] = g[n + 1]
  BY <1>12 DEF T
<1> QED BY <1>1, <1>2, <1>7, <1>9, <1>13

\* The states depend on the data so far only.
LEMMA ShiftersAgree ==
  ASSUME NEW a, NEW b, NEW f, NEW g, NEW n \in Nat, Len(a) \in Nat, Len(b) \in Nat,
         n <= Len(a), n <= Len(b), Agree(a, b, n), Shifts(f, a), Shifts(g, b)
  PROVE  f[n] = g[n]
<1> DEFINE T == { m \in Nat : m <= n => f[m] = g[m] }
<1>1. 0 \in T
  <2>1. 0 \in 0..Len(a) /\ 0 \in 0..Len(b)
    OBVIOUS
  <2>2. f[0] = One /\ g[0] = One
    BY <2>1, ShiftsAt
  <2> QED BY <2>2
<1>2. ASSUME NEW m \in Nat, m \in T PROVE m + 1 \in T
  <2> SUFFICES ASSUME m + 1 <= n PROVE f[m + 1] = g[m + 1]
    OBVIOUS
  <2>1. PICK k \in 1..n : k = m + 1 /\ k # 0 /\ k - 1 = m /\ k \in 0..Len(a) /\ k \in 0..Len(b)
    OBVIOUS
  <2>2. f[k] = Shifted(f[k - 1], a[k]) /\ g[k] = Shifted(g[k - 1], b[k])
    BY <2>1, ShiftsAt
  <2>3. f[m] = g[m] /\ a[k] = b[k]
    BY <1>2 DEF Agree
  <2> QED BY <2>1, <2>2, <2>3
<1> HIDE DEF T
<1>3. Nat \subseteq T
  BY <1>1, <1>2, Induction
<1> QED BY <1>3 DEF T

\* A step, at one place.
LEMMA ShiftedAt ==
  ASSUME NEW s \in Checksums, NEW d \in Quintets, NEW i \in 1..8
  PROVE  /\ Shifted(s, d)[i] = Plus(IF i < 8 THEN s[i + 1] ELSE d, Feedback[s[1]][i])
         /\ Feedback[s[1]][i] \in Quintets
<1> HIDE DEF Quintets
<1>1. s \in Seq(Quintets) /\ Len(s) = 8 /\ Head(s) = s[1] /\ s[1] \in Quintets
  BY ChecksumSeq
<1>2. PICK u : u = Append(Tail(s), d)
  OBVIOUS
<1>3. u \in Checksums /\ u[i] = IF i < 8 THEN s[i + 1] ELSE d
  BY <1>2, ComesIn
<1>4. DOMAIN u = 1..8
  BY <1>3 DEF Checksums
<1>5. Shifted(s, d)[i] = Plus(u[i], Feedback[s[1]][i])
  BY <1>1, <1>2, <1>4 DEF Shifted, XorDigits, Plus
<1>6. Feedback[s[1]] \in Checksums
  BY <1>1, FeedbackType
<1>7. Feedback[s[1]][i] \in Quintets
  BY <1>6 DEF Checksums
<1> QED BY <1>3, <1>5, <1>7

\* The state with the first j digits of a checksum, as the state with zeros.
Padded(c, j, i) == IF i > 8 - j THEN c[i - (8 - j)] ELSE 0

Differs(f, g, c, m, j) == \A i \in 1..8 : g[m + j][i] = Plus(f[m + j][i], Padded(c, j, i))

\* Each digit is added where it comes in.
LEMMA DigitsComeIn ==
  ASSUME NEW x \in Seq(Quintets), NEW c \in Checksums, NEW f, NEW g,
         Shifts(f, x \o Zeros), Shifts(g, x \o c),
         NEW j \in 0..8
  PROVE  Differs(f, g, c, Len(x), j)
<1>1. PICK m \in Nat : m = Len(x)
  OBVIOUS
<1>2. PICK a \in Seq(Quintets), b \in Seq(Quintets) : a = x \o Zeros /\ b = x \o c
  <2> HIDE DEF Quintets
  <2>1. Zeros \in Seq(Quintets) /\ c \in Seq(Quintets)
    BY FixedDigits, ChecksumSeq
  <2>2. x \o Zeros \in Seq(Quintets)
    BY <2>1, ConcatType
  <2>3. x \o c \in Seq(Quintets)
    BY <2>1, ConcatType
  <2> QED BY <2>2, <2>3
<1>3. /\ Len(a) = m + 8 /\ Len(b) = m + 8 /\ Agree(a, b, m)
      /\ \A k \in 1..8 : a[m + k] = 0 /\ b[m + k] = c[k] /\ c[k] \in Quintets
  <2> HIDE DEF Quintets
  <2>1. Zeros \in Seq(Quintets) /\ c \in Seq(Quintets) /\ Len(Zeros) = 8 /\ Len(c) = 8
    BY FixedDigits, ChecksumSeq
  <2>2. Joins(a, x, Zeros) /\ Joins(b, x, c)
    BY <1>2, <2>1, Concatenated
  <2>3. \A k \in 1..8 : Zeros[k] = 0
    BY EightPlaces DEF Zeros
  <2>4. \A k \in 1..8 : c[k] \in Quintets
    BY DEF Checksums
  <2> QED BY <1>1, <2>1, <2>2, <2>3, <2>4 DEF Joins, Agree
<1>4. Shifts(f, a) /\ Shifts(g, b)
  BY <1>2
<1>5. \A k \in 0..8 : f[m + k] \in Checksums /\ g[m + k] \in Checksums
  <2>1. \A k \in 0..8 : m + k \in 0..(m + 8)
    BY ONLY <1>1
  <2>2. Len(a) = m + 8 /\ Len(b) = m + 8
    BY <1>3
  <2>3. \A k \in 0..8 : m + k \in 0..Len(a) /\ m + k \in 0..Len(b)
    BY <2>1, <2>2, Zenon
  <2> QED BY <1>4, <2>3, ShiftsType
<1> DEFINE T == { k \in Nat : k <= 8 => Differs(f, g, c, m, k) }
<1>6. 0 \in T
  <2>1. f[m] = g[m]
    <3>1. Len(a) \in Nat /\ Len(b) \in Nat /\ m <= Len(a) /\ m <= Len(b) /\ Agree(a, b, m)
      BY <1>3
    <3> QED BY <1>4, <3>1, ShiftersAgree
  <2>2. ASSUME NEW i \in 1..8 PROVE g[m + 0][i] = Plus(f[m + 0][i], Padded(c, 0, i))
    <3>1. Padded(c, 0, i) = 0 /\ m + 0 = m
      BY DEF Padded
    <3>2. f[m + 0][i] \in Quintets
      <4>1. f[m + 0] \in Checksums
        BY <1>5
      <4> HIDE DEF Quintets
      <4> QED BY <4>1 DEF Checksums
    <3>3. Plus(f[m + 0][i], 0) = f[m + 0][i]
      BY <3>2, PlusIs
    <3> QED BY <2>1, <3>1, <3>3
  <2> QED BY <2>2 DEF Differs
<1>7. ASSUME NEW k \in Nat, k \in T PROVE k + 1 \in T
  <2> SUFFICES ASSUME k + 1 <= 8 PROVE Differs(f, g, c, m, k + 1)
    OBVIOUS
  <2>1. Differs(f, g, c, m, k)
    BY <1>7
  <2>2. PICK s \in Checksums, t \in Checksums : s = f[m + k] /\ t = g[m + k]
    <3>1. k \in 0..8
      OBVIOUS
    <3> HIDE DEF Checksums
    <3> QED BY <1>5, <3>1
  <2>3. \A i \in 1..8 : t[i] = Plus(s[i], Padded(c, k, i))
    BY <2>1, <2>2 DEF Differs
  <2>4. \A i \in 1..8 : s[i] \in Quintets /\ t[i] \in Quintets /\ c[i] \in Quintets
    <3> HIDE DEF Quintets
    <3> QED BY DEF Checksums
  <2>5. t[1] = s[1]
    <3>1. Padded(c, k, 1) = 0
      BY DEF Padded
    <3>2. PICK y \in Quintets : y = s[1]
      BY <2>4
    <3>3. Plus(y, 0) = y
      BY PlusIs
    <3>4. t[1] = Plus(s[1], Padded(c, k, 1))
      BY <2>3
    <3> QED BY <3>1, <3>2, <3>3, <3>4
  <2>6. PICK d \in Quintets : d = c[k + 1]
    <3>1. k + 1 \in 1..8
      OBVIOUS
    <3>2. c[k + 1] \in Quintets
      BY <2>4, <3>1, Zenon
    <3> QED BY <3>2, Zenon
  <2>7. PICK n \in Nat : n = m + (k + 1) /\ n - 1 = m + k /\ n \in 0..Len(a) /\ n \in 0..Len(b) /\ n # 0
    <3>1. PICK q \in Nat : q = m + (k + 1)
      OBVIOUS
    <3>2. q - 1 = m + k /\ q # 0 /\ q <= m + 8
      BY <3>1
    <3>3. q \in 0..Len(a) /\ q \in 0..Len(b)
      BY <1>3, <3>2
    <3> QED BY <3>1, <3>2, <3>3
  <2>8. a[n] = 0 /\ b[n] = d
    <3>1. k + 1 \in 1..8
      OBVIOUS
    <3> QED BY <1>3, <2>6, <2>7, <3>1
  <2>9. f[n] = Shifted(s, 0) /\ g[n] = Shifted(t, d)
    BY <1>4, <2>2, <2>7, <2>8, ShiftsAt
  <2>10. 0 \in Quintets
    BY DEF Quintets
  <2>11. ASSUME NEW i \in 1..8 PROVE g[n][i] = Plus(f[n][i], Padded(c, k + 1, i))
    <3>1. PICK e \in Quintets : e = Feedback[s[1]][i]
      BY <2>10, ShiftedAt
    <3>2. f[n][i] = Plus(IF i < 8 THEN s[i + 1] ELSE 0, e)
      BY <2>9, <2>10, <3>1, ShiftedAt
    <3>3. g[n][i] = Plus(IF i < 8 THEN t[i + 1] ELSE d, e)
      BY <2>5, <2>9, <3>1, ShiftedAt
    <3>4. CASE i = 8
      <4>1. Padded(c, k + 1, i) = d
        BY <2>6, <3>4 DEF Padded
      <4>2. Plus(0, e) = e /\ Plus(d, e) = Plus(e, d)
        BY PlusIs
      <4> QED BY <3>2, <3>3, <3>4, <4>1, <4>2
    <3>5. CASE i < 8
      <4>1. PICK p : p = Padded(c, k, i + 1) /\ p = Padded(c, k + 1, i)
        BY <3>5 DEF Padded
      <4>2. p \in Quintets
        <5>1. PICK h : h = i + 1 /\ h \in 1..8
          BY <3>5
        <5>2. CASE h > 8 - k
          <6>1. h - (8 - k) \in 1..8 /\ p = c[h - (8 - k)]
            BY <4>1, <5>1, <5>2 DEF Padded
          <6> QED BY <2>4, <6>1, Zenon
        <5>3. CASE ~(h > 8 - k)
          BY <2>10, <4>1, <5>1, <5>3, Zenon DEF Padded
        <5> QED BY <5>2, <5>3
      <4>3. PICK y \in Quintets : y = s[i + 1]
        BY <2>4, <3>5
      <4>4. t[i + 1] = Plus(y, p)
        BY <2>3, <3>5, <4>1, <4>3
      <4>5. Plus(Plus(y, p), e) = Plus(y, Plus(p, e)) /\ Plus(p, e) = Plus(e, p)
        BY <4>2, PlusIs
      <4>6. Plus(Plus(y, e), p) = Plus(y, Plus(e, p))
        BY <4>2, PlusIs
      <4> QED BY <3>2, <3>3, <3>5, <4>1, <4>3, <4>4, <4>5, <4>6
    <3> QED BY <3>4, <3>5
  <2> QED BY <2>7, <2>11 DEF Differs
<1> HIDE DEF T
<1>8. Nat \subseteq T
  BY <1>6, <1>7, Induction
<1>9. Differs(f, g, c, m, j)
  BY <1>8 DEF T
<1> QED BY <1>1, <1>9

\* The checksum leaves the remainder one.
LEMMA ChecksumLeavesOne ==
  ASSUME NEW x \in Seq(Quintets)
  PROVE  Remainder(<< 1 >> \o (x \o Polymod(x \o Zeros))) = One
<1>1. PICK z \in Seq(Quintets) : z = x \o Zeros
  <2> HIDE DEF Quintets
  <2>1. Zeros \in Seq(Quintets)
    BY FixedDigits, ChecksumSeq
  <2>2. x \o Zeros \in Seq(Quintets)
    BY <2>1, ConcatType
  <2> QED BY <2>2
<1>2. PICK c \in Checksums : c = Polymod(z)
  BY PolymodType
<1>3. PICK y \in Seq(Quintets) : y = x \o c /\ Len(y) = Len(x) + 8 /\ Len(z) = Len(x) + 8
  <2> HIDE DEF Quintets
  <2>1. c \in Seq(Quintets) /\ Len(c) = 8 /\ Zeros \in Seq(Quintets) /\ Len(Zeros) = 8
    BY ChecksumSeq, FixedDigits
  <2> QED BY <1>1, <2>1, ConcatType
<1> DEFINE F == CHOOSE f : Shifts(f, z)
<1>4. Shifts(F, z)
  BY ShifterExists, Zenon
<1>5. c = XorDigits(F[Len(z)], One)
  BY <1>2, PolymodIs
<1> HIDE DEF F
<1>6. PICK g : Shifts(g, y)
  BY ShifterExists
<1>7. PICK n \in Nat : n = Len(x)
  OBVIOUS
<1>8. Differs(F, g, c, n, 8)
  BY <1>1, <1>3, <1>4, <1>6, <1>7, DigitsComeIn
<1>9. PICK s \in Checksums, t \in Checksums : s = F[n + 8] /\ t = g[n + 8]
  <2>1. n + 8 \in 0..Len(z) /\ n + 8 \in 0..Len(y)
    BY <1>3, <1>7
  <2> QED BY <1>4, <1>6, <2>1, ShiftsType
<1>10. c = XorDigits(s, One)
  BY <1>3, <1>5, <1>7, <1>9
<1>11. ASSUME NEW i \in 1..8 PROVE t[i] = One[i]
  <2>1. s[i] \in Quintets /\ One[i] \in Quintets /\ DOMAIN s = 1..8
    <3> HIDE DEF Quintets
    <3> QED BY FixedDigits DEF Checksums
  <2>2. c[i] = Plus(s[i], One[i])
    BY <1>10, <2>1 DEF XorDigits, Plus
  <2>3. Padded(c, 8, i) = c[i]
    <3>1. i > 8 - 8 /\ i - (8 - 8) = i
      OBVIOUS
    <3> QED BY <3>1 DEF Padded
  <2>4. t[i] = Plus(s[i], c[i])
    BY <1>8, <1>9, <2>3 DEF Differs
  <2>5. Plus(s[i], Plus(s[i], One[i])) = Plus(Plus(s[i], s[i]), One[i])
    BY <2>1, PlusIs
  <2>6. Plus(s[i], s[i]) = 0 /\ Plus(0, One[i]) = One[i]
    BY <2>1, PlusIs
  <2> QED BY <2>2, <2>4, <2>5, <2>6
<1>12. t = One
  <2>1. t = [i \in 1..8 |-> t[i]] /\ One = [i \in 1..8 |-> One[i]]
    BY FixedDigits DEF Checksums
  <2> QED BY <1>11, <2>1
<1>13. Remainder(<< 1 >> \o y) = g[Len(y)]
  BY <1>6, RemainderShifts
<1> QED BY <1>1, <1>2, <1>3, <1>7, <1>9, <1>12, <1>13

-----------------------------------------------------------------------------
\* The bits of the payload.

\* The bit k of a number, the lowest is bit 0.
Place(n, k) == (n \div 2^k) % 2

\* Two divisions.
LEMMA DivideTwice ==
  ASSUME NEW n \in Nat, NEW p \in Nat \ {0}, NEW q \in Nat \ {0}
  PROVE  (n \div p) \div q = n \div (p * q)
<1>1. PICK a \in Nat, r \in 0..(p - 1) : a = n \div p /\ n = p * a + r
  OBVIOUS
<1>2. PICK b \in Nat, s \in 0..(q - 1) : b = a \div q /\ a = q * b + s
  OBVIOUS
<1>3. PICK m \in Nat \ {0} : m = p * q
  OBVIOUS
<1>4. p * a = m * b + p * s
  <2>1. p * (q * b + s) = (p * q) * b + p * s
    OBVIOUS
  <2> QED BY <1>2, <1>3, <2>1
<1>5. PICK t \in Nat : t = p * s + r
  OBVIOUS
<1>6. t < m
  <2>1. p * s <= p * (q - 1)
    OBVIOUS
  <2>2. p * (q - 1) = m - p
    BY <1>3
  <2> QED BY <1>5, <2>1, <2>2
<1>7. n = m * b + t
  BY <1>1, <1>4, <1>5
<1>8. n \div m = b
  BY <1>3, <1>5, <1>6, <1>7
<1> QED BY <1>1, <1>2, <1>3, <1>8

\* A shift moves the bits.
LEMMA PlaceOfShift ==
  ASSUME NEW n \in Nat, NEW j \in Nat, NEW k \in Nat
  PROVE  Place(n \div 2^j, k) = Place(n, j + k) /\ n \div 2^j \in Nat
<1>1. PICK p \in Nat \ {0}, q \in Nat \ {0} : p = 2^j /\ q = 2^k
  BY PowerType
<1>2. 2^(j + k) = p * q
  BY <1>1, PowerSum
<1>3. (n \div p) \div q = n \div (p * q)
  BY DivideTwice
<1>4. n \div p \in Nat
  OBVIOUS
<1> QED BY <1>1, <1>2, <1>3, <1>4 DEF Place

\* Quotient and rest.
LEMMA DividedBy ==
  ASSUME NEW n \in Nat, NEW m \in Nat \ {0}
  PROVE  \E t \in Nat, r \in 0..(m - 1) : n = m * t + r /\ t = n \div m /\ r = n % m
<1>1. n \div m \in Nat /\ n % m \in 0..(m - 1) /\ n = m * (n \div m) + (n % m)
  OBVIOUS
<1> QED BY <1>1

\* The low bit of a quotient, for a mask of more bits.
LEMMA MaskedHalf ==
  ASSUME NEW n \in Nat, NEW p \in Nat \ {0}, NEW q \in Nat \ {0}
  PROVE  ((n % (p * (2 * q))) \div p) % 2 = (n \div p) % 2
<1>1. PICK m \in Nat \ {0} : m = p * (2 * q)
  OBVIOUS
<1>2. PICK t \in Nat, r \in 0..(m - 1) : n = m * t + r /\ r = n % m
  BY DividedBy
<1>3. PICK u \in Nat, v \in 0..(p - 1) : r = p * u + v /\ u = r \div p
  OBVIOUS
<1>4. PICK w \in Nat : w = q * t
  OBVIOUS
<1>5. m * t = p * (2 * w)
  BY <1>1, <1>4
<1>6. n = p * (2 * w + u) + v
  <2>1. p * (2 * w + u) = p * (2 * w) + p * u
    OBVIOUS
  <2>2. PICK x, y, z : x = p * (2 * w) /\ y = p * u /\ z = p * (2 * w + u)
    OBVIOUS
  <2>3. x \in Nat /\ y \in Nat /\ z = x + y
    BY <2>1, <2>2
  <2>4. n = x + r /\ r = y + v
    BY <1>2, <1>3, <1>5, <2>2
  <2>5. n = z + v
    BY <2>3, <2>4
  <2> QED BY <2>2, <2>5
<1>7. n \div p = 2 * w + u
  <2>1. PICK x \in Nat : x = 2 * w + u
    OBVIOUS
  <2>2. n = p * x + v
    BY <1>6, <2>1
  <2>3. n \div p = x
    BY <2>2
  <2> QED BY <2>1, <2>3
<1>8. (2 * w + u) % 2 = u % 2
  OBVIOUS
<1> QED BY <1>1, <1>2, <1>3, <1>7, <1>8

\* A mask keeps the bits below it.
LEMMA PlaceOfMask ==
  ASSUME NEW n \in Nat, NEW k \in Nat, NEW m \in Nat, k < m
  PROVE  Place(n % 2^m, k) = Place(n, k)
<1>1. PICK d \in Nat : m = k + (d + 1)
  <2>1. m - k - 1 \in Nat
    OBVIOUS
  <2> QED BY <2>1
<1>2. PICK p \in Nat \ {0}, q \in Nat \ {0} : p = 2^k /\ q = 2^d
  BY PowerType
<1>3. 2^(d + 1) = 2 * q
  BY <1>2, PowerDoubles
<1>4. 2^m = p * (2 * q)
  <2>1. PICK e \in Nat : e = d + 1
    OBVIOUS
  <2>2. 2^(k + e) = 2^k * 2^e
    BY PowerSum
  <2> QED BY <1>1, <1>2, <1>3, <2>1, <2>2
<1>5. ((n % (p * (2 * q))) \div p) % 2 = (n \div p) % 2
  BY MaskedHalf
<1> QED BY <1>2, <1>4, <1>5 DEF Place

\* A byte comes in below.
LEMMA ByteBelow ==
  ASSUME NEW a \in Nat, NEW b \in Octets
  PROVE  \E n \in Nat : n = a * 256 + b /\ n % 2^8 = b /\ n \div 2^8 = a
<1>1. PICK n \in Nat : n = a * 256 + b
  BY DEF Octets
<1>2. n % 256 = b /\ n \div 256 = a
  BY <1>1 DEF Octets
<1>3. 2^8 = 256
  OBVIOUS
<1> QED BY <1>1, <1>2, <1>3

\* Its lower bits are those of the byte.
LEMMA LowBits ==
  ASSUME NEW a \in Nat, NEW b \in Octets, NEW k \in 0..7
  PROVE  Place(a * 256 + b, k) = Place(b, k)
<1>1. PICK n \in Nat : n = a * 256 + b /\ n % 2^8 = b
  BY ByteBelow
<1>2. k \in Nat /\ 8 \in Nat /\ k < 8
  OBVIOUS
<1>3. Place(n % 2^8, k) = Place(n, k)
  BY <1>2, PlaceOfMask
<1> QED BY <1>1, <1>3, Zenon

\* The others move up.
LEMMA HighBits ==
  ASSUME NEW a \in Nat, NEW b \in Octets, NEW k \in Nat
  PROVE  Place(a * 256 + b, 8 + k) = Place(a, k)
<1>1. PICK n \in Nat : n = a * 256 + b /\ n \div 2^8 = a
  BY ByteBelow
<1>2. PICK j \in Nat : j = 8
  OBVIOUS
<1>3. Place(n \div 2^j, k) = Place(n, j + k)
  BY PlaceOfShift
<1> QED BY <1>1, <1>2, <1>3, Zenon

\* The version byte, and the bytes behind it.
ByteAt(bytes, k) == IF k = 0 THEN 0 ELSE bytes[k]

\* The bit j of the bytes one behind the other, upper bit first.
Stream(bytes, j) == Place(ByteAt(bytes, (j - 1) \div 8), 7 - ((j - 1) % 8))

\* The bit j of digits of five bits.
LEMMA BitIs ==
  ASSUME NEW digits, NEW i \in Nat, NEW e \in 0..4
  PROVE  Bit(digits, 5 * i + e + 1) = Place(digits[i + 1], 4 - e)
<1>1. PICK j \in Nat : j = 5 * i + e + 1
  OBVIOUS
<1>2. (j - 1) \div 5 = i /\ (j - 1) % 5 = e
  BY <1>1
<1>3. Bit(digits, j) = Place(digits[(j - 1) \div 5 + 1], 4 - ((j - 1) % 5))
  BY Zenon DEF Bit, Place
<1> QED BY <1>1, <1>2, <1>3

\* What is put out, bit by bit, and what is kept.
Grows(old, new, A, N) ==
  /\ \A j \in 1..(5 * Len(old)) : Bit(new, j) = Bit(old, j)
  /\ \A x \in 1..(5 * (N \div 5)) : Bit(new, 5 * Len(old) + x) = Place(A, N - x)

\* The digits that a byte completes.
LEMMA DigitsGrow ==
  ASSUME NEW old \in Seq(Quintets), NEW A \in Nat, NEW N \in Nat
  PROVE  Grows(old, old \o [i \in 1..(N \div 5) |-> (A \div 2^(N - 5 * i)) % 32], A, N)
<1>1. PICK c \in Nat : c = N \div 5 /\ 5 * c <= N
  OBVIOUS
<1>2. PICK add : add = [i \in 1..c |-> (A \div 2^(N - 5 * i)) % 32]
  OBVIOUS
<1>3. ASSUME NEW i \in 1..c
      PROVE  /\ N - 5 * i \in Nat /\ add[i] = (A \div 2^(N - 5 * i)) % 32
             /\ add[i] \in Quintets
  <2>1. PICK k \in Nat : k = N - 5 * i
    BY <1>1
  <2>2. (A \div 2^k) % 32 \in 0..31
    BY BinaryDigit
  <2>3. add[i] = (A \div 2^(N - 5 * i)) % 32
    BY <1>2
  <2> QED BY <2>1, <2>2, <2>3 DEF Quintets
<1> HIDE DEF Quintets
<1>4. add \in Seq(Quintets) /\ Len(add) = c
  <2>1. add \in [1..c -> Quintets]
    BY <1>2, <1>3
  <2> QED BY <2>1, SeqOfFunction
<1>5. PICK l \in Nat : l = Len(old)
  OBVIOUS
<1>5a. PICK new : new = old \o add
  OBVIOUS
<1>6. /\ \A i \in 1..l : new[i] = old[i]
      /\ \A i \in 1..c : new[l + i] = add[i]
  BY <1>4, <1>5, <1>5a
<1>7. ASSUME NEW j \in 1..(5 * l) PROVE Bit(new, j) = Bit(old, j)
  <2>1. PICK i \in Nat, e \in 0..4 : j = 5 * i + e + 1 /\ i + 1 \in 1..l
    <3>1. /\ (j - 1) \div 5 \in Nat /\ (j - 1) % 5 \in 0..4 /\ ((j - 1) \div 5) + 1 \in 1..l
          /\ j = 5 * ((j - 1) \div 5) + ((j - 1) % 5) + 1
      OBVIOUS
    <3> QED BY <3>1
  <2>2. new[i + 1] = old[i + 1]
    BY <1>6, <2>1
  <2> QED BY <2>1, <2>2, BitIs
<1>8. ASSUME NEW x \in 1..(5 * c) PROVE Bit(new, 5 * l + x) = Place(A, N - x)
  <2>1. PICK i \in Nat, e \in 0..4 : x = 5 * i + e + 1 /\ i + 1 \in 1..c
    <3>1. /\ (x - 1) \div 5 \in Nat /\ (x - 1) % 5 \in 0..4 /\ ((x - 1) \div 5) + 1 \in 1..c
          /\ x = 5 * ((x - 1) \div 5) + ((x - 1) % 5) + 1
      OBVIOUS
    <3> QED BY <3>1
  <2>2. PICK h \in Nat : h = l + i
    OBVIOUS
  <2>3. h + 1 = l + (i + 1) /\ 5 * h + e + 1 = 5 * l + x
    BY <2>1, <2>2
  <2>4. new[h + 1] = add[i + 1]
    BY <1>6, <2>1, <2>3
  <2>5. Bit(new, 5 * l + x) = Place(add[i + 1], 4 - e)
    <3>1. Bit(new, 5 * h + e + 1) = Place(new[h + 1], 4 - e)
      BY BitIs
    <3> QED BY <2>3, <2>4, <3>1
  <2>6. PICK k \in Nat, f \in 0..4 : k = N - 5 * (i + 1) /\ f = 4 - e
    <3>1. N - 5 * (i + 1) \in Nat
      BY <1>3, <2>1
    <3>2. 4 - e \in 0..4
      OBVIOUS
    <3> QED BY <3>1, <3>2
  <2>7. PICK q \in Nat : q = A \div 2^k
    <3>1. A \div 2^k \in Nat
      BY PlaceOfShift
    <3> QED BY <3>1
  <2>8. add[i + 1] = q % 32
    BY <1>3, <2>1, <2>6, <2>7
  <2>9. Place(q % 2^5, f) = Place(q, f)
    <3>1. f \in Nat /\ f < 5 /\ 5 \in Nat
      OBVIOUS
    <3> QED BY <3>1, PlaceOfMask
  <2>10. 2^5 = 32
    OBVIOUS
  <2>11. Place(q, f) = Place(A, k + f)
    BY <2>7, PlaceOfShift
  <2>12. k + f = N - x
    BY <2>1, <2>6
  <2> QED BY <2>5, <2>6, <2>8, <2>9, <2>10, <2>11, <2>12
<1>9. old \o [i \in 1..(N \div 5) |-> (A \div 2^(N - 5 * i)) % 32] = new
  BY <1>1, <1>2, <1>5a, Zenon
<1>10. Grows(old, new, A, N)
  BY <1>1, <1>5, <1>7, <1>8 DEF Grows
<1> QED BY <1>9, <1>10

\* The bits so far are in the digits and in acc.
Carries(s, bytes, n) ==
  /\ AllBits(s, n)
  /\ \A j \in 1..(5 * Len(s.out)) : Bit(s.out, j) = Stream(bytes, j)
  /\ \A k \in 0..(s.num - 1) : Place(s.acc, k) = Stream(bytes, 8 * (n + 1) - k)

\* Regrouped without the mask of acc, which cuts nothing off.
LEMMA RegroupedIs ==
  ASSUME NEW s \in Regroups, NEW b \in Octets
  PROVE  LET A == s.acc * 256 + b
             N == s.num + 8
         IN /\ A \in Nat /\ N \in 8..16
            /\ Regrouped(s, b).acc = A % 2^(N % 5)
            /\ Regrouped(s, b).out
                 = s.out \o [i \in 1..(N \div 5) |-> (A \div 2^(N - 5 * i)) % 32]
<1>1. PICK a \in Nat, m \in 0..8 : a = s.acc /\ m = s.num /\ a < 2^m
  BY DEF Regroups
<1>2. a < 256
  <2>1. 2^m <= 2^8 /\ 2^m \in Nat
    <3>1. m \in Nat /\ 8 \in Nat /\ m <= 8
      OBVIOUS
    <3> QED BY <3>1, PowerGrows, PowerType
  <2>2. 2^8 = 256
    OBVIOUS
  <2> QED BY <1>1, <2>1, <2>2
<1>3. PICK A \in Nat : A = a * 256 + b /\ A < 65536
  <2>1. a * 256 + b \in Nat /\ a * 256 + b < 65536
    BY <1>2 DEF Octets
  <2> QED BY <2>1
<1>4. 2^16 = 65536 /\ A % 65536 = A
  BY <1>3
<1>5. (s.acc * 256 + b) % 2^16 = A
  BY <1>1, <1>3, <1>4
<1>6. PICK N \in 8..16 : N = s.num + 8
  BY <1>1
<1>7. Regrouped(s, b)
        = [ acc |-> A % 2^(N % 5), num |-> N % 5,
            out |-> s.out \o [i \in 1..(N \div 5) |-> (A \div 2^(N - 5 * i)) % 32] ]
  <2> DEFINE B == (s.acc * 256 + b) % 2^16
             M == s.num + 8
  <2>1. Regrouped(s, b)
          = [ acc |-> B % 2^(M % 5), num |-> M % 5,
              out |-> s.out \o [i \in 1..(M \div 5) |-> (B \div 2^(M - 5 * i)) % 32] ]
    BY Zenon DEF Regrouped
  <2>2. B = A /\ M = N
    BY <1>5, <1>6
  <2> HIDE DEF B, M
  <2> QED BY <2>1, <2>2, Zenon
<1>8. s.acc * 256 + b = A
  BY <1>1, <1>3
<1>9. PICK o : o = s.out \o [i \in 1..(N \div 5) |-> (A \div 2^(N - 5 * i)) % 32]
  OBVIOUS
<1>10. PICK c, d : c = A % 2^(N % 5) /\ d = N % 5
  OBVIOUS
<1>11. Regrouped(s, b) = [acc |-> c, num |-> d, out |-> o]
  BY <1>7, <1>9, <1>10, Zenon
<1>12. Regrouped(s, b).acc = c /\ Regrouped(s, b).out = o
  BY <1>11
<1> QED BY <1>6, <1>8, <1>9, <1>10, <1>12, Zenon

\* The bits of the first byte.
LEMMA CarriesFirst ==
  ASSUME NEW bytes
  PROVE  Carries(Regroup0, bytes, 0)
<1>1. Regroup0.out = << >> /\ Regroup0.num = 8 /\ Regroup0.acc = 0
  BY DEF Regroup0
<1>2. Len(<< >>) = 0
  OBVIOUS
<1>3. AllBits(Regroup0, 0)
  BY <1>1, <1>2, Regroup0Type DEF AllBits
<1>4. ASSUME NEW k \in 0..7 PROVE Place(0, k) = Stream(bytes, 8 - k)
  <2>1. PICK j \in 1..8 : j = 8 - k
    OBVIOUS
  <2>2. (j - 1) \div 8 = 0 /\ 7 - ((j - 1) % 8) = k
    BY <2>1
  <2>3. Stream(bytes, j) = Place(0, k)
    BY <2>2 DEF Stream, ByteAt
  <2> QED BY <2>1, <2>3
<1>5. \A k \in 0..(Regroup0.num - 1) : Place(Regroup0.acc, k) = Stream(bytes, 8 * (0 + 1) - k)
  BY <1>1, <1>4
<1>6. 1..(5 * Len(Regroup0.out)) = {}
  BY <1>1, <1>2
<1> QED BY <1>3, <1>5, <1>6 DEF Carries

\* A byte more.
LEMMA CarriesByte ==
  ASSUME NEW bytes, NEW n \in Nat, bytes[n + 1] \in Octets,
         NEW s, Carries(s, bytes, n), AllBits(Regrouped(s, bytes[n + 1]), n + 1)
  PROVE  Carries(Regrouped(s, bytes[n + 1]), bytes, n + 1)
<1>1. PICK b \in Octets : b = bytes[n + 1]
  OBVIOUS
<1>2. PICK t : t = Regrouped(s, b)
  OBVIOUS
<1>3. s \in Regroups /\ 5 * Len(s.out) + s.num = 8 * (n + 1)
  BY DEF Carries, AllBits
<1>4. PICK old \in Seq(Quintets), a \in Nat, m \in 0..8 : old = s.out /\ a = s.acc /\ m = s.num
  BY <1>3 DEF Regroups
<1>5. PICK l \in Nat : l = Len(old) /\ 5 * l + m = 8 * (n + 1)
  BY <1>3, <1>4
<1>6. PICK A \in Nat : A = a * 256 + b
  BY ByteBelow
<1>7. PICK N \in 8..16 : N = m + 8
  OBVIOUS
<1>8. PICK new : new = old \o [i \in 1..(N \div 5) |-> (A \div 2^(N - 5 * i)) % 32]
  OBVIOUS
<1>9. t.acc = A % 2^(N % 5) /\ t.num = N % 5 /\ t.out = new /\ Len(t.out) = l + (N \div 5)
  <2>1. s.acc * 256 + b = A /\ s.num + 8 = N
    BY <1>4, <1>6, <1>7
  <2>2. PICK r : r = Regrouped(s, b)
    OBVIOUS
  <2>4. LET B == s.acc * 256 + b
            M == s.num + 8
        IN /\ r.acc = B % 2^(M % 5)
           /\ r.out = s.out \o [i \in 1..(M \div 5) |-> (B \div 2^(M - 5 * i)) % 32]
    BY <1>3, <2>2, RegroupedIs, Zenon
  <2>5. /\ t.acc = A % 2^(N % 5)
        /\ t.out = s.out \o [i \in 1..(N \div 5) |-> (A \div 2^(N - 5 * i)) % 32]
    BY <1>2, <2>1, <2>2, <2>4, Zenon
  <2>3. t.num = N % 5 /\ Len(t.out) = Len(s.out) + (N \div 5)
    BY <1>2, <1>3, <2>1, RegroupedType, Zenon
  <2> QED BY <1>4, <1>5, <1>8, <2>3, <2>5, Zenon
<1>10. ASSUME NEW x \in 1..N PROVE Place(A, N - x) = Stream(bytes, 5 * l + x)
  <2>1. PICK k \in Nat : k = N - x
    OBVIOUS
  <2>2. CASE k >= 8
    <3>1. PICK h \in 0..(m - 1) : k = 8 + h
      <4>1. k - 8 \in 0..(m - 1) /\ k = 8 + (k - 8)
        BY <1>7, <2>1, <2>2
      <4> QED BY <4>1
    <3>2. Place(A, k) = Place(a, h)
      <4>1. h \in Nat
        OBVIOUS
      <4>2. Place(a * 256 + b, 8 + h) = Place(a, h)
        BY <4>1, HighBits
      <4> QED BY <1>6, <3>1, <4>2, Zenon
    <3>3. Place(a, h) = Stream(bytes, 8 * (n + 1) - h)
      BY <1>4 DEF Carries
    <3>4. 8 * (n + 1) - h = 5 * l + x
      BY <1>5, <1>7, <2>1, <3>1
    <3> QED BY <2>1, <3>2, <3>3, <3>4
  <2>3. CASE k < 8
    <3>1. Place(A, k) = Place(b, k)
      <4>1. k \in 0..7
        BY <2>3
      <4>2. PICK h \in 0..7 : h = k
        BY <4>1
      <4>3. Place(a * 256 + b, h) = Place(b, h)
        BY LowBits
      <4> QED BY <1>6, <4>2, <4>3, Zenon
    <3>2. PICK j \in Nat : j = 5 * l + x
      OBVIOUS
    <3>3. (j - 1) \div 8 = n + 1 /\ 7 - ((j - 1) % 8) = k
      <4>1. j - 1 = 8 * (n + 1) + (7 - k)
        BY <1>5, <1>7, <2>1, <3>2
      <4>2. PICK r \in 0..7, y \in Nat : r = 7 - k /\ y = n + 1
        BY <2>3
      <4>3. j - 1 = 8 * y + r
        BY <4>1, <4>2
      <4>4. (8 * y + r) \div 8 = y /\ (8 * y + r) % 8 = r
        OBVIOUS
      <4> QED BY <4>2, <4>3, <4>4
    <3>4. Stream(bytes, j) = Place(ByteAt(bytes, n + 1), k)
      BY <3>3, Zenon DEF Stream
    <3>5. ByteAt(bytes, n + 1) = b
      <4>1. n + 1 # 0
        OBVIOUS
      <4> QED BY <1>1, <4>1 DEF ByteAt
    <3> QED BY <2>1, <3>1, <3>2, <3>4, <3>5
  <2> QED BY <2>1, <2>2, <2>3
<1>11. Grows(old, new, A, N)
  <2>1. N \in Nat
    OBVIOUS
  <2> QED BY <1>8, <2>1, DigitsGrow
<1>12. PICK c \in Nat, r \in 0..4 : c = N \div 5 /\ r = N % 5 /\ N = 5 * c + r
  <2>1. N \div 5 \in Nat /\ N % 5 \in 0..4 /\ N = 5 * (N \div 5) + (N % 5)
    OBVIOUS
  <2> QED BY <2>1
<1>13. ASSUME NEW j \in 1..(5 * (l + c)) PROVE Bit(new, j) = Stream(bytes, j)
  <2>1. CASE j <= 5 * l
    <3>1. j \in 1..(5 * l)
      BY <2>1
    <3>2. Bit(new, j) = Bit(old, j)
      BY <1>5, <1>11, <3>1 DEF Grows
    <3>3. Bit(old, j) = Stream(bytes, j)
      BY <1>4, <1>5, <3>1 DEF Carries
    <3> QED BY <3>2, <3>3
  <2>2. CASE j > 5 * l
    <3>1. PICK x \in 1..(5 * c) : j = 5 * l + x
      <4>1. j - 5 * l \in 1..(5 * c) /\ j = 5 * l + (j - 5 * l)
        BY <2>2
      <4> QED BY <4>1
    <3>2. Bit(new, 5 * l + x) = Place(A, N - x)
      BY <1>5, <1>11, <1>12 DEF Grows
    <3>3. x \in 1..N
      BY <1>12
    <3> QED BY <1>10, <3>1, <3>2, <3>3
  <2> QED BY <2>1, <2>2
<1>14. ASSUME NEW k \in 0..(r - 1) PROVE Place(A % 2^r, k) = Stream(bytes, 8 * ((n + 1) + 1) - k)
  <2>1. Place(A % 2^r, k) = Place(A, k)
    <3>1. r \in Nat /\ k \in Nat /\ k < r
      OBVIOUS
    <3> QED BY <3>1, PlaceOfMask
  <2>2. PICK x \in 1..N : x = N - k
    BY <1>12
  <2>3. N - x = k /\ 5 * l + x = 8 * ((n + 1) + 1) - k
    BY <1>5, <1>7, <2>2
  <2> QED BY <1>10, <2>1, <2>3
<1>15. t.acc = A % 2^r /\ t.num = r /\ t.out = new /\ Len(t.out) = l + c
  BY <1>9, <1>12, Zenon
<1>16. AllBits(t, n + 1)
  BY <1>1, <1>2
<1>17. Carries(t, bytes, n + 1)
  BY <1>13, <1>14, <1>15, <1>16 DEF Carries
<1> QED BY <1>1, <1>2, <1>17

\* All the bits, after each byte.
LEMMA RegroupBits ==
  ASSUME NEW bytes \in Seq(Octets), NEW f, Regroup(f, bytes), NEW n \in 0..Len(bytes)
  PROVE  Carries(f[n], bytes, n)
<1> DEFINE T == { m \in Nat : m <= Len(bytes) => Carries(f[m], bytes, m) }
<1>1. Len(bytes) \in Nat
  OBVIOUS
<1>2. 0 \in T
  <2>1. f[0] = Regroup0
    BY <1>1, RegroupAt
  <2> QED BY <2>1, CarriesFirst
<1>3. ASSUME NEW m \in Nat, m \in T PROVE m + 1 \in T
  <2> SUFFICES ASSUME m + 1 <= Len(bytes) PROVE Carries(f[m + 1], bytes, m + 1)
    OBVIOUS
  <2>1. m + 1 \in 0..Len(bytes) /\ m + 1 # 0 /\ (m + 1) - 1 = m /\ m <= Len(bytes)
    BY <1>1
  <2>2. bytes[m + 1] \in Octets
    BY <2>1
  <2>3. Carries(f[m], bytes, m)
    BY <1>3, <2>1
  <2>4. f[m + 1] = Regrouped(f[m], bytes[m + 1])
    BY <2>1, RegroupAt
  <2>5. AllBits(f[m + 1], m + 1)
    BY <2>1, RegroupType
  <2>6. AllBits(Regrouped(f[m], bytes[m + 1]), m + 1)
    BY <2>4, <2>5, Zenon
  <2> QED BY <2>2, <2>3, <2>4, <2>6, CarriesByte
<1> HIDE DEF T
<1>4. Nat \subseteq T
  BY <1>2, <1>3, Induction
<1>5. n \in T /\ n <= Len(bytes)
  BY <1>1, <1>4
<1> QED BY <1>5 DEF T

\* The payload of an address, bit by bit: the version byte and the address, and
\* two zeros.
LEMMA PayloadBits ==
  ASSUME NEW bytes \in Addresses
  PROVE  /\ \A j \in 1..168 : Bit(Payload(bytes), j) = Stream(bytes, j)
         /\ Bit(Payload(bytes), 169) = 0 /\ Bit(Payload(bytes), 170) = 0
<1> DEFINE F == CHOOSE f : Regroup(f, bytes)
<1>1. bytes \in Seq(Octets) /\ Len(bytes) = 20
  BY SeqOfFunction DEF Addresses
<1>2. Regroup(F, bytes)
  BY <1>1, RegrouperExists, Zenon
<1>3. Payload(bytes) = Append(F[20].out, F[20].acc * 2^(5 - F[20].num))
  BY <1>1, PayloadIs
<1> HIDE DEF F
<1>4. Carries(F[20], bytes, 20) /\ AllBits(F[20], 20)
  <2>1. 20 \in 0..Len(bytes)
    BY <1>1
  <2> QED BY <1>1, <1>2, <2>1, RegroupBits, RegroupType
<1>5. PICK s : s = F[20]
  OBVIOUS
<1>6. s \in Regroups /\ 5 * Len(s.out) + s.num = 168 /\ s.num <= 4
  BY <1>4, <1>5 DEF AllBits
<1>7. PICK o \in Seq(Quintets), a \in Nat, m \in 0..8 : o = s.out /\ a = s.acc /\ m = s.num /\ a < 2^m
  <2>1. s.out \in Seq(Quintets) /\ s.acc \in Nat /\ s.num \in 0..8 /\ s.acc < 2^s.num
    <3> HIDE DEF Quintets
    <3> QED BY <1>6 DEF Regroups
  <2> QED BY <2>1, Zenon
<1>8. m = 3 /\ Len(o) = 33
  <2>1. PICK l \in Nat : l = Len(o)
    OBVIOUS
  <2>2. 5 * l + m = 168 /\ m <= 4
    BY <1>6, <1>7, <2>1
  <2>3. m = 3 /\ l = 33
    BY <2>2
  <2> QED BY <2>1, <2>3
<1>9. PICK d \in Quintets : d = a * 4 /\ Payload(bytes) = Append(o, d)
  <2>1. 2^3 = 8 /\ 2^2 = 4 /\ 5 - 3 = 2
    OBVIOUS
  <2>2. a < 8
    BY <1>7, <1>8, <2>1
  <2>3. PICK d \in Nat : d = a * 4
    OBVIOUS
  <2>4. d \in Quintets
    BY <2>2, <2>3 DEF Quintets
  <2>5. s.acc * 2^(5 - s.num) = d
    BY <1>7, <1>8, <2>1, <2>3, Zenon
  <2> QED BY <1>3, <1>5, <1>7, <2>3, <2>4, <2>5, Zenon
<1>10. PICK p : p = Append(o, d)
  OBVIOUS
<1>11. \A i \in 1..33 : p[i] = o[i]
  <2> HIDE DEF Quintets
  <2> SUFFICES ASSUME NEW i \in 1..33 PROVE p[i] = o[i]
    OBVIOUS
  <2>1. i \in 1..Len(o)
    BY <1>8
  <2>2. Append(o, d)[i] = o[i]
    BY <2>1, AppendCell
  <2> QED BY <1>10, <2>2
<1>12. p[34] = d
  <2> HIDE DEF Quintets
  <2>1. Append(o, d)[Len(o) + 1] = d /\ 33 + 1 = 34
    OBVIOUS
  <2> QED BY <1>8, <1>10, <2>1
<1>13. /\ \A j \in 1..165 : Bit(o, j) = Stream(bytes, j)
       /\ \A k \in 0..2 : Place(a, k) = Stream(bytes, 168 - k)
  <2>1. Carries(s, bytes, 20)
    BY <1>4, <1>5
  <2>2. 5 * 33 = 165 /\ 3 - 1 = 2 /\ 8 * (20 + 1) = 168
    OBVIOUS
  <2>3. /\ \A j \in 1..(5 * Len(o)) : Bit(o, j) = Stream(bytes, j)
        /\ \A k \in 0..(m - 1) : Place(a, k) = Stream(bytes, 8 * (20 + 1) - k)
    BY <1>7, <2>1, Zenon DEF Carries
  <2> QED BY <1>8, <2>2, <2>3, Zenon
<1>14. ASSUME NEW i \in 0..33, NEW e \in 0..4
       PROVE  Bit(p, 5 * i + e + 1) = Place(p[i + 1], 4 - e)
  <2>1. i \in Nat
    OBVIOUS
  <2> QED BY <2>1, BitIs
<1>15. ASSUME NEW j \in 1..165 PROVE Bit(p, j) = Stream(bytes, j)
  <2>1. PICK i \in 0..32, e \in 0..4 : j = 5 * i + e + 1
    <3>1. /\ (j - 1) \div 5 \in 0..32 /\ (j - 1) % 5 \in 0..4
          /\ j = 5 * ((j - 1) \div 5) + ((j - 1) % 5) + 1
      OBVIOUS
    <3> QED BY <3>1
  <2>2. p[i + 1] = o[i + 1]
    <3>1. i + 1 \in 1..33
      OBVIOUS
    <3> QED BY <1>11, <3>1
  <2>3. Bit(p, j) = Place(p[i + 1], 4 - e) /\ Bit(o, j) = Place(o[i + 1], 4 - e)
    <3>1. i \in Nat
      OBVIOUS
    <3> QED BY <2>1, <3>1, BitIs
  <2> QED BY <1>13, <2>2, <2>3
<1>16. /\ Bit(p, 166) = Place(d, 4) /\ Bit(p, 167) = Place(d, 3) /\ Bit(p, 168) = Place(d, 2)
       /\ Bit(p, 169) = Place(d, 1) /\ Bit(p, 170) = Place(d, 0)
  <2>1. \A e \in 0..4 : Bit(p, 5 * 33 + e + 1) = Place(d, 4 - e)
    <3>1. 33 \in 0..33 /\ 33 + 1 = 34
      OBVIOUS
    <3> QED BY <1>12, <1>14, <3>1
  <2>2. /\ Bit(p, 5 * 33 + 0 + 1) = Place(d, 4 - 0) /\ Bit(p, 5 * 33 + 1 + 1) = Place(d, 4 - 1)
        /\ Bit(p, 5 * 33 + 2 + 1) = Place(d, 4 - 2) /\ Bit(p, 5 * 33 + 3 + 1) = Place(d, 4 - 3)
        /\ Bit(p, 5 * 33 + 4 + 1) = Place(d, 4 - 4)
    BY <2>1
  <2>3. /\ 5 * 33 + 0 + 1 = 166 /\ 5 * 33 + 1 + 1 = 167 /\ 5 * 33 + 2 + 1 = 168
        /\ 5 * 33 + 3 + 1 = 169 /\ 5 * 33 + 4 + 1 = 170
        /\ 4 - 0 = 4 /\ 4 - 1 = 3 /\ 4 - 2 = 2 /\ 4 - 3 = 1 /\ 4 - 4 = 0
    OBVIOUS
  <2> QED BY <2>2, <2>3
<1>17. /\ Place(d, 4) = Place(a, 2) /\ Place(d, 3) = Place(a, 1) /\ Place(d, 2) = Place(a, 0)
       /\ Place(d, 1) = 0 /\ Place(d, 0) = 0
  <2>1. 2^0 = 1 /\ 2^1 = 2 /\ 2^2 = 4 /\ 2^3 = 8 /\ 2^4 = 16
    OBVIOUS
  <2>2. /\ ((a * 4) \div 16) % 2 = (a \div 4) % 2 /\ ((a * 4) \div 8) % 2 = (a \div 2) % 2
        /\ ((a * 4) \div 4) % 2 = (a \div 1) % 2 /\ ((a * 4) \div 2) % 2 = 0
        /\ ((a * 4) \div 1) % 2 = 0
    OBVIOUS
  <2> QED BY <1>9, <2>1, <2>2 DEF Place
<1>18. ASSUME NEW j \in 166..168 PROVE Bit(p, j) = Stream(bytes, j)
  <2>1. /\ Place(a, 0) = Stream(bytes, 168 - 0) /\ Place(a, 1) = Stream(bytes, 168 - 1)
        /\ Place(a, 2) = Stream(bytes, 168 - 2)
    BY <1>13
  <2>2. 168 - 0 = 168 /\ 168 - 1 = 167 /\ 168 - 2 = 166
    OBVIOUS
  <2>3. j = 166 \/ j = 167 \/ j = 168
    OBVIOUS
  <2> QED BY <1>16, <1>17, <2>1, <2>2, <2>3
<1>19. ASSUME NEW j \in 1..168 PROVE Bit(p, j) = Stream(bytes, j)
  <2>1. j \in 1..165 \/ j \in 166..168
    OBVIOUS
  <2> QED BY <1>15, <1>18, <2>1
<1> QED BY <1>9, <1>10, <1>16, <1>17, <1>19

\* The number that eight bits write.
LEMMA EightBits ==
  ASSUME NEW s \in [1..8 -> 0..1]
  PROVE  Number(s, 2) = 128 * s[1] + 64 * s[2] + 32 * s[3] + 16 * s[4]
                          + 8 * s[5] + 4 * s[6] + 2 * s[7] + s[8]
<1> DEFINE F == CHOOSE f : Accumulates(f, s, 2, 8)
<1>1. Accumulates(F, s, 2, 8)
  BY AccumulatorExists, Zenon
<1>2. Len(s) = 8
  OBVIOUS
<1>3. Number(s, 2) = F[8]
  BY <1>2, NumberIs
<1> HIDE DEF F
<1>4. \A n \in 0..8 : F[n] = IF n = 0 THEN 0 ELSE 2 * F[n - 1] + s[n]
  <2> SUFFICES ASSUME NEW n \in 0..8 PROVE F[n] = IF n = 0 THEN 0 ELSE 2 * F[n - 1] + s[n]
    OBVIOUS
  <2> DEFINE h == [m \in 0..8 |-> IF m = 0 THEN 0 ELSE 2 * F[m - 1] + s[m]]
  <2>1. F = h
    BY <1>1 DEF Accumulates
  <2>2. h[n] = IF n = 0 THEN 0 ELSE 2 * F[n - 1] + s[n]
    OBVIOUS
  <2> HIDE DEF h
  <2> QED BY <2>1, <2>2
<1>5. /\ F[0] = 0 /\ F[1] = 2 * F[0] + s[1] /\ F[2] = 2 * F[1] + s[2]
      /\ F[3] = 2 * F[2] + s[3] /\ F[4] = 2 * F[3] + s[4] /\ F[5] = 2 * F[4] + s[5]
      /\ F[6] = 2 * F[5] + s[6] /\ F[7] = 2 * F[6] + s[7] /\ F[8] = 2 * F[7] + s[8]
  BY <1>4
<1>6. /\ s[1] \in 0..1 /\ s[2] \in 0..1 /\ s[3] \in 0..1 /\ s[4] \in 0..1
      /\ s[5] \in 0..1 /\ s[6] \in 0..1 /\ s[7] \in 0..1 /\ s[8] \in 0..1
  OBVIOUS
<1> QED BY <1>3, <1>5, <1>6

\* A byte is the number that its bits write.
LEMMA ByteOfBits ==
  ASSUME NEW b \in Octets, NEW s \in [1..8 -> 0..1],
         \A i \in 1..8 : s[i] = Place(b, 8 - i)
  PROVE  Number(s, 2) = b
<1>1. /\ s[1] = (b \div 128) % 2 /\ s[2] = (b \div 64) % 2 /\ s[3] = (b \div 32) % 2
      /\ s[4] = (b \div 16) % 2 /\ s[5] = (b \div 8) % 2 /\ s[6] = (b \div 4) % 2
      /\ s[7] = (b \div 2) % 2 /\ s[8] = b % 2
  <2>1. /\ s[1] = Place(b, 8 - 1) /\ s[2] = Place(b, 8 - 2) /\ s[3] = Place(b, 8 - 3)
        /\ s[4] = Place(b, 8 - 4) /\ s[5] = Place(b, 8 - 5) /\ s[6] = Place(b, 8 - 6)
        /\ s[7] = Place(b, 8 - 7) /\ s[8] = Place(b, 8 - 8)
    OBVIOUS
  <2>2. /\ 2^(8 - 1) = 128 /\ 2^(8 - 2) = 64 /\ 2^(8 - 3) = 32 /\ 2^(8 - 4) = 16
        /\ 2^(8 - 5) = 8 /\ 2^(8 - 6) = 4 /\ 2^(8 - 7) = 2 /\ 2^(8 - 8) = 1
    OBVIOUS
  <2>3. b \div 1 = b
    BY DEF Octets
  <2> QED BY <2>1, <2>2, <2>3 DEF Place
<1>2. b = 128 * ((b \div 128) % 2) + 64 * ((b \div 64) % 2) + 32 * ((b \div 32) % 2)
          + 16 * ((b \div 16) % 2) + 8 * ((b \div 8) % 2) + 4 * ((b \div 4) % 2)
          + 2 * ((b \div 2) % 2) + (b % 2)
  BY DEF Octets
<1>3. Number(s, 2) = 128 * s[1] + 64 * s[2] + 32 * s[3] + 16 * s[4]
                       + 8 * s[5] + 4 * s[6] + 2 * s[7] + s[8]
  BY EightBits
<1> QED BY <1>1, <1>2, <1>3, Zenon

\* The bytes of the payload: the version byte and the address.
LEMMA PayloadBytes ==
  ASSUME NEW bytes \in Addresses, NEW k \in 0..20
  PROVE  ByteOf(Payload(bytes), k + 1) = ByteAt(bytes, k)
<1>1. PICK p : p = Payload(bytes)
  OBVIOUS
<1>2. PICK b \in Octets : b = ByteAt(bytes, k)
  <2>1. 0 \in Octets
    BY DEF Octets
  <2>2. k # 0 => bytes[k] \in Octets
    BY DEF Addresses
  <2> QED BY <2>1, <2>2 DEF ByteAt
<1>3. PICK s : s = [i \in 1..8 |-> Bit(p, 8 * k + i)]
  OBVIOUS
<1>4. ASSUME NEW i \in 1..8 PROVE s[i] = Place(b, 8 - i) /\ s[i] \in 0..1
  <2>1. PICK j \in 1..168 : j = 8 * k + i
    OBVIOUS
  <2>2. (j - 1) \div 8 = k /\ 7 - ((j - 1) % 8) = 8 - i
    BY <2>1
  <2>3. Stream(bytes, j) = Place(b, 8 - i)
    BY <1>2, <2>2, Zenon DEF Stream
  <2>4. Bit(p, j) = Stream(bytes, j)
    BY <1>1, PayloadBits
  <2>5. s[i] = Bit(p, j)
    BY <1>3, <2>1
  <2>6. Place(b, 8 - i) \in 0..1
    <3>1. b \in Nat /\ 8 - i \in Nat
      BY DEF Octets
    <3> QED BY <3>1, BinaryDigit DEF Place
  <2> QED BY <2>3, <2>4, <2>5, <2>6
<1>5. s \in [1..8 -> 0..1]
  BY <1>3, <1>4
<1>6. Number(s, 2) = b
  BY <1>4, <1>5, ByteOfBits
<1>7. ByteOf(p, k + 1) = Number(s, 2)
  <2>1. (k + 1) - 1 = k
    OBVIOUS
  <2> QED BY <1>3, <2>1 DEF ByteOf
<1> QED BY <1>1, <1>2, <1>6, <1>7

-----------------------------------------------------------------------------
\* The text is that of the address.

\* The characters, by their places.
LEMMA CharsetIs ==
  /\ DOMAIN CHARSET = 1..32 /\ Len(CHARSET) = 32
  /\ \A i \in 1..32 :
       CHARSET[i] = IF i <= 8 THEN 96 + i ELSE IF i <= 10 THEN 97 + i
                    ELSE IF i <= 12 THEN 98 + i ELSE IF i = 13 THEN 112
                    ELSE IF i <= 22 THEN 100 + i ELSE 25 + i
BY DEF CHARSET

\* A character stands for one digit, and is no colon.
LEMMA CharsetInverse ==
  ASSUME NEW d \in Quintets
  PROVE  /\ (CHOOSE e \in DOMAIN CHARSET : CHARSET[e] = CHARSET[d + 1]) - 1 = d
         /\ Contains(CHARSET, CHARSET[d + 1]) /\ CHARSET[d + 1] # 58
<1>1. PICK c : c = CHARSET[d + 1]
  OBVIOUS
<1>2. PICK j \in 1..32 : j = d + 1 /\ j - 1 = d
  BY DEF Quintets
<1>3. \A e \in 1..32 : CHARSET[e] = c => e = j
  <2> SUFFICES ASSUME NEW e \in 1..32, CHARSET[e] = CHARSET[j] PROVE e = j
    BY <1>1, <1>2
  <2> QED BY CharsetIs
<1>4. PICK e : e = CHOOSE x \in DOMAIN CHARSET : CHARSET[x] = c
  OBVIOUS
<1>5. e = j
  <2>1. j \in DOMAIN CHARSET /\ CHARSET[j] = c
    BY <1>1, <1>2, CharsetIs
  <2>2. e \in DOMAIN CHARSET /\ CHARSET[e] = c
    BY <1>4, <2>1, Zenon
  <2>3. DOMAIN CHARSET = 1..32
    BY CharsetIs
  <2> QED BY <1>3, <2>2, <2>3, Zenon
<1>6. Contains(CHARSET, c)
  <2>1. j \in 1..Len(CHARSET) /\ CHARSET[j] = c
    BY <1>1, <1>2, CharsetIs
  <2> QED BY <2>1, Zenon DEF Contains
<1>7. c # 58
  <2>1. CHARSET[j] # 58
    BY CharsetIs
  <2> QED BY <1>1, <1>2, <2>1
<1> QED BY <1>1, <1>2, <1>4, <1>5, <1>6, <1>7, Zenon

\* The rest of a sequence behind another.
LEMMA Behind3 ==
  ASSUME NEW C, NEW t \in Seq(C), NEW s \in Seq(C), Len(s) = 3
  PROVE  SubSeq(s \o t, 4, Len(s \o t)) = t
<1>1. PICK n \in Nat : n = Len(t) /\ t = [i \in 1..n |-> t[i]]
  OBVIOUS
<1>2. PICK u \in Seq(C) : u = s \o t /\ Joins(u, s, t)
  <2>1. s \o t \in Seq(C) /\ Joins(s \o t, s, t)
    BY Concatenated
  <2> QED BY <2>1, Zenon
<1>3. Len(u) = 3 + n /\ \A i \in 1..n : u[3 + i] = t[i]
  BY <1>1, <1>2 DEF Joins
<1>4. SubSeq(u, 4, 3 + n) = [i \in 1..n |-> u[3 + i]]
  <2>1. (3 + n) - 4 + 1 = n
    OBVIOUS
  <2>2. SubSeq(u, 4, 3 + n) = [i \in 1..n |-> u[4 + i - 1]]
    BY <1>3, <2>1
  <2>3. \A i \in 1..n : 4 + i - 1 = 3 + i
    OBVIOUS
  <2> QED BY <2>2, <2>3
<1> QED BY <1>1, <1>2, <1>3, <1>4

\* The names of two networks.
LEMMA FixedNames ==
  /\ << 99, 102, 120 >> \o << 58 >> = << 99, 102, 120, 58 >>
  /\ << 99, 102, 120, 116, 101, 115, 116 >> \o << 58 >>
       = << 99, 102, 120, 116, 101, 115, 116, 58 >>
<1>1. PICK s, t, u : s = << 99, 102, 120 >> /\ t = << 58 >> /\ u = << 99, 102, 120, 58 >>
  OBVIOUS
<1>2. s \o t = u
  <2>1. s \in Seq(Nat) /\ t \in Seq(Nat) /\ u \in Seq(Nat) /\ Len(s) = 3 /\ Len(t) = 1 /\ Len(u) = 4
    BY <1>1
  <2>2. PICK v : v = s \o t
    OBVIOUS
  <2>3. v \in Seq(Nat) /\ Joins(v, s, t)
    BY <2>1, <2>2, Concatenated
  <2>4. Len(v) = 4 /\ v[1] = s[1] /\ v[2] = s[2] /\ v[3] = s[3] /\ v[3 + 1] = t[1] /\ 3 + 1 = 4
    BY <2>1, <2>3 DEF Joins
  <2>5. \A i \in 1..4 : v[i] = u[i]
    BY <1>1, <2>4
  <2> QED BY <2>1, <2>2, <2>3, <2>4, <2>5, SeqEqual
<1>3. PICK p, q : /\ p = << 99, 102, 120, 116, 101, 115, 116 >>
                  /\ q = << 99, 102, 120, 116, 101, 115, 116, 58 >>
  OBVIOUS
<1>4. p \o t = q
  <2>1. p \in Seq(Nat) /\ t \in Seq(Nat) /\ q \in Seq(Nat) /\ Len(p) = 7 /\ Len(t) = 1 /\ Len(q) = 8
    BY <1>1, <1>3
  <2>2. PICK v : v = p \o t
    OBVIOUS
  <2>3. v \in Seq(Nat) /\ Joins(v, p, t)
    BY <2>1, <2>2, Concatenated
  <2>4. /\ Len(v) = 8 /\ v[1] = p[1] /\ v[2] = p[2] /\ v[3] = p[3] /\ v[4] = p[4]
        /\ v[5] = p[5] /\ v[6] = p[6] /\ v[7] = p[7] /\ v[7 + 1] = t[1] /\ 7 + 1 = 8
    BY <2>1, <2>3 DEF Joins
  <2>5. \A i \in 1..8 : v[i] = q[i]
    BY <1>1, <1>3, <2>4
  <2> QED BY <2>1, <2>2, <2>3, <2>4, <2>5, SeqEqual
<1> QED BY <1>1, <1>2, <1>3, <1>4, Zenon

\* The prefix is a name of the network and a colon.
LEMMA PrefixNames ==
  ASSUME NEW id \in Nat, id < WordLimit
  PROVE  \E q \in Seq(Printable) :
           Prefix(id) = q \o << 58 >> /\ Lacks(q, 58, 1, Len(q)) /\ NamesNetwork(q, id)
<1>1. CASE id = 1029
  <2>1. PICK q : q = << 99, 102, 120 >>
    OBVIOUS
  <2>2. q \in Seq(Printable) /\ Len(q) = 3 /\ q[1] = 99 /\ q[2] = 102 /\ q[3] = 120
    BY <2>1 DEF Printable
  <2>3. Prefix(id) = << 99, 102, 120, 58 >>
    <3>1. id = CFXADDR_MAINNET_ID
      BY <1>1 DEF CFXADDR_MAINNET_ID
    <3>2. id # CFXADDR_TESTNET_ID
      BY <1>1 DEF CFXADDR_TESTNET_ID
    <3> QED BY <3>1, <3>2, Zenon DEF Prefix
  <2>4. q \o << 58 >> = << 99, 102, 120, 58 >>
    BY <2>1, FixedNames, Zenon
  <2>5. Lacks(q, 58, 1, 3)
    BY <2>2 DEF Lacks
  <2>6. NamesNetwork(q, id)
    BY <1>1, <2>1, Zenon DEF NamesNetwork
  <2> QED BY <2>2, <2>3, <2>4, <2>5, <2>6, Zenon
<1>2. CASE id = 1
  <2>1. PICK q : q = << 99, 102, 120, 116, 101, 115, 116 >>
    OBVIOUS
  <2>2. /\ q \in Seq(Printable) /\ Len(q) = 7 /\ q[1] = 99 /\ q[2] = 102 /\ q[3] = 120
        /\ q[4] = 116 /\ q[5] = 101 /\ q[6] = 115 /\ q[7] = 116
    BY <2>1 DEF Printable
  <2>3. Prefix(id) = << 99, 102, 120, 116, 101, 115, 116, 58 >>
    <3>1. id # CFXADDR_MAINNET_ID /\ id = CFXADDR_TESTNET_ID
      BY <1>2 DEF CFXADDR_MAINNET_ID, CFXADDR_TESTNET_ID
    <3> QED BY <3>1, Zenon DEF Prefix
  <2>4. q \o << 58 >> = << 99, 102, 120, 116, 101, 115, 116, 58 >>
    BY <2>1, FixedNames, Zenon
  <2>5. Lacks(q, 58, 1, 7)
    BY <2>2 DEF Lacks
  <2>6. NamesNetwork(q, id)
    BY <1>2, <2>1, Zenon DEF NamesNetwork
  <2> QED BY <2>2, <2>3, <2>4, <2>5, <2>6, Zenon
<1>3. CASE id \notin { 1, 1029 }
  <2>1. PICK t \in Seq(Digits) : t = NetworkDigits(id) /\ IsNumeral(t) /\ ReadNumber(t) = id
    BY NetworkDigitsRead
  <2>2. PICK s : s = << 110, 101, 116 >>
    OBVIOUS
  <2>3. /\ s \in Seq(Printable) /\ Len(s) = 3 /\ s[1] = 110 /\ s[2] = 101 /\ s[3] = 116
    BY <2>2 DEF Printable
  <2>4. t \in Seq(Printable)
    <3>1. Digits \subseteq Printable
      BY DEF Digits, Printable, ZERO
    <3> QED BY <3>1, SeqMonotone
  <2>5. PICK q : q = s \o t
    OBVIOUS
  <2>6. q \in Seq(Printable) /\ Joins(q, s, t)
    <3> HIDE DEF Printable
    <3> QED BY <2>3, <2>4, <2>5, Concatenated
  <2>7. Prefix(id) = q \o << 58 >>
    <3>1. id # CFXADDR_MAINNET_ID /\ id # CFXADDR_TESTNET_ID
      BY <1>3 DEF CFXADDR_MAINNET_ID, CFXADDR_TESTNET_ID
    <3>2. Prefix(id) = << 110, 101, 116 >> \o NetworkDigits(id) \o << 58 >>
      BY <3>1, Zenon DEF Prefix
    <3> QED BY <2>1, <2>2, <2>5, <3>2, Zenon
  <2>8. Lacks(q, 58, 1, Len(q))
    <3> SUFFICES ASSUME NEW j \in 1..Len(q) PROVE q[j] # 58
      BY DEF Lacks
    <3>1. Len(q) = 3 + Len(t) /\ Len(t) \in Nat
      BY <2>3, <2>6 DEF Joins
    <3>2. CASE j \in 1..3
      <4>1. q[j] = s[j]
        BY <2>3, <2>6, <3>2 DEF Joins
      <4> QED BY <2>3, <3>2, <4>1
    <3>3. CASE j \notin 1..3
      <4>1. PICK i \in 1..Len(t) : j = 3 + i
        <5>1. j - 3 \in 1..Len(t) /\ j = 3 + (j - 3)
          BY <3>1, <3>3
        <5> QED BY <5>1
      <4>2. q[3 + i] = t[i]
        BY <2>3, <2>6 DEF Joins
      <4>3. t[i] \in Digits
        BY ElementType
      <4> QED BY <4>1, <4>2, <4>3 DEF Digits, ZERO
    <3> QED BY <3>2, <3>3
  <2>9. SubSeq(q, 1, 3) = << 110, 101, 116 >>
    BY <2>2, <2>3, <2>6, Zenon DEF Joins
  <2>10. SubSeq(q, 4, Len(q)) = t
    <3> HIDE DEF Printable
    <3> QED BY <2>3, <2>4, <2>5, Behind3
  <2>11. NamesNetwork(q, id)
    <3>1. PICK number : number = SubSeq(q, 4, Len(q))
      OBVIOUS
    <3>2. IsNumeral(number) /\ ReadNumber(number) = id
      BY <2>1, <2>10, <3>1, Zenon
    <3> QED BY <1>3, <2>9, <3>1, <3>2, Zenon DEF NamesNetwork
  <2> QED BY <2>6, <2>7, <2>8, <2>11, Zenon
<1> QED BY <1>1, <1>2, <1>3

\* A text of digits has characters of the alphabet, each for its digit.
Spells(t, digits) ==
  /\ t \in Seq(Printable) /\ Len(t) = Len(digits) /\ Lacks(t, 58, 1, Len(t))
  /\ \A i \in DOMAIN t : Contains(CHARSET, t[i])
  /\ [i \in DOMAIN t |-> (CHOOSE d \in DOMAIN CHARSET : CHARSET[d] = t[i]) - 1] = digits

\* So the text that Chars makes.
LEMMA CharsRead ==
  ASSUME NEW digits \in Seq(Quintets)
  PROVE  Spells(Chars(digits), digits)
<1>1. PICK n \in Nat : n = Len(digits) /\ DOMAIN digits = 1..n /\ digits = [i \in 1..n |-> digits[i]]
  OBVIOUS
<1>2. PICK t : t = Chars(digits)
  OBVIOUS
<1>3. t \in Seq(Printable) /\ Len(t) = n
  BY <1>1, <1>2, CharsType
<1>4. DOMAIN t = 1..n /\ \A i \in 1..n : t[i] = CHARSET[digits[i] + 1]
  BY <1>1, <1>2 DEF Chars
<1>5. ASSUME NEW i \in 1..n
      PROVE  /\ (CHOOSE e \in DOMAIN CHARSET : CHARSET[e] = t[i]) - 1 = digits[i]
             /\ Contains(CHARSET, t[i]) /\ t[i] # 58
  <2>1. PICK d \in Quintets : d = digits[i]
    <3> HIDE DEF Quintets
    <3> QED BY <1>1
  <2>2. PICK c : c = CHARSET[d + 1]
    OBVIOUS
  <2>3. t[i] = c
    BY <1>4, <2>1, <2>2, Zenon
  <2>4. /\ (CHOOSE e \in DOMAIN CHARSET : CHARSET[e] = c) - 1 = d
        /\ Contains(CHARSET, c) /\ c # 58
    BY <2>2, CharsetInverse, Zenon
  <2> QED BY <2>1, <2>3, <2>4, Zenon
<1>6. Lacks(t, 58, 1, n)
  BY <1>5, Zenon DEF Lacks
<1>7. [i \in DOMAIN t |-> (CHOOSE e \in DOMAIN CHARSET : CHARSET[e] = t[i]) - 1] = digits
  <2>1. PICK g : g = [i \in 1..n |-> (CHOOSE e \in DOMAIN CHARSET : CHARSET[e] = t[i]) - 1]
    OBVIOUS
  <2>2. g = [i \in 1..n |-> digits[i]]
    BY <1>5, <2>1, Zenon
  <2> QED BY <1>1, <1>4, <2>1, <2>2, Zenon
<1>8. \A i \in DOMAIN t : Contains(CHARSET, t[i])
  BY <1>4, <1>5, Zenon
<1>9. Spells(t, digits)
  BY <1>1, <1>3, <1>6, <1>7, <1>8, Zenon DEF Spells
<1> QED BY <1>2, <1>9, Zenon

\* The characters of digits behind digits.
LEMMA CharsConcat ==
  ASSUME NEW s \in Seq(Quintets), NEW t \in Seq(Quintets)
  PROVE  Chars(s) \o Chars(t) = Chars(s \o t)
<1> HIDE DEF Quintets
<1>1. PICK u : u = s \o t
  OBVIOUS
<1>2. u \in Seq(Quintets) /\ Joins(u, s, t)
  BY <1>1, Concatenated
<1>3. PICK a, b, c : a = Chars(s) /\ b = Chars(t) /\ c = Chars(u)
  OBVIOUS
<1>4. /\ a \in Seq(Printable) /\ b \in Seq(Printable) /\ c \in Seq(Printable)
      /\ Len(a) = Len(s) /\ Len(b) = Len(t) /\ Len(c) = Len(u)
  BY <1>2, <1>3, CharsType
<1> HIDE DEF Printable
<1>5. PICK v : v = a \o b
  OBVIOUS
<1>6. v \in Seq(Printable) /\ Joins(v, a, b)
  BY <1>4, <1>5, Concatenated
<1>7. PICK m \in Nat, n \in Nat : m = Len(s) /\ n = Len(t) /\ Len(u) = m + n /\ Len(v) = m + n
  BY <1>2, <1>4, <1>6 DEF Joins
<1>8. DOMAIN s = 1..m /\ DOMAIN t = 1..n /\ DOMAIN u = 1..(m + n)
  BY <1>2, <1>7
<1>9. /\ \A i \in 1..m : a[i] = CHARSET[s[i] + 1]
      /\ \A i \in 1..n : b[i] = CHARSET[t[i] + 1]
      /\ \A i \in 1..(m + n) : c[i] = CHARSET[u[i] + 1]
  BY <1>3, <1>8, Zenon DEF Chars
<1>10. ASSUME NEW i \in 1..(m + n) PROVE v[i] = c[i]
  <2>1. CASE i \in 1..m
    <3>1. v[i] = a[i] /\ u[i] = s[i]
      BY <1>2, <1>4, <1>6, <1>7, <2>1, Zenon DEF Joins
    <3> QED BY <1>9, <2>1, <3>1, Zenon
  <2>2. CASE i \notin 1..m
    <3>1. PICK j \in 1..n : i = m + j
      <4>1. i - m \in 1..n /\ i = m + (i - m)
        BY <2>2
      <4> QED BY <4>1
    <3>2. v[m + j] = b[j] /\ u[m + j] = t[j]
      BY <1>2, <1>4, <1>6, <1>7, Zenon DEF Joins
    <3> QED BY <1>9, <3>1, <3>2, Zenon
  <2> QED BY <2>1, <2>2
<1>11. v = c
  BY <1>4, <1>6, <1>7, <1>10, SeqEqual
<1> QED BY <1>1, <1>3, <1>5, <1>11, Zenon

\* The digits of a prefix, with the zero for its colon.
LEMMA ExtendedIs ==
  ASSUME NEW q \in Seq(Printable)
  PROVE  /\ ExtendedPrefix(q \o << 58 >>) = [i \in DOMAIN q |-> q[i] % 32] \o << 0 >>
         /\ [i \in DOMAIN q |-> q[i] % 32] \in Seq(Quintets)
<1>1. PICK n \in Nat : n = Len(q) /\ DOMAIN q = 1..n
  OBVIOUS
<1>2. PICK p : p = q \o << 58 >>
  OBVIOUS
<1>3. Len(p) = n + 1 /\ \A i \in 1..n : p[i] = q[i]
  BY <1>1, <1>2
<1>4. PICK s : s = [i \in DOMAIN q |-> q[i] % 32]
  OBVIOUS
<1>5. s \in Seq(Quintets) /\ Len(s) = n /\ \A i \in 1..n : s[i] = q[i] % 32
  <2>1. ASSUME NEW i \in 1..n PROVE q[i] % 32 \in Quintets
    <3>1. PICK c \in Printable : c = q[i]
      BY <1>1
    <3>2. c % 32 \in 0..31
      BY DEF Printable
    <3> QED BY <3>1, <3>2 DEF Quintets
  <2>2. s \in [1..n -> Quintets] /\ \A i \in 1..n : s[i] = q[i] % 32
    BY <1>1, <1>4, <2>1
  <2> QED BY <2>2, SeqOfFunction
<1>6. PICK e : e = ExtendedPrefix(p)
  OBVIOUS
<1>7. e = [i \in 1..(n + 1) |-> IF i < n + 1 THEN p[i] % 32 ELSE 0]
  BY <1>3, <1>6 DEF ExtendedPrefix
<1> HIDE DEF Quintets
<1>8. PICK z : z = << 0 >>
  OBVIOUS
<1>9. z \in Seq(Quintets) /\ Len(z) = 1 /\ z[1] = 0
  <2>1. 0 \in Quintets
    BY DEF Quintets
  <2> QED BY <1>8, <2>1
<1>10. PICK v : v = s \o z
  OBVIOUS
<1>11. v \in Seq(Quintets) /\ Joins(v, s, z)
  BY <1>5, <1>9, <1>10, Concatenated
<1>12. Len(v) = n + 1 /\ v[n + 1] = 0 /\ \A i \in 1..n : v[i] = s[i]
  BY <1>5, <1>9, <1>11 DEF Joins
<1>13. v = [i \in 1..(n + 1) |-> v[i]]
  BY <1>11, <1>12
<1>14. ASSUME NEW i \in 1..(n + 1) PROVE v[i] = IF i < n + 1 THEN p[i] % 32 ELSE 0
  <2>1. CASE i < n + 1
    <3>1. i \in 1..n
      BY <2>1
    <3>2. v[i] = p[i] % 32
      BY <1>3, <1>5, <1>12, <3>1, Zenon
    <3> QED BY <2>1, <3>2
  <2>2. CASE i = n + 1
    <3>1. ~(i < n + 1)
      BY <2>2
    <3> QED BY <1>12, <2>2, <3>1
  <2> QED BY <2>1, <2>2
<1>15. v = e
  BY <1>7, <1>13, <1>14, Zenon
<1> QED BY <1>2, <1>4, <1>5, <1>6, <1>8, <1>10, <1>15, Zenon

\* The bits of digits do not depend on what is behind them.
LEMMA BitsInFront ==
  ASSUME NEW y \in Seq(Quintets), Len(y) = 34, NEW k \in Seq(Quintets), NEW j \in 1..170
  PROVE  Bit(y \o k, j) = Bit(y, j)
<1> HIDE DEF Quintets
<1>1. PICK i \in 1..34 : i = ((j - 1) \div 5) + 1
  <2>1. ((j - 1) \div 5) + 1 \in 1..34
    OBVIOUS
  <2> QED BY <2>1
<1>2. PICK v : v = y \o k
  OBVIOUS
<1>3. v[i] = y[i]
  <2>1. Joins(v, y, k)
    BY <1>2, Concatenated
  <2> QED BY <2>1 DEF Joins
<1>4. Bit(v, j) = (v[i] \div 2^(4 - ((j - 1) % 5))) % 2 /\ Bit(y, j) = (y[i] \div 2^(4 - ((j - 1) % 5))) % 2
  BY <1>1, Zenon DEF Bit
<1> QED BY <1>2, <1>3, <1>4, Zenon

\* So the bytes.
LEMMA BytesInFront ==
  ASSUME NEW y \in Seq(Quintets), Len(y) = 34, NEW k \in Seq(Quintets), NEW n \in 1..21
  PROVE  ByteOf(y \o k, n) = ByteOf(y, n)
<1>1. PICK v : v = y \o k
  OBVIOUS
<1>2. ASSUME NEW i \in 1..8 PROVE Bit(v, 8 * (n - 1) + i) = Bit(y, 8 * (n - 1) + i)
  <2>1. PICK j \in 1..170 : j = 8 * (n - 1) + i
    OBVIOUS
  <2> QED BY <1>1, <2>1, BitsInFront
<1>3. PICK a, b : /\ a = [i \in 1..8 |-> Bit(v, 8 * (n - 1) + i)]
                  /\ b = [i \in 1..8 |-> Bit(y, 8 * (n - 1) + i)]
  OBVIOUS
<1>4. a = b
  BY <1>2, <1>3, Zenon
<1> QED BY <1>1, <1>3, <1>4, Zenon DEF ByteOf

\* Two parts.
LEMMA TwoParts ==
  ASSUME NEW a, NEW b
  PROVE  Append(<< a >>, b) = << a, b >>
<1> DEFINE C == { a, b }
<1>1. PICK s \in Seq(C) : s = << a >> /\ Len(s) = 1
  <2>1. << a >> \in Seq(C) /\ Len(<< a >>) = 1
    OBVIOUS
  <2> QED BY <2>1
<1>2. PICK t : t = Append(s, b)
  OBVIOUS
<1>3. t \in Seq(C) /\ Len(t) = Len(s) + 1
  <2>1. b \in C
    OBVIOUS
  <2> QED BY <1>2, <2>1, AppendType
<1>4. t[1] = a /\ t[2] = b
  BY <1>1, <1>2
<1>5. /\ << a, b >> \in Seq(C) /\ Len(<< a, b >>) = 2
      /\ << a, b >>[1] = a /\ << a, b >>[2] = b
  OBVIOUS
<1>6. Len(t) = 2
  BY <1>1, <1>3
<1>7. \A i \in 1..2 : t[i] = << a, b >>[i]
  BY <1>4, <1>5
<1>8. t = << a, b >>
  BY <1>3, <1>5, <1>6, <1>7, SeqEqual
<1> QED BY <1>1, <1>2, <1>8

\* A wallet reads what cfxaddr_encode writes of an address and the id of a network as
\* that address on that network.
THEOREM AddressDecodes ==
  ASSUME NEW address \in Addresses, NEW id \in Nat, id < WordLimit
  PROVE  Decodes(AddressText(address, id), address, id)
<1>1. PICK q \in Seq(Printable) :
         Prefix(id) = q \o << 58 >> /\ Lacks(q, 58, 1, Len(q)) /\ NamesNetwork(q, id)
  BY PrefixNames
<1>2. PICK y \in Seq(Quintets) : y = Payload(address) /\ Len(y) = 34
  BY PayloadType
<1>3. PICK w : w = [i \in DOMAIN q |-> q[i] % 32]
  OBVIOUS
<1>4. ExtendedPrefix(Prefix(id)) = w \o << 0 >> /\ w \in Seq(Quintets)
  BY <1>1, <1>3, ExtendedIs, Zenon
<1>5. << 0 >> \in Seq(Quintets) /\ << 1 >> \in Seq(Quintets)
  BY DEF Quintets
<1> HIDE DEF Quintets, Printable
<1>6. PICK e \in Seq(Quintets) : e = w \o << 0 >>
  BY <1>4, <1>5, ConcatType
<1>7. PICK x \in Seq(Quintets) : x = e \o y
  BY ConcatType
<1>8. PICK k : k = Polymod(x \o Zeros)
  OBVIOUS
<1>9. k \in Seq(Quintets) /\ Len(k) = 8
  <2>1. x \o Zeros \in Seq(Quintets)
    <3>1. Zeros \in Seq(Quintets)
      BY FixedDigits, ChecksumSeq
    <3> QED BY <3>1, ConcatType
  <2>2. k \in Checksums
    BY <1>8, <2>1, PolymodType
  <2> QED BY <2>2, ChecksumSeq
<1>10. PICK d \in Seq(Quintets) : d = y \o k /\ Len(d) = 42
  <2>1. y \o k \in Seq(Quintets) /\ Len(y \o k) = Len(y) + Len(k)
    BY <1>9, ConcatType, Zenon
  <2>2. Len(y) + Len(k) = 42
    BY <1>2, <1>9
  <2> QED BY <2>1, <2>2, Zenon
<1>11. PICK body : body = Chars(d)
  OBVIOUS
<1>12. /\ body \in Seq(Printable) /\ Len(body) = 42 /\ Lacks(body, 58, 1, Len(body))
       /\ \A i \in DOMAIN body : Contains(CHARSET, body[i])
       /\ [i \in DOMAIN body |-> (CHOOSE c \in DOMAIN CHARSET : CHARSET[c] = body[i]) - 1] = d
  <2>1. Spells(body, d)
    BY <1>11, CharsRead, Zenon
  <2> QED BY <1>10, <2>1, Zenon DEF Spells
<1>13. PICK text : text = AddressText(address, id)
  OBVIOUS
<1>14. text = q \o << 58 >> \o body
  <2>1. PICK p \in Seq(Printable) : p = q \o << 58 >>
    BY <1>1, PrefixType
  <2>2. PICK a, b : a = Chars(y) /\ b = Chars(k)
    OBVIOUS
  <2>3. a \in Seq(Printable) /\ b \in Seq(Printable)
    BY <1>9, <2>2, CharsType
  <2>4. a \o b = body
    BY <1>9, <1>10, <1>11, <2>2, CharsConcat, Zenon
  <2>5. x \o Zeros = ExtendedPrefix(Prefix(id)) \o Payload(address) \o Zeros
    BY <1>2, <1>4, <1>6, <1>7, Zenon
  <2>6. text = (p \o a) \o b
    BY <1>1, <1>2, <1>8, <1>13, <2>1, <2>2, <2>5, Zenon DEF AddressText
  <2>7. (p \o a) \o b = p \o (a \o b) /\ (p \o a) \o b \in Seq(Printable)
    BY <2>3, ConcatAssociates, Zenon
  <2> QED BY <2>1, <2>4, <2>6, <2>7, Zenon
<1>15. Parts(text, 58) = << q, body >>
  <2>1. Parts(q, 58) = << q >>
    BY <1>1, PartsOne
  <2>2. 58 \in Printable
    BY DEF Printable
  <2>3. Parts(q \o << 58 >> \o body, 58) = Append(Parts(q, 58), body)
    <3>1. q \in Seq(Printable) /\ body \in Seq(Printable) /\ Lacks(body, 58, 1, Len(body))
      BY <1>1, <1>12, Zenon
    <3> QED BY <2>2, <3>1, PartsAppend, Zenon
  <2>4. Append(<< q >>, body) = << q, body >>
    BY TwoParts
  <2> QED BY <1>14, <2>1, <2>3, <2>4, Zenon
<1>16. /\ Len(<< q, body >>) = 2 /\ << q, body >>[1] = q /\ << q, body >>[2] = body
  OBVIOUS
<1>17. << 1 >> \o w \o << 0 >> \o d = << 1 >> \o (x \o k)
  <2>1. (<< 1 >> \o w) \o << 0 >> = << 1 >> \o e
    BY <1>4, <1>5, <1>6, ConcatAssociates
  <2>2. (<< 1 >> \o e) \o d = << 1 >> \o (e \o d)
    BY <1>5, ConcatAssociates
  <2>3. (e \o y) \o k = e \o (y \o k) /\ (e \o y) \o k \in Seq(Quintets)
    BY <1>9, ConcatAssociates, Zenon
  <2> QED BY <1>7, <1>10, <2>1, <2>2, <2>3, Zenon
<1>18. Remainder(<< 1 >> \o w \o << 0 >> \o d) = << 0, 0, 0, 0, 0, 0, 0, 1 >>
  BY <1>8, <1>17, ChecksumLeavesOne, Zenon DEF One
<1>19. ByteOf(d, 1) = 0
  <2>1. ByteOf(y, 0 + 1) = ByteAt(address, 0)
    <3>1. 0 \in 0..20
      OBVIOUS
    <3> QED BY <1>2, <3>1, PayloadBytes
  <2>2. ByteAt(address, 0) = 0
    BY DEF ByteAt
  <2>3. 0 + 1 = 1 /\ 1 \in 1..21
    OBVIOUS
  <2>4. ByteOf(d, 1) = ByteOf(y, 1)
    BY <1>2, <1>9, <1>10, <2>3, BytesInFront
  <2> QED BY <2>1, <2>2, <2>3, <2>4
<1>20. ASSUME NEW n \in 1..20 PROVE ByteOf(d, n + 1) = address[n]
  <2>1. n \in 0..20 /\ n + 1 \in 1..21 /\ n # 0
    OBVIOUS
  <2>2. ByteOf(y, n + 1) = ByteAt(address, n)
    BY <1>2, <2>1, PayloadBytes
  <2>3. ByteAt(address, n) = address[n]
    BY <2>1 DEF ByteAt
  <2>4. ByteOf(d, n + 1) = ByteOf(y, n + 1)
    BY <1>2, <1>9, <1>10, <2>1, BytesInFront
  <2> QED BY <2>2, <2>3, <2>4
<1>21. Bit(d, 169) = 0 /\ Bit(d, 170) = 0
  <2>1. Bit(y, 169) = 0 /\ Bit(y, 170) = 0
    BY <1>2, PayloadBits
  <2>2. 169 \in 1..170 /\ 170 \in 1..170
    OBVIOUS
  <2> QED BY <1>2, <1>9, <1>10, <2>1, <2>2, BitsInFront
<1>22. PICK parts : parts = Parts(text, 58)
  OBVIOUS
<1>23. Len(parts) = 2 /\ parts[1] = q /\ parts[2] = body
  BY <1>15, <1>16, <1>22, Zenon
<1>24. Reads(q, body, address, id)
  <2> DEFINE digits == [i \in DOMAIN body |-> (CHOOSE c \in DOMAIN CHARSET : CHARSET[c] = body[i]) - 1]
             code   == << 1 >> \o [i \in DOMAIN q |-> q[i] % 32] \o << 0 >> \o digits
  <2>1. digits = d
    BY <1>12, Zenon
  <2>2. code = << 1 >> \o w \o << 0 >> \o d
    BY <1>3, <2>1, Zenon
  <2>3. /\ Len(body) = 42
        /\ \A i \in DOMAIN body : Contains(CHARSET, body[i])
        /\ NamesNetwork(q, id)
        /\ ByteOf(digits, 1) = 0
        /\ \A n \in 1..20 : ByteOf(digits, n + 1) = address[n]
        /\ Bit(digits, 169) = 0 /\ Bit(digits, 170) = 0
        /\ Remainder(code) = << 0, 0, 0, 0, 0, 0, 0, 1 >>
    <3> HIDE DEF digits, code
    <3> QED BY <1>1, <1>12, <1>18, <1>19, <1>20, <1>21, <2>1, <2>2, Zenon
  <2> QED BY <2>3, Zenon DEF Reads
<1>25. Len(parts) = 2 /\ Reads(parts[1], parts[2], address, id)
  BY <1>23, <1>24, Zenon
<1>26. Decodes(text, address, id)
  BY <1>22, <1>25, Zenon DEF Decodes
<1> QED BY <1>13, <1>26, Zenon

-----------------------------------------------------------------------------
\* The longest address.

\* id has k + 1 digits.
HasDigits(id, k) ==
  /\ Len(NetworkDigits(id)) = k + 1
  /\ id < TenTo(k + 1) /\ (k = 0 \/ TenTo(k) <= id)

\* How many digits the id of a network has.
LEMMA DigitsOfNetwork ==
  ASSUME NEW id \in Nat, id < WordLimit
  PROVE  \E k \in Nat : HasDigits(id, k)
<1> DEFINE F == CHOOSE f : Divides(f, id)
<1>1. Divides(F, id)
  BY DividerExists, Zenon
<1> HIDE DEF F
<1>2. PICK k \in Nat : Leads(Scale(id), id, k)
  BY ScaleLeads
<1>3. TenTo(k) = Scale(id) /\ TenTo(k) <= WordLimit
  BY <1>2, ScaleType DEF Leads
<1>4. Len(F[TenTo(k)]) = k + 1
  BY <1>1, <1>3, DividerTells DEF Tells
<1>5. NetworkDigits(id) = F[TenTo(k)]
  BY <1>3, NetworkDigitsIs DEF F
<1> QED BY <1>2, <1>4, <1>5 DEF Leads, HasDigits

\* A larger id has at least as many digits.
LEMMA DigitsGrowWith ==
  ASSUME NEW id \in Nat, NEW last \in Nat, id <= last, NEW k \in Nat, NEW m \in Nat,
         HasDigits(id, k), HasDigits(last, m)
  PROVE  k <= m
<1> SUFFICES ASSUME m + 1 <= k PROVE FALSE
  OBVIOUS
<1>1. TenTo(m + 1) <= TenTo(k) /\ TenTo(m + 1) \in Nat /\ TenTo(k) \in Nat
  BY TenGrows, TenNext
<1>2. TenTo(k) <= id /\ last < TenTo(m + 1)
  BY DEF HasDigits
<1> QED BY <1>1, <1>2

\* The largest id is that of no named network.
LEMMA LargestId == WordLimit - 1 \in Nat /\ WordLimit - 1 > 1029
<1>1. WordLimit \in Nat /\ WordLimit > 1029 /\ WordBits \in Nat
  BY WordLimitType, WordAssumption
<1>2. WordLimit # 1030
  <2>1. CASE WordBits = 0
    <3>1. 2^0 = 1
      OBVIOUS
    <3> QED BY <2>1, <3>1 DEF WordLimit
  <2>2. CASE WordBits = 1
    <3>1. 2^1 = 2
      OBVIOUS
    <3> QED BY <2>2, <3>1 DEF WordLimit
  <2>3. CASE WordBits >= 2
    <3>1. PICK n \in Nat : WordBits = 2 + n
      <4>1. WordBits - 2 \in Nat /\ WordBits = 2 + (WordBits - 2)
        BY <1>1, <2>3
      <4> QED BY <4>1
    <3>2. 2^(2 + n) = 2^2 * 2^n
      BY PowerSum
    <3>3. PICK q \in Nat : q = 2^n
      BY PowerType
    <3>4. 2^2 = 4
      OBVIOUS
    <3>5. WordLimit = 4 * q
      BY <3>1, <3>2, <3>3, <3>4 DEF WordLimit
    <3> QED BY <3>5
  <2> QED BY <1>1, <2>1, <2>2, <2>3
<1> QED BY <1>1, <1>2

\* The length of a prefix.
LEMMA PrefixLength ==
  ASSUME NEW id \in Nat
  PROVE  /\ id = 1029 => Len(Prefix(id)) = 4
         /\ id = 1 => Len(Prefix(id)) = 8
         /\ id \notin { 1, 1029 } => Len(Prefix(id)) = 4 + Len(NetworkDigits(id))
<1>1. ASSUME id = 1029 PROVE Len(Prefix(id)) = 4
  <2>1. id = CFXADDR_MAINNET_ID /\ id # CFXADDR_TESTNET_ID
    BY <1>1 DEF CFXADDR_MAINNET_ID, CFXADDR_TESTNET_ID
  <2>2. Prefix(id) = << 99, 102, 120, 58 >>
    BY <2>1, Zenon DEF Prefix
  <2> QED BY <2>2
<1>2. ASSUME id = 1 PROVE Len(Prefix(id)) = 8
  <2>1. id # CFXADDR_MAINNET_ID /\ id = CFXADDR_TESTNET_ID
    BY <1>2 DEF CFXADDR_MAINNET_ID, CFXADDR_TESTNET_ID
  <2>2. Prefix(id) = << 99, 102, 120, 116, 101, 115, 116, 58 >>
    BY <2>1, Zenon DEF Prefix
  <2> QED BY <2>2
<1>3. ASSUME id \notin { 1, 1029 } PROVE Len(Prefix(id)) = 4 + Len(NetworkDigits(id))
  <2>1. id # CFXADDR_MAINNET_ID /\ id # CFXADDR_TESTNET_ID
    BY <1>3 DEF CFXADDR_MAINNET_ID, CFXADDR_TESTNET_ID
  <2>2. Prefix(id) = << 110, 101, 116 >> \o NetworkDigits(id) \o << 58 >>
    BY <2>1, Zenon DEF Prefix
  <2>3. PICK t \in Seq(Nat) : t = NetworkDigits(id)
    <3>1. Digits \subseteq Nat
      BY DEF Digits, ZERO
    <3>2. NetworkDigits(id) \in Seq(Digits)
      BY NetworkDigitsType
    <3> QED BY <3>1, <3>2, SeqMonotone
  <2>4. << 110, 101, 116 >> \in Seq(Nat) /\ << 58 >> \in Seq(Nat)
    OBVIOUS
  <2>5. PICK a \in Seq(Nat) : a = << 110, 101, 116 >> \o t /\ Len(a) = 3 + Len(t)
    <3>1. PICK s \in Seq(Nat) : s = << 110, 101, 116 >> /\ Len(s) = 3
      BY <2>4
    <3>2. s \o t \in Seq(Nat) /\ Len(s \o t) = Len(s) + Len(t)
      BY ConcatType
    <3> QED BY <3>1, <3>2
  <2>6. Len(a \o << 58 >>) = Len(a) + 1
    BY <2>4, ConcatType
  <2>7. PICK n \in Nat : n = Len(t)
    OBVIOUS
  <2>8. (3 + n) + 1 = 4 + n
    OBVIOUS
  <2> QED BY <2>2, <2>3, <2>5, <2>6, <2>7, <2>8
<1> QED BY <1>1, <1>2, <1>3

\* By what cfxaddr_encode counts, no address is longer than one on the network of
\* the largest id.
THEOREM LongestAddress ==
  ASSUME NEW id \in Nat, id < WordLimit, NEW n \in Nat, LengthFits(WordLimit - 1, n)
  PROVE  LengthFits(id, n)
<1>1. PICK last \in Nat : last = WordLimit - 1 /\ last > 1029 /\ id <= last /\ last < WordLimit
  BY LargestId, WordLimitType
<1>2. PICK m \in Nat : HasDigits(last, m)
  BY <1>1, DigitsOfNetwork
<1>3. Len(Prefix(last)) = 4 + (m + 1)
  <2>1. last \notin { 1, 1029 }
    BY <1>1
  <2> QED BY <1>2, <2>1, PrefixLength DEF HasDigits
<1>4. n >= 4 + (m + 1) + 34 + 8 + 1
  BY <1>1, <1>3 DEF LengthFits
<1>5. PICK l \in Nat : l = Len(Prefix(id)) /\ l <= 4 + (m + 1)
  <2>1. CASE id = 1029
    <3>1. Len(Prefix(id)) = 4 /\ 4 \in Nat /\ 4 <= 4 + (m + 1)
      BY <2>1, PrefixLength
    <3> QED BY <3>1
  <2>2. CASE id = 1
    <3>1. m >= 3
      <4> SUFFICES ASSUME m + 1 <= 3 PROVE FALSE
        OBVIOUS
      <4>1. TenTo(m + 1) <= TenTo(3)
        BY TenGrows
      <4>2. TenTo(3) = 1000
        <5>1. TenTo(0) = 1
          BY TenIs
        <5>2. TenTo(0 + 1) = 10 * TenTo(0) /\ TenTo(1 + 1) = 10 * TenTo(1) /\ TenTo(2 + 1) = 10 * TenTo(2)
          BY TenNext
        <5>3. 0 + 1 = 1 /\ 1 + 1 = 2 /\ 2 + 1 = 3
          OBVIOUS
        <5> QED BY <5>1, <5>2, <5>3
      <4>3. last < TenTo(m + 1) /\ TenTo(m + 1) \in Nat
        BY <1>2, TenNext DEF HasDigits
      <4> QED BY <1>1, <4>1, <4>2, <4>3
    <3>2. Len(Prefix(id)) = 8 /\ 8 \in Nat /\ 8 <= 4 + (m + 1)
      BY <2>2, <3>1, PrefixLength
    <3> QED BY <3>2
  <2>3. CASE id \notin { 1, 1029 }
    <3>1. PICK k \in Nat : HasDigits(id, k)
      BY DigitsOfNetwork
    <3>2. k <= m
      BY <1>1, <1>2, <3>1, DigitsGrowWith
    <3>3. PICK h \in Nat : h = 4 + (k + 1) /\ h <= 4 + (m + 1)
      BY <3>2
    <3>4. Len(Prefix(id)) = h
      BY <2>3, <3>1, <3>3, PrefixLength DEF HasDigits
    <3> QED BY <3>3, <3>4
  <2> QED BY <2>1, <2>2, <2>3
<1>6. n >= l + 34 + 8 + 1
  BY <1>4, <1>5
<1> QED BY <1>5, <1>6 DEF LengthFits
============================================================================
