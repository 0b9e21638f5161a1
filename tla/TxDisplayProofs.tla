-------------------------- MODULE TxDisplayProofs --------------------------
(***************************************************************************)
(* Proofs about TxDisplay, for every set of transactions, every width of   *)
(* the words and every size of the fields: the amount, the fee, the nonce, *)
(* the chain id and the data that the user reads are those that were sent. *)
(*                                                                         *)
(* First the operators: adjustDecimals, divmod256, the digits that         *)
(* tostring256 makes, the passes of uint256_to_decimal.  Then the strings, *)
(* the inductive invariant Inv, and what follows from it.                  *)
(***************************************************************************)
EXTENDS TxDisplayProps, UInt256Proofs

\* The sizes of the fields.
LEMMA Sizes ==
  /\ Decimals \in Nat /\ Len(Ticker) \in Nat /\ TmpSize \in Nat
  /\ AmountSize \in Nat /\ FeeSize \in Nat /\ NonceSize \in Nat /\ NetworkSize \in Nat
  /\ DataSize \in Nat
  /\ Len(Ticker) + Decimals + 4 <= AmountSize
  /\ Len(Ticker) + Decimals + 3 <= FeeSize
  /\ 2 <= NonceSize /\ 2 <= NetworkSize /\ Decimals + 3 <= TmpSize
BY DisplayAssumption

-----------------------------------------------------------------------------
\* adjustDecimals.

\* The text has digits, a point and digits.
Laid(text, whole, fraction) ==
  /\ whole \in Seq(Digits) /\ fraction \in Seq(Digits) /\ text \in Seq(Printable)
  /\ Len(text) = Len(whole) + 1 + Len(fraction)
  /\ \A i \in 1..Len(whole) : text[i] = whole[i]
  /\ text[Len(whole) + 1] = DOT
  /\ \A i \in 1..Len(fraction) : text[Len(whole) + 1 + i] = fraction[i]

\* What Pointed makes of the digits of n: a numeral before the point, all
\* decimals behind it.
Units(src, n, whole, fraction) ==
  /\ Laid(Pointed(src), whole, fraction)
  /\ IsNumeral(whole) /\ Len(fraction) = Decimals
  /\ Len(whole) = IF Len(src) <= Decimals THEN 1 ELSE Len(src) - Decimals
  /\ ReadNumber(whole) * TenTo(Decimals) + ReadNumber(fraction) = n
  /\ \/ FractionStart(Len(src)) = Len(whole) + 1
     \/ /\ FractionStart(Len(src)) - Len(whole) \in 1..Decimals
        /\ fraction[FractionStart(Len(src)) - Len(whole)] # ZERO

\* Digits, points and texts.
LEMMA Points ==
  /\ DOT \in Printable /\ ZERO \in Digits /\ DOT \notin Digits
  /\ Digits \subseteq Printable
BY DEF Printable, Digits, DOT, ZERO

\* A number without a whole part.
LEMMA UnitsBelow ==
  ASSUME NEW src \in Seq(Digits), Len(src) \in 1..Decimals, src[1] # ZERO
  PROVE  \E whole, fraction : Units(src, ReadNumber(src), whole, fraction)
<1> DEFINE D == Decimals
           L == Len(src)
           z == [i \in 1..(D - L) |-> ZERO]
           f == z \o src
           w == << ZERO >>
           a == << ZERO, DOT >>
           text == (a \o z) \o src
<1>0. D \in Nat /\ L \in Nat /\ D - L \in Nat
  BY Sizes
<1>1. z \in Seq(Digits) /\ Len(z) = D - L /\ \A i \in 1..Len(z) : z[i] = ZERO
  <2>1. z \in [1..(D - L) -> Digits]
    BY Points
  <2> QED BY <1>0, <2>1, SeqOfFunction
<1>2. Pointed(src) = text
  <2>1. Len(src) <= Decimals
    OBVIOUS
  <2> QED BY <2>1, Zenon DEF Pointed
<1>3. FractionStart(L) = 2 + (D - L)
  BY DEF FractionStart
<1>4. /\ a \in Seq(Printable) /\ Len(a) = 2 /\ a[1] = ZERO /\ a[2] = DOT
      /\ w \in Seq(Digits) /\ Len(w) = 1 /\ w[1] = ZERO
  <2>1. ZERO \in Printable /\ DOT \in Printable /\ ZERO \in Digits
    BY Points
  <2> QED BY <2>1
<1> HIDE DEF z, a, w
<1>5. z \in Seq(Printable) /\ src \in Seq(Printable)
  BY <1>1, Points, SeqMonotonic
<1>6. a \o z \in Seq(Printable) /\ Joins(a \o z, a, z)
  BY <1>4, <1>5, Concatenated
<1>7. text \in Seq(Printable) /\ Joins(text, a \o z, src)
  BY <1>5, <1>6, Concatenated
<1>8. f \in Seq(Digits) /\ Joins(f, z, src)
  BY <1>1, Concatenated
<1>9. Len(text) = 2 + D /\ Len(f) = D /\ Len(a \o z) = 2 + (D - L)
  BY <1>0, <1>1, <1>4, <1>6, <1>7, <1>8 DEF Joins
<1>10. text[1] = ZERO /\ text[2] = DOT
  <2>1. 1 \in 1..Len(a \o z) /\ 2 \in 1..Len(a \o z) /\ 1 \in 1..Len(a) /\ 2 \in 1..Len(a)
    BY <1>0, <1>4, <1>9
  <2> HIDE DEF text
  <2> QED BY <1>4, <1>6, <1>7, <2>1 DEF Joins
<1>11. \A i \in 1..D : text[2 + i] = f[i]
  <2> TAKE i \in 1..D
  <2>1. CASE i <= D - L
    <3>1. 2 + i \in 1..Len(a \o z) /\ i \in 1..Len(z)
      BY <1>0, <1>1, <1>9, <2>1
    <3>2. text[2 + i] = (a \o z)[2 + i]
      BY <1>7, <3>1 DEF Joins
    <3>3. (a \o z)[2 + i] = z[i]
      BY <1>4, <1>6, <3>1 DEF Joins
    <3>4. f[i] = z[i]
      BY <1>8, <3>1 DEF Joins
    <3> QED BY <3>2, <3>3, <3>4
  <2>2. CASE ~(i <= D - L)
    <3>1. PICK j \in 1..L : i = (D - L) + j
      <4>1. i - (D - L) \in 1..L
        BY <1>0, <2>2
      <4>2. i = (D - L) + (i - (D - L))
        BY <1>0
      <4> QED BY <4>1, <4>2
    <3>2. text[Len(a \o z) + j] = src[j]
      BY <1>7 DEF Joins
    <3>3. f[Len(z) + j] = src[j]
      BY <1>8 DEF Joins
    <3>4. 2 + i = Len(a \o z) + j /\ i = Len(z) + j
      BY <1>0, <1>1, <1>9, <3>1
    <3> QED BY <3>2, <3>3, <3>4
  <2> QED BY <2>1, <2>2
<1>12. Laid(Pointed(src), w, f)
  <2>1. Len(w) + 1 = 2 /\ Len(f) = D /\ Len(text) = Len(w) + 1 + Len(f)
    BY <1>0, <1>4, <1>9
  <2>2. \A i \in 1..Len(w) : i = 1
    BY <1>4
  <2> HIDE DEF text, f
  <2>3. \A i \in 1..Len(f) : text[Len(w) + 1 + i] = f[i]
    BY <1>11, <2>1
  <2> QED BY <1>2, <1>4, <1>7, <1>8, <1>10, <2>1, <2>2, <2>3 DEF Laid
<1>13. IsNumeral(w) /\ ReadNumber(w) = 0
  <2>1. w # << >> /\ \A i \in DOMAIN w : i = 1
    BY DEF w
  <2>2. IsNumeral(w)
    BY <1>4, <2>1 DEF IsNumeral, IsNumber, ZERO
  <2>3. ReadNumber(w) = 0
    BY <1>4, ReadZeros
  <2> QED BY <2>2, <2>3
<1>14. ReadNumber(f) = ReadNumber(src)
  <2>1. ReadsJoined(z, src)
    BY <1>1, ReadJoined
  <2>2. ReadNumber(z) = 0
    BY <1>1, ReadZeros
  <2>3. PICK p \in Nat, r \in Nat : p = TenTo(Len(src)) /\ r = ReadNumber(src)
    BY <1>0, TenIs, Points, ReadAppend
  <2>4. 0 * p + r = r
    OBVIOUS
  <2> QED BY <2>1, <2>2, <2>3, <2>4, Zenon DEF ReadsJoined
<1>15. ReadNumber(w) * TenTo(D) + ReadNumber(f) = ReadNumber(src)
  <2>1. PICK p \in Nat, r \in Nat : p = TenTo(D) /\ r = ReadNumber(src)
    BY <1>0, TenIs, Points, ReadAppend
  <2>2. 0 * p + r = r
    OBVIOUS
  <2> QED BY <1>13, <1>14, <2>1, <2>2, Zenon
<1>16. FractionStart(L) - Len(w) \in 1..D /\ f[FractionStart(L) - Len(w)] # ZERO
  <2>1. FractionStart(L) - Len(w) = Len(z) + 1 /\ 1 \in 1..L /\ Len(z) + 1 \in 1..D
    BY <1>0, <1>1, <1>3, <1>4
  <2>2. f[Len(z) + 1] = src[1]
    BY <1>8, <2>1 DEF Joins
  <2> QED BY <2>1, <2>2
<1>17. Len(w) = IF L <= D THEN 1 ELSE L - D
  BY <1>4
<1>18. Units(src, ReadNumber(src), w, f)
  BY <1>9, <1>12, <1>13, <1>15, <1>16, <1>17 DEF Units
<1> QED BY <1>18

\* A number with a whole part.
LEMMA UnitsAbove ==
  ASSUME NEW src \in Seq(Digits), Len(src) > Decimals, Decimals > 0, src[1] # ZERO
  PROVE  \E whole, fraction : Units(src, ReadNumber(src), whole, fraction)
<1> DEFINE D == Decimals
           L == Len(src)
           w == SubSeq(src, 1, L - D)
           f == SubSeq(src, L - D + 1, L)
           text == (w \o << DOT >>) \o f
<1>0. D \in Nat \ {0} /\ L \in Nat /\ L - D \in Nat \ {0}
  BY Sizes
<1>1. /\ w \in Seq(Digits) /\ Len(w) = L - D /\ \A i \in 1..(L - D) : w[i] = src[i]
      /\ f \in Seq(Digits) /\ Len(f) = D
  <2>1. \A i \in 1..L : src[i] \in Digits
    BY ElementOfSeq
  <2>2. \A i \in 1..(L - D) : src[i] \in Digits
    BY <1>0, <2>1
  <2>3. \A i \in (L - D + 1)..L : src[i] \in Digits
    BY <1>0, <2>1
  <2>4. w \in Seq(Digits) /\ Len(w) = L - D /\ \A i \in 1..(L - D) : w[i] = src[i]
    BY <1>0, <2>2
  <2>5. f \in Seq(Digits) /\ Len(f) = D
    BY <1>0, <2>3
  <2> QED BY <2>4, <2>5
<1>2. Pointed(src) = text
  <2>1. ~(Len(src) <= Decimals) /\ Decimals # 0
    BY <1>0
  <2> QED BY <2>1, Zenon DEF Pointed
<1>3. FractionStart(L) = Len(w) + 1
  BY <1>0, <1>1 DEF FractionStart
<1>4. src = w \o f
  <2>1. 1 \in 1..(L + 1) /\ L - D \in (1 - 1)..L /\ L \in (L - D)..L
    BY <1>0
  <2>2. SubSeq(src, 1, L - D) \o SubSeq(src, (L - D) + 1, L) = SubSeq(src, 1, L)
    BY <2>1, ConcatAdjacentSubSeq
  <2>3. SubSeq(src, 1, L) = src
    BY SubSeqFull
  <2> QED BY <2>2, <2>3
<1> HIDE DEF w, f
<1>5. w \in Seq(Printable) /\ f \in Seq(Printable) /\ << DOT >> \in Seq(Printable)
      /\ Len(<< DOT >>) = 1 /\ << DOT >>[1] = DOT
  <2>1. w \in Seq(Printable) /\ f \in Seq(Printable)
    BY <1>1, Points, SeqMonotonic
  <2>2. << DOT >> \in Seq(Printable)
    BY Points
  <2> QED BY <2>1, <2>2
<1>6. w \o << DOT >> \in Seq(Printable) /\ Joins(w \o << DOT >>, w, << DOT >>)
  BY <1>5, Concatenated
<1>7. text \in Seq(Printable) /\ Joins(text, w \o << DOT >>, f)
  BY <1>5, <1>6, Concatenated
<1>8. Len(w \o << DOT >>) = Len(w) + 1 /\ Len(text) = Len(w) + 1 + Len(f)
  BY <1>1, <1>5, <1>6, <1>7 DEF Joins
<1>9. Laid(text, w, f)
  <2>1. Len(w) \in Nat
    BY <1>1
  <2>2. ASSUME NEW i \in 1..Len(w) PROVE text[i] = w[i]
    <3>1. i \in 1..Len(w \o << DOT >>)
      BY <1>8, <2>1
    <3> QED BY <1>6, <1>7, <3>1 DEF Joins
  <2>3. text[Len(w) + 1] = DOT
    <3>1. Len(w) + 1 \in 1..Len(w \o << DOT >>) /\ 1 \in 1..Len(<< DOT >>)
      BY <1>5, <1>8, <2>1
    <3>2. text[Len(w) + 1] = (w \o << DOT >>)[Len(w) + 1]
      BY <1>7, <3>1 DEF Joins
    <3>3. (w \o << DOT >>)[Len(w) + 1] = << DOT >>[1]
      BY <1>6, <3>1 DEF Joins
    <3> QED BY <1>5, <3>2, <3>3
  <2>4. \A i \in 1..Len(f) : text[Len(w) + 1 + i] = f[i]
    BY <1>7, <1>8 DEF Joins
  <2> HIDE DEF text
  <2> QED BY <1>1, <1>7, <1>8, <2>2, <2>3, <2>4 DEF Laid
<1>10. IsNumeral(w)
  <2>1. w # << >> /\ \A i \in DOMAIN w : w[i] \in Digits
    BY <1>0, <1>1, ElementOfSeq
  <2>2. w[1] = src[1]
    BY <1>0, <1>1
  <2> QED BY <2>1, <2>2 DEF IsNumeral, IsNumber, Digits
<1>11. ReadNumber(w) * TenTo(D) + ReadNumber(f) = ReadNumber(src)
  <2>1. ReadsJoined(w, f)
    BY <1>1, ReadJoined
  <2> QED BY <1>1, <1>4, <2>1, Zenon DEF ReadsJoined
<1>12. Len(w) = IF L <= D THEN 1 ELSE L - D
  BY <1>0, <1>1
<1>13. Units(src, ReadNumber(src), w, f)
  BY <1>1, <1>2, <1>3, <1>9, <1>10, <1>11, <1>12 DEF Units
<1> QED BY <1>13

\* A set of natural numbers has a smallest one.
LEMMA Smallest ==
  ASSUME NEW S, S \subseteq Nat, S # {}
  PROVE  Min(S) \in S /\ \A n \in S : Min(S) <= n
<1>1. \E x \in S : \A y \in S : x <= y
  <2> SUFFICES ASSUME \A x \in S : \E y \in S : ~(x <= y) PROVE FALSE
    OBVIOUS
  <2> DEFINE T == Nat \ S
  <2>1. ASSUME NEW n \in Nat, \A k \in 0..(n - 1) : k \in T PROVE n \in T
    <3>1. CASE n \in S
      <4>1. PICK y \in S : ~(n <= y)
        BY <3>1
      <4>2. y \in 0..(n - 1)
        BY <4>1
      <4> QED BY <2>1, <4>2
    <3> QED BY <3>1
  <2> HIDE DEF T
  <2>2. Nat \subseteq T
    BY <2>1, StrongInduction
  <2> QED BY <2>2 DEF T
<1> QED BY <1>1, Zenon DEF Min

\* What is left of the digits of n once zeros at the end are cut off writes n.
LEMMA CutOff ==
  ASSUME NEW src, NEW n, NEW whole, NEW fraction, Units(src, n, whole, fraction),
         Decimals > 0, src # << ZERO >>
  PROVE  /\ Writes(Adjusted(src), n)
         /\ Adjusted(src) \in Seq(Printable)
         /\ Len(Adjusted(src)) <= Len(whole) + 1 + Decimals
<1> DEFINE D == Decimals
           text == Pointed(src)
           w == Len(whole)
           start == FractionStart(Len(src))
           K == { k \in start..Len(text) : \A i \in (k + 1)..Len(text) : text[i] = ZERO }
           cut == Min(K)
           c == cut - (w + 1)
<1>0. D \in Nat \ {0} /\ w \in Nat
  BY Sizes DEF Units, Laid
<1>1. /\ whole \in Seq(Digits) /\ fraction \in Seq(Digits) /\ text \in Seq(Printable)
      /\ Len(text) = w + 1 + D /\ Len(fraction) = D /\ IsNumeral(whole)
      /\ \A i \in 1..w : text[i] = whole[i]
      /\ text[w + 1] = DOT
      /\ \A i \in 1..D : text[w + 1 + i] = fraction[i]
      /\ ReadNumber(whole) * TenTo(D) + ReadNumber(fraction) = n
  BY DEF Units, Laid
<1>2. start = w + 1 \/ (start - w \in 1..D /\ fraction[start - w] # ZERO)
  BY DEF Units
<1>3. Adjusted(src) = IF cut < Len(text) /\ text[cut] = DOT
                      THEN SubSeq(text, 1, cut - 1) ELSE SubSeq(text, 1, cut)
  BY Zenon DEF Adjusted
<1>s. start \in Int
  BY Sizes DEF FractionStart, Units, Laid
<1> HIDE DEF text, start, w, D
<1>4. start \in (w + 1)..(w + D)
  BY <1>0, <1>2, <1>s
<1>5. K \subseteq Nat /\ Len(text) \in K
  BY <1>0, <1>1, <1>4
<1>6. cut \in K /\ \A k \in K : cut <= k
  <2> HIDE DEF K
  <2> QED BY <1>5, Smallest
<1>7. cut \in start..Len(text) /\ \A i \in (cut + 1)..Len(text) : text[i] = ZERO
  <2> HIDE DEF cut
  <2> QED BY <1>6
<1>8. ASSUME NEW k \in start..(cut - 1) PROVE \E i \in (k + 1)..Len(text) : text[i] # ZERO
  <2> HIDE DEF cut
  <2>1. k \in start..Len(text) /\ ~(cut <= k)
    BY <1>4, <1>7
  <2> QED BY <1>6, <2>1
<1> HIDE DEF cut, K
<1>9. c \in 0..D /\ cut = w + 1 + c
  BY <1>0, <1>1, <1>4, <1>7
<1> HIDE DEF c
<1>10. \A i \in (c + 1)..D : fraction[i] = ZERO
  <2> TAKE i \in (c + 1)..D
  <2>1. i \in 1..D /\ w + 1 + i \in (cut + 1)..Len(text)
    BY <1>0, <1>1, <1>9
  <2> QED BY <1>1, <1>7, <2>1
<1>11. c > 0 => fraction[c] # ZERO
  <2> SUFFICES ASSUME c > 0, fraction[c] = ZERO PROVE FALSE
    OBVIOUS
  <2>1. c \in 1..D /\ text[cut] = ZERO
    BY <1>1, <1>9
  <2>2. cut > start
    <3>1. CASE cut = start
      <4>1. start - w \in 1..D /\ fraction[start - w] # ZERO /\ start - w = c + 1
        BY <1>0, <1>2, <1>9, <2>1, <3>1
      <4> QED BY <1>0, <1>10, <2>1, <4>1
    <3> QED BY <1>4, <1>7, <3>1
  <2>3. cut - 1 \in start..(cut - 1)
    BY <1>4, <1>7, <2>2
  <2>4. PICK i \in ((cut - 1) + 1)..Len(text) : text[i] # ZERO
    BY <1>8, <2>3
  <2>5. i = cut \/ i \in (cut + 1)..Len(text)
    BY <1>4, <1>7, <2>4
  <2> QED BY <1>7, <2>1, <2>4, <2>5
<1>12. CASE c = 0
  <2>1. cut = w + 1 /\ cut < Len(text) /\ text[cut] = DOT
    BY <1>0, <1>1, <1>9, <1>12
  <2>2. Adjusted(src) = SubSeq(text, 1, cut - 1)
    BY <1>3, <2>1
  <2>3. SubSeq(text, 1, cut - 1) = whole
    <3>0. \A i \in 1..w : whole[i] \in Digits
      BY <1>1, ElementOfSeq DEF w
    <3>1. cut - 1 = w /\ \A i \in 1..w : text[i] \in Digits
      BY <1>0, <1>1, <2>1, <3>0
    <3>2. SubSeq(text, 1, w) \in Seq(Digits) /\ Len(SubSeq(text, 1, w)) = w
          /\ \A i \in 1..w : SubSeq(text, 1, w)[i] = text[i]
      BY <1>0, <3>1
    <3>3. SubSeq(text, 1, w) = whole
      BY <1>1, <3>2, SeqEqual DEF w
    <3> QED BY <3>1, <3>3
  <2>4. ReadNumber(fraction) = 0
    <3>1. \A i \in 1..Len(fraction) : fraction[i] = ZERO
      BY <1>0, <1>1, <1>10, <1>12
    <3> QED BY <1>1, <3>1, ReadZeros
  <2>5. ReadNumber(whole) * TenTo(D) = n
    <3>1. PICK p \in Nat, r \in Nat : p = TenTo(D) /\ r = ReadNumber(whole)
      BY <1>0, <1>1, TenIs, Points, ReadAppend
    <3>2. r * p + 0 = r * p
      OBVIOUS
    <3> QED BY <1>1, <2>4, <3>1, <3>2, Zenon
  <2>6. Writes(whole, n)
    BY <1>1, <2>5 DEF Writes, D
  <2>7. Adjusted(src) = whole
    BY <2>2, <2>3
  <2>8. whole \in Seq(Printable)
    BY <1>1, Points, SeqMonotonic
  <2>9. Len(whole) <= Len(whole) + 1 + Decimals
    BY <1>0 DEF w, D
  <2> QED BY <2>6, <2>7, <2>8, <2>9
<1>13. CASE c > 0
  <2> DEFINE t == SubSeq(text, 1, cut)
             g == SubSeq(fraction, 1, c)
             z == SubSeq(fraction, c + 1, D)
  <2>0. c \in 1..D /\ cut = (w + 1) + c
    BY <1>0, <1>9, <1>13
  <2>1. text[cut] # DOT
    <3>1. text[cut] = fraction[c] /\ fraction[c] \in Digits
      BY <1>1, <2>0, ElementOfSeq
    <3> QED BY <3>1, Points
  <2>2. Adjusted(src) = t
    BY <1>3, <2>1
  <2>3. t \in Seq(Printable) /\ Len(t) = cut /\ \A i \in 1..cut : t[i] = text[i]
    BY <1>0, <1>1, <2>0
  <2>4. g \in Seq(Digits) /\ Len(g) = c /\ \A i \in 1..c : g[i] = fraction[i]
    <3>1. \A i \in 1..D : fraction[i] \in Digits
      BY <1>1, ElementOfSeq
    <3>2. \A i \in 1..c : fraction[i] \in Digits
      BY <1>0, <2>0, <3>1
    <3> QED BY <1>0, <2>0, <3>2
  <2>5. z \in Seq(Digits) /\ Len(z) = D - c /\ \A i \in 1..Len(z) : z[i] = ZERO
    <3>1. \A i \in (c + 1)..D : fraction[i] \in Digits
      BY <1>10, Points
    <3>2. /\ z \in Seq(Digits) /\ Len(z) = D - c
          /\ \A i \in 1..(D - c) : z[i] = fraction[(c + 1) + i - 1]
      <4>1. c + 1 \in Int /\ D \in Int
        BY <1>0, <2>0
      <4>2. /\ z \in Seq(Digits)
            /\ Len(z) = IF c + 1 <= D THEN D - (c + 1) + 1 ELSE 0
            /\ \A i \in 1..(D - (c + 1) + 1) : z[i] = fraction[(c + 1) + i - 1]
        BY <3>1, <4>1, SubSeqProperties
      <4>3. D - (c + 1) + 1 = D - c /\ (~(c + 1 <= D) => D - c = 0)
        BY <1>0, <2>0
      <4> HIDE DEF z
      <4> QED BY <4>2, <4>3
    <3>3. \A i \in 1..(D - c) : (c + 1) + i - 1 \in (c + 1)..D
      BY <1>0, <2>0
    <3> HIDE DEF z
    <3> QED BY <1>10, <3>2, <3>3
  <2>6. fraction = g \o z
    <3>1. 1 \in 1..(D + 1) /\ c \in (1 - 1)..D /\ D \in c..D
      BY <1>0, <2>0
    <3>2. SubSeq(fraction, 1, c) \o SubSeq(fraction, c + 1, D) = SubSeq(fraction, 1, D)
      BY <1>1, <3>1, ConcatAdjacentSubSeq
    <3>3. SubSeq(fraction, 1, D) = fraction
      BY <1>1, SubSeqFull
    <3> QED BY <3>2, <3>3
  <2> HIDE DEF t, g, z
  <2>7. SubSeq(t, 1, (w + 1) - 1) = whole
    <3>1. (w + 1) - 1 = w /\ \A i \in 1..w : i \in 1..cut
      BY <1>0, <2>0
    <3>2. \A i \in 1..w : t[i] = whole[i] /\ whole[i] \in Digits
      BY <1>1, <2>3, <3>1, ElementOfSeq DEF w
    <3>3. SubSeq(t, 1, w) \in Seq(Digits) /\ Len(SubSeq(t, 1, w)) = w
          /\ \A i \in 1..w : SubSeq(t, 1, w)[i] = t[i]
      BY <1>0, <3>2
    <3>4. SubSeq(t, 1, w) = whole
      BY <1>1, <3>2, <3>3, SeqEqual DEF w
    <3> QED BY <3>1, <3>4
  <2>8. SubSeq(t, (w + 1) + 1, Len(t)) = g
    <3>1. \A i \in ((w + 1) + 1)..cut : i \in 1..cut /\ i - (w + 1) \in 1..c
                                        /\ w + 1 + (i - (w + 1)) = i
      BY <1>0, <2>0
    <3>2. \A j \in 1..c : j \in 1..D
      BY <1>0, <2>0
    <3>3. \A j \in 1..c : text[w + 1 + j] = g[j] /\ g[j] \in Digits
      BY <1>1, <2>4, <3>2, ElementOfSeq
    <3>4. \A i \in ((w + 1) + 1)..cut : t[i] = g[i - (w + 1)] /\ t[i] \in Digits
      <4> TAKE i \in ((w + 1) + 1)..cut
      <4>1. t[i] = text[i] /\ i - (w + 1) \in 1..c /\ w + 1 + (i - (w + 1)) = i
        BY <2>3, <3>1
      <4>2. text[w + 1 + (i - (w + 1))] = g[i - (w + 1)] /\ g[i - (w + 1)] \in Digits
        BY <3>3, <4>1
      <4> QED BY <4>1, <4>2
    <3> DEFINE h == SubSeq(t, (w + 1) + 1, cut)
    <3>5. /\ h \in Seq(Digits) /\ Len(h) = c
          /\ \A j \in 1..c : h[j] = t[((w + 1) + 1) + j - 1]
      <4>1. (w + 1) + 1 \in Int /\ cut \in Int
        BY <1>0, <2>0
      <4>2. /\ h \in Seq(Digits)
            /\ Len(h) = IF (w + 1) + 1 <= cut THEN cut - ((w + 1) + 1) + 1 ELSE 0
            /\ \A j \in 1..(cut - ((w + 1) + 1) + 1) : h[j] = t[((w + 1) + 1) + j - 1]
        BY <3>4, <4>1, SubSeqProperties
      <4>3. (w + 1) + 1 <= cut /\ cut - ((w + 1) + 1) + 1 = c
        BY <1>0, <2>0
      <4> HIDE DEF h
      <4> QED BY <4>2, <4>3
    <3>6. \A j \in 1..c : /\ ((w + 1) + 1) + j - 1 \in ((w + 1) + 1)..cut
                          /\ (((w + 1) + 1) + j - 1) - (w + 1) = j
      BY <1>0, <2>0
    <3> HIDE DEF h
    <3>7. \A j \in 1..c : h[j] = g[j]
      BY <3>4, <3>5, <3>6
    <3>8. h = g
      BY <2>4, <3>5, <3>7, SeqEqual
    <3> QED BY <2>3, <3>8 DEF h
  <2>9. ReadNumber(whole) * TenTo(D) + ReadNumber(g) * TenTo(D - c) = n
    <3>1. ReadsJoined(g, z)
      BY <2>4, <2>5, ReadJoined
    <3>2. ReadNumber(z) = 0
      BY <2>5, ReadZeros
    <3>3. ReadNumber(fraction) = ReadNumber(g) * TenTo(D - c) + 0
      BY <2>5, <2>6, <3>1, <3>2, Zenon DEF ReadsJoined
    <3>4. PICK p \in Nat, r \in Nat : p = TenTo(D - c) /\ r = ReadNumber(g)
      <4>1. D - c \in Nat
        BY <1>0, <2>0
      <4> QED BY <2>4, <4>1, TenIs, Points, ReadAppend
    <3>5. r * p + 0 = r * p
      OBVIOUS
    <3> QED BY <1>1, <3>3, <3>4, <3>5, Zenon
  <2>10. IsNumber(g)
    <3>1. g # << >> /\ \A i \in DOMAIN g : g[i] \in Digits
      BY <2>0, <2>4, ElementOfSeq
    <3> QED BY <3>1 DEF IsNumber, Digits
  <2>11. Writes(t, n)
    <3>1. w + 1 \in DOMAIN t /\ t[w + 1] = DOT
      <4>1. w + 1 \in 1..cut
        BY <1>0, <2>0
      <4> QED BY <1>1, <2>3, <4>1
    <3>2. Len(g) <= D /\ g[Len(g)] # ZERO
      BY <1>0, <1>11, <1>13, <2>0, <2>4
    <3> QED BY <1>1, <2>4, <2>7, <2>8, <2>9, <2>10, <3>1, <3>2, Zenon DEF Writes, D
  <2>12. Len(t) <= w + 1 + D
    BY <1>0, <2>0, <2>3
  <2> QED BY <2>2, <2>3, <2>11, <2>12 DEF w, D
<1> QED BY <1>9, <1>12, <1>13

\* adjustDecimals writes the number, in no more characters than its digits or
\* its decimals need.
LEMMA AdjustedIs ==
  ASSUME NEW n \in Nat
  PROVE  /\ Writes(Adjusted(Decimal(n)), n)
         /\ Adjusted(Decimal(n)) \in Seq(Printable)
         /\ Len(Adjusted(Decimal(n)))
              <= IF Len(Decimal(n)) <= Decimals THEN Decimals + 2 ELSE Len(Decimal(n)) + 1
<1> DEFINE src == Decimal(n)
           L == Len(src)
<1>1. /\ src \in Seq(Digits) /\ IsNumeral(src) /\ ReadNumber(src) = n
      /\ n > 0 => src[1] # ZERO
  BY DecimalReads
<1>2. L \in Nat \ {0} /\ Decimals \in Nat
  <2>1. 1 \in Nat \ {0}
    OBVIOUS
  <2>2. L \in Nat \ {0}
    BY <2>1, DecimalLength
  <2> QED BY <2>2, Sizes
<1> DEFINE Right == /\ Writes(Adjusted(src), n) /\ Adjusted(src) \in Seq(Printable)
                    /\ Len(Adjusted(src)) <= IF L <= Decimals THEN Decimals + 2 ELSE L + 1
<1> HIDE DEF src
<1>3. ASSUME src = << ZERO >> PROVE Right
  <2>1. Adjusted(src) = src
    BY <1>3, Zenon DEF Adjusted
  <2>2. n = 0
    <3>1. src[1] = ZERO
      BY <1>3
    <3> QED BY <1>1, <3>1
  <2>3. Writes(src, n)
    <3>1. PICK p \in Nat : p = TenTo(Decimals)
      BY <1>2, TenIs
    <3>2. 0 * p = 0
      OBVIOUS
    <3> QED BY <1>1, <2>2, <3>1, <3>2, Zenon DEF Writes
  <2>4. src \in Seq(Printable)
    BY <1>1, Points, SeqMonotonic
  <2>5. L <= IF L <= Decimals THEN Decimals + 2 ELSE L + 1
    BY <1>2
  <2> QED BY <2>1, <2>3, <2>4, <2>5
<1>4. ASSUME src # << ZERO >> PROVE Right
  <2>0. src[1] # ZERO
    <3>1. ASSUME src[1] = ZERO PROVE FALSE
      <4>1. L = 1
        BY <1>1, <3>1 DEF IsNumeral
      <4>2. src = << ZERO >>
        BY <1>1, <3>1, <4>1
      <4> QED BY <1>4, <4>2
    <3> QED BY <3>1
  <2>1. CASE L <= Decimals
    <3>1. L \in 1..Decimals /\ Decimals > 0
      BY <1>2, <2>1
    <3>2. PICK whole, fraction : Units(src, n, whole, fraction)
      BY <1>1, <2>0, <3>1, UnitsBelow
    <3>3. /\ Writes(Adjusted(src), n) /\ Adjusted(src) \in Seq(Printable)
          /\ Len(Adjusted(src)) <= Len(whole) + 1 + Decimals
      BY <1>4, <3>1, <3>2, CutOff
    <3>4. Len(whole) = 1
      BY <2>1, <3>2 DEF Units
    <3> QED BY <1>2, <2>1, <3>3, <3>4
  <2>2. CASE L > Decimals /\ Decimals > 0
    <3>2. PICK whole, fraction : Units(src, n, whole, fraction)
      BY <1>1, <2>0, <2>2, UnitsAbove
    <3>3. /\ Writes(Adjusted(src), n) /\ Adjusted(src) \in Seq(Printable)
          /\ Len(Adjusted(src)) <= Len(whole) + 1 + Decimals
      BY <1>4, <2>2, <3>2, CutOff
    <3>4. Len(whole) = L - Decimals
      BY <1>2, <2>2, <3>2 DEF Units
    <3> QED BY <1>2, <2>2, <3>3, <3>4
  <2>3. CASE L > Decimals /\ Decimals = 0
    <3>1. SubSeq(src, 1, L) = src /\ SubSeq(src, L + 1, L) = << >> /\ L - 0 = L
          /\ src \o << >> = src
      BY <1>1, <1>2
    <3>2. Pointed(src) = src
      <4>1. Pointed(src) = SubSeq(src, 1, L - 0) \o << >> \o SubSeq(src, L - 0 + 1, L)
        BY <1>2, <2>3 DEF Pointed
      <4> QED BY <3>1, <4>1, Zenon
    <3>3. FractionStart(L) = L
      BY <1>2, <2>3 DEF FractionStart
    <3> DEFINE K == { k \in L..L : \A i \in (k + 1)..L : src[i] = ZERO }
               cut == Min(K)
    <3>4. K = { L }
      BY <1>2
    <3>5. cut = L
      <4>1. K \subseteq Nat /\ K # {}
        BY <1>2, <3>4
      <4>2. Min(K) \in K
        <5> HIDE DEF K
        <5> QED BY <4>1, Smallest
      <4> QED BY <3>4, <4>2
    <3>6. Adjusted(src) = IF cut < L /\ src[cut] = DOT
                          THEN SubSeq(src, 1, cut - 1) ELSE SubSeq(src, 1, cut)
      BY <1>4, <3>2, <3>3, Zenon DEF Adjusted
    <3> HIDE DEF cut
    <3>7. Adjusted(src) = src
      <4>1. ~(cut < L)
        BY <1>2, <3>5
      <4> QED BY <3>1, <3>5, <3>6, <4>1, Zenon
    <3>8. Writes(src, n)
      <4>1. n * TenTo(Decimals) = n
        BY <2>3, TenIs
      <4> QED BY <1>1, <4>1 DEF Writes
    <3>9. src \in Seq(Printable)
      BY <1>1, Points, SeqMonotonic
    <3>10. L <= IF L <= Decimals THEN Decimals + 2 ELSE L + 1
      BY <1>2
    <3> QED BY <3>7, <3>8, <3>9, <3>10
  <2> QED BY <1>2, <2>1, <2>2, <2>3
<1>5. Right
  BY <1>3, <1>4
<1> QED BY <1>5 DEF src

-----------------------------------------------------------------------------
\* divmod256.

\* Ten and one as numbers of 256 bits.
LEMMA TenAndOne ==
  /\ Ten \in Numbers256 /\ Value(Ten) = 10
  /\ Small(1) \in Numbers256 /\ Value(Small(1)) = 1
<1>1. 10 \in 0..(Word - 1) /\ 1 \in 0..(Word - 1)
  BY DisplayAssumption, Bases
<1> QED BY <1>1, SmallIs, Zenon DEF Ten

\* A power of two is twice the one before.
LEMMA HalfPower ==
  ASSUME NEW j \in Nat \ {0}
  PROVE  2^(j - 1) \in Nat \ {0} /\ 2^j = 2 * 2^(j - 1)
<1>1. j - 1 \in Nat /\ (j - 1) + 1 = j
  OBVIOUS
<1> QED BY <1>1, PowerDoubles, PowerType

\* The number and ten times a power of two that Align starts with have the
\* same highest bit.
LEMMA SameBits ==
  ASSUME NEW r \in Numbers256, Value(r) >= 10,
         NEW d, d = Bits256(r) - Bits256(Ten)
  PROVE  /\ d \in 0..(4 * WordBits)
         /\ 10 * 2^d < Modulus /\ 2^d < Modulus
         /\ Value(r) < 2 * (10 * 2^d)
<1>1. PICK b \in 0..(4 * WordBits) : b = Bits256(r) /\ HasBits(Value(r), b)
  BY Bits256Is
<1>2. PICK t \in 0..(4 * WordBits) : t = Bits256(Ten) /\ HasBits(10, t)
  BY Bits256Is, TenAndOne
<1>3. PICK v \in Nat : v = Value(r) /\ v >= 10
  BY Type256, ModulusIs
<1>4. WordBits \in Nat /\ 4 * WordBits \in Nat
  BY Bases
<1>5. b \in Nat /\ t \in Nat
  BY <1>4
<1>6. PICK x \in Nat \ {0} : x = 2^b
  BY <1>5, PowerType
<1>7. v < x
  BY <1>1, <1>3, <1>6 DEF HasBits
<1>8. t > 0
  <2>1. CASE t = 0
    <3>1. 10 < 2^0
      BY <1>2, <2>1 DEF HasBits
    <3> QED BY <3>1
  <2> QED BY <1>5, <2>1
<1>9. PICK h \in Nat \ {0} : h = 2^(t - 1) /\ h <= 10 /\ 10 < 2 * h /\ 2^t = 2 * h
  <2>1. PICK h \in Nat \ {0} : h = 2^(t - 1) /\ 2^t = 2 * h
    BY <1>5, <1>8, HalfPower
  <2>2. h <= 10 /\ 10 < 2 * h
    BY <1>2, <1>8, <2>1 DEF HasBits
  <2> QED BY <2>1, <2>2
<1>10. b >= t
  <2> SUFFICES ASSUME ~(b >= t) PROVE FALSE
    OBVIOUS
  <2>1. b <= t - 1 /\ t - 1 \in Nat
    BY <1>5, <1>8
  <2>2. x <= h
    BY <1>5, <1>6, <1>9, <2>1, PowerGrows
  <2> QED BY <1>3, <1>7, <1>9, <2>2
<1>11. d \in 0..(4 * WordBits) /\ d \in Nat /\ b = t + d
  BY <1>1, <1>2, <1>4, <1>5, <1>10
<1>12. PICK p \in Nat \ {0} : p = 2^d
  BY <1>11, PowerType
<1>13. x = (2 * h) * p
  <2>1. 2^(t + d) = 2^t * 2^d
    BY <1>5, <1>11, PowerSum
  <2> QED BY <1>6, <1>9, <1>11, <1>12, <2>1, Zenon
<1>14. x <= Modulus /\ Modulus \in Nat
  <2>1. b <= 4 * WordBits
    BY <1>4
  <2>2. 2^b <= 2^(4 * WordBits)
    BY <1>4, <1>5, <2>1, PowerGrows
  <2> QED BY <1>6, <2>2, ModulusIs DEF Modulus
<1>15. 10 * p < x /\ p < x /\ x <= 2 * (10 * p)
  <2>1. \A hh, pp \in Nat \ {0} : 10 < 2 * hh /\ hh <= 10 =>
          10 * pp < (2 * hh) * pp /\ pp < (2 * hh) * pp /\ (2 * hh) * pp <= 2 * (10 * pp)
    OBVIOUS
  <2> QED BY <1>9, <1>13, <2>1
<1> QED BY <1>3, <1>7, <1>11, <1>12, <1>14, <1>15

\* The numbers of tostring256 and divmod256.
NumbersInv == { rDiv, resDiv, resMod, copyd, adder } \subseteq Numbers256

\* The aligned divisor is ten times the bit that is tried, one more is not too
\* small, and the quotient has higher bits only.
Tried(j) ==
  /\ Value(adder) = 2^j /\ Value(copyd) = 10 * 2^j
  /\ Value(resMod) < 2 * (10 * 2^j)
  /\ \E m \in Nat : Value(resDiv) = 2^(j + 1) * m

DivisionInv ==
  /\ pc \in { "divide", "store" } => Value(rDiv) = 10 * Value(resDiv) + Value(resMod)
  /\ pc = "divide" /\ Value(resMod) >= 10 => \E j \in Nat : Tried(j)
  /\ pc = "store" => Value(resMod) < 10

\* The divisor is aligned.
LEMMA AlignDivides ==
  ASSUME NumbersInv, Align
  PROVE  NumbersInv' /\ DivisionInv'
<1> DEFINE d == Bits256(rDiv) - Bits256(Ten)
           shifted == Shiftl256(Ten, d)
           back == IF Gt256(shifted, rDiv) THEN 1 ELSE 0
           V == Value(rDiv)
<1>1. /\ rDiv \in Numbers256 /\ copyd \in Numbers256 /\ adder \in Numbers256
      /\ resDiv' = Zero256 /\ resMod' = rDiv /\ rDiv' = rDiv
  BY DEF Align, NumbersInv
<1>2. V \in Nat /\ resDiv' \in Numbers256 /\ Value(resDiv') = 0 /\ Value(resMod') = V
      /\ Value(rDiv') = V /\ V = 10 * 0 + V
  BY <1>1, Type256, ZeroIs, ModulusIs
<1>3. CASE Gt256(Ten, rDiv)
  <2>1. pc' = "store" /\ copyd' = copyd /\ adder' = adder
    BY <1>3 DEF Align
  <2>2. V < 10
    BY <1>1, <1>2, <1>3, Greater256, TenAndOne
  <2>3. NumbersInv'
    BY <1>1, <1>2, <2>1 DEF NumbersInv
  <2>4. DivisionInv'
    BY <1>2, <2>1, <2>2 DEF DivisionInv
  <2> QED BY <2>3, <2>4
<1>4. CASE ~Gt256(Ten, rDiv)
  <2>1. /\ copyd' = Shiftr256(shifted, back)
        /\ adder' = Shiftr256(Shiftl256(Small(1), d), back)
        /\ pc' = "divide"
    BY <1>4 DEF Align
  <2>2. V >= 10
    BY <1>1, <1>2, <1>4, Greater256, TenAndOne
  <2>3. /\ d \in 0..(4 * WordBits)
        /\ 10 * 2^d < Modulus /\ 2^d < Modulus
        /\ V < 2 * (10 * 2^d)
    BY <1>1, <2>2, SameBits, Zenon
  <2>4. d \in Nat /\ d <= 4 * WordBits /\ WordBits \in Nat \ {0}
    BY <2>3, Bases
  <2> HIDE DEF d
  <2>5. PICK p \in Nat \ {0} : p = 2^d
    BY <2>4, PowerType
  <2>6. shifted \in Numbers256 /\ Value(shifted) = 10 * p
    <3>1. shifted \in Numbers256 /\ Value(shifted) = (10 * 2^d) % Modulus
      BY <2>4, ShiftedLeft256, TenAndOne
    <3>2. (10 * p) % Modulus = 10 * p
      <4>1. PICK M \in Nat \ {0} : M = Modulus
        BY ModulusIs
      <4> QED BY <2>3, <2>5, <4>1
    <3> QED BY <2>5, <3>1, <3>2
  <2>7. Shiftl256(Small(1), d) \in Numbers256 /\ Value(Shiftl256(Small(1), d)) = p
    <3>1. /\ Shiftl256(Small(1), d) \in Numbers256
          /\ Value(Shiftl256(Small(1), d)) = (1 * 2^d) % Modulus
      BY <2>4, ShiftedLeft256, TenAndOne
    <3>2. (1 * p) % Modulus = p
      <4>1. PICK M \in Nat \ {0} : M = Modulus
        BY ModulusIs
      <4> QED BY <2>3, <2>5, <4>1
    <3> QED BY <2>5, <3>1, <3>2
  <2>8. back \in 0..1 /\ back \in Nat /\ back <= 4 * WordBits
    BY <2>4
  <2> HIDE DEF shifted, back
  <2>9. /\ copyd' \in Numbers256 /\ Value(copyd') = (10 * p) \div 2^back
        /\ adder' \in Numbers256 /\ Value(adder') = p \div 2^back
    BY <2>1, <2>6, <2>7, <2>8, ShiftedRight256
  <2>10. NumbersInv'
    BY <1>1, <1>2, <2>9 DEF NumbersInv
  <2>11. \E j \in Nat : Tried(j)'
    <3>0. \A j \in Nat : Value(resDiv') = 2^(j + 1) * 0
      <4> TAKE j \in Nat
      <4>1. PICK q \in Nat : q = 2^(j + 1)
        BY PowerDoubles, PowerType
      <4>2. q * 0 = 0
        OBVIOUS
      <4> QED BY <1>2, <4>1, <4>2
    <3>1. CASE back = 0
      <4>1. Value(copyd') = 10 * p /\ Value(adder') = p
        BY <2>9, <3>1
      <4> QED BY <1>2, <2>3, <2>4, <2>5, <3>0, <4>1 DEF Tried
    <3>2. CASE back = 1
      <4>1. 10 * p > V
        BY <1>1, <2>6, <3>2, Greater256 DEF back
      <4>2. d > 0
        <5>1. CASE d = 0
          <6>1. p = 1
            BY <2>5, <5>1
          <6> QED BY <1>2, <2>2, <4>1, <6>1
        <5> QED BY <2>4, <5>1
      <4>3. PICK q \in Nat \ {0} : q = 2^(d - 1) /\ p = 2 * q
        BY <2>4, <2>5, <4>2, HalfPower
      <4>4. 2^back = 2
        <5>1. 2^1 = 2
          OBVIOUS
        <5> QED BY <3>2, <5>1
      <4>5. (10 * p) \div 2 = 10 * q /\ p \div 2 = q /\ V < 2 * (10 * q)
        BY <1>2, <4>1, <4>3
      <4>6. Value(copyd') = 10 * q /\ Value(adder') = q
        BY <2>9, <4>4, <4>5
      <4>7. d - 1 \in Nat
        BY <2>4, <4>2
      <4> QED BY <1>2, <3>0, <4>3, <4>5, <4>6, <4>7 DEF Tried
    <3> QED BY <2>8, <3>1, <3>2
  <2>12. DivisionInv'
    BY <1>2, <2>1, <2>11 DEF DivisionInv
  <2> QED BY <2>10, <2>12
<1> QED BY <1>3, <1>4

\* One bit of the quotient is tried.
LEMMA DivideDivides ==
  ASSUME NumbersInv, DivisionInv, Divide
  PROVE  NumbersInv' /\ DivisionInv'
<1>1. /\ rDiv \in Numbers256 /\ resDiv \in Numbers256 /\ resMod \in Numbers256
      /\ copyd \in Numbers256 /\ adder \in Numbers256 /\ rDiv' = rDiv /\ pc = "divide"
  BY DEF Divide, NumbersInv
<1>2. PICK V \in Nat, Q \in Nat, R \in Nat, C \in Nat, A \in Nat :
        /\ V = Value(rDiv) /\ Q = Value(resDiv) /\ R = Value(resMod)
        /\ C = Value(copyd) /\ A = Value(adder)
  BY <1>1, Type256, ModulusIs
<1>3. V = 10 * Q + R
  BY <1>1, <1>2 DEF DivisionInv
<1>4. Gte256(resMod, Ten) <=> R >= 10
  BY <1>1, <1>2, GreaterOrEqual256, TenAndOne
<1>5. CASE ~Gte256(resMod, Ten)
  <2>1. /\ pc' = "store" /\ resDiv' = resDiv /\ resMod' = resMod
        /\ copyd' = copyd /\ adder' = adder
    BY <1>5 DEF Divide, division
  <2>2. NumbersInv'
    BY <1>1, <2>1 DEF NumbersInv
  <2>3. DivisionInv'
    BY <1>1, <1>2, <1>3, <1>4, <1>5, <2>1 DEF DivisionInv
  <2> QED BY <2>2, <2>3
<1>6. CASE Gte256(resMod, Ten)
  <2>1. /\ IF Gte256(resMod, copyd)
           THEN resMod' = Minus256(resMod, copyd) /\ resDiv' = Or256(resDiv, adder)
           ELSE resMod' = resMod /\ resDiv' = resDiv
        /\ copyd' = Shiftr256(copyd, 1) /\ adder' = Shiftr256(adder, 1)
        /\ pc' = pc
    BY <1>6 DEF Divide, MoveDown
  <2>2. PICK j \in Nat : Tried(j)
    BY <1>1, <1>2, <1>4, <1>6 DEF DivisionInv
  <2>3. PICK p \in Nat \ {0} : p = 2^j /\ 2^(j + 1) = 2 * p
    BY PowerDoubles, PowerType
  <2>4. PICK m \in Nat : Q = (2 * p) * m
    BY <1>2, <2>2, <2>3 DEF Tried
  <2>5. A = p /\ C = 10 * p /\ R < 2 * (10 * p) /\ R >= 10
    BY <1>2, <1>4, <1>6, <2>2, <2>3 DEF Tried
  <2>6. Gte256(resMod, copyd) <=> R >= C
    BY <1>1, <1>2, GreaterOrEqual256
  <2>7. 1 \in Nat /\ 1 <= 4 * WordBits /\ 2^1 = 2
    BY Bases
  <2>8. /\ copyd' \in Numbers256 /\ Value(copyd') = (10 * p) \div 2
        /\ adder' \in Numbers256 /\ Value(adder') = p \div 2
    <3>1. /\ Shiftr256(copyd, 1) \in Numbers256
          /\ Value(Shiftr256(copyd, 1)) = Value(copyd) \div 2^1
      BY <1>1, <2>7, ShiftedRight256
    <3>2. /\ Shiftr256(adder, 1) \in Numbers256
          /\ Value(Shiftr256(adder, 1)) = Value(adder) \div 2^1
      BY <1>1, <2>7, ShiftedRight256
    <3> QED BY <1>2, <2>1, <2>5, <2>7, <3>1, <3>2, Zenon
  \* Quotient and remainder, and how much of the lower bits the quotient has.
  <2>9. \E e \in 0..1 :
          /\ resDiv' \in Numbers256 /\ Value(resDiv') = Q + e * p
          /\ resMod' \in Numbers256 /\ Value(resMod') \in Nat
          /\ R = Value(resMod') + e * (10 * p)
          /\ Value(resMod') < 10 * p
    <3>1. CASE R >= C
      <4>1. resMod' = Minus256(resMod, copyd) /\ resDiv' = Or256(resDiv, adder)
        BY <2>1, <2>6, <3>1
      <4>2. resMod' \in Numbers256 /\ Value(resMod') = R - C
        BY <1>1, <1>2, <3>1, <4>1, Difference256
      <4>3. Disjoint(Value(resDiv), Value(adder), 4 * WordBits)
        <5>1. 4 * WordBits \in Nat
          BY Bases
        <5>2. Q = 2^(j + 1) * m
          BY <2>3, <2>4
        <5>3. Disjoint(Q, 2^j, 4 * WordBits)
          BY <5>1, <5>2, NewBit
        <5> QED BY <1>2, <2>3, <2>5, <5>3
      <4>4. resDiv' \in Numbers256 /\ Value(resDiv') = Q + p
        <5>1. /\ Or256(resDiv, adder) \in Numbers256
              /\ Value(Or256(resDiv, adder)) = Value(resDiv) + Value(adder)
          BY <1>1, <4>3, Or256Is
        <5> QED BY <1>2, <2>5, <4>1, <5>1, Zenon
      <4>5. /\ Q + p = Q + 1 * p /\ R - C \in Nat /\ R = (R - C) + 1 * (10 * p)
            /\ R - C < 10 * p
        BY <2>5, <3>1
      <4> QED BY <4>2, <4>4, <4>5
    <3>2. CASE ~(R >= C)
      <4>1. resMod' = resMod /\ resDiv' = resDiv
        BY <2>1, <2>6, <3>2
      <4>2. Q = Q + 0 * p /\ R = R + 0 * (10 * p) /\ R < 10 * p
        BY <2>5, <3>2
      <4> QED BY <1>1, <1>2, <4>1, <4>2
    <3> QED BY <3>1, <3>2
  <2>10. PICK e \in 0..1 :
          /\ resDiv' \in Numbers256 /\ Value(resDiv') = Q + e * p
          /\ resMod' \in Numbers256 /\ Value(resMod') \in Nat
          /\ R = Value(resMod') + e * (10 * p)
          /\ Value(resMod') < 10 * p
    BY <2>9
  <2>11. PICK T \in Nat : T = Value(resMod')
    BY <2>10
  <2>12. V = 10 * (Q + e * p) + T
    <3>1. R = T + e * (10 * p)
      BY <2>10, <2>11
    <3> QED BY <1>3, <3>1
  <2>13. Value(resMod') >= 10 => \E k \in Nat : Tried(k)'
    <3> SUFFICES ASSUME T >= 10 PROVE \E k \in Nat : Tried(k)'
      BY <2>11
    <3>1. j > 0
      <4>1. CASE j = 0
        <5>1. p = 1
          BY <2>3, <4>1
        <5> QED BY <2>10, <2>11, <5>1
      <4> QED BY <4>1
    <3>2. PICK q \in Nat \ {0} : q = 2^(j - 1) /\ p = 2 * q
      BY <2>3, <3>1, HalfPower
    <3>3. (10 * p) \div 2 = 10 * q /\ p \div 2 = q /\ T < 2 * (10 * q)
      BY <2>10, <2>11, <3>2
    <3>4. Q + e * p = p * (2 * m + e) /\ 2 * m + e \in Nat
      BY <2>4
    <3>5. j - 1 \in Nat /\ (j - 1) + 1 = j
      BY <3>1
    <3>6. \E n \in Nat : Value(resDiv') = 2^((j - 1) + 1) * n
      BY <2>3, <2>10, <3>4, <3>5
    <3> QED BY <2>8, <2>11, <3>2, <3>3, <3>5, <3>6 DEF Tried
  <2>14. NumbersInv'
    BY <1>1, <2>8, <2>10 DEF NumbersInv
  <2>15. DivisionInv'
    BY <1>1, <1>2, <2>1, <2>10, <2>11, <2>12, <2>13 DEF DivisionInv
  <2> QED BY <2>14, <2>15
<1> QED BY <1>5, <1>6

-----------------------------------------------------------------------------
\* What is rendered.

\* A number of the transaction, as bytes and as a number of 256 bits.
LEMMA Numbers ==
  ASSUME tx \in Txs,
         NEW f \in { "value", "gasprice", "gaslimit", "storagelimit", "nonce", "chainid" }
  PROVE  /\ tx[f] \in Seq(0..(2^ByteBits - 1)) /\ Len(tx[f]) <= INT256_LENGTH
         /\ FromBytes(tx[f]) \in Numbers256 /\ Value(FromBytes(tx[f])) = Sent(f)
         /\ Sent(f) \in Nat /\ Sent(f) < Modulus
<1>1. tx[f] \in Seq(0..(2^ByteBits - 1)) /\ Len(tx[f]) <= INT256_LENGTH
  <2>1. f \in DOMAIN tx /\ f # "data"
    BY TxsAssumption
  <2> QED BY <2>1, TxsAssumption
<1>2. FromBytes(tx[f]) \in Numbers256 /\ Value(FromBytes(tx[f])) = Number(tx[f], 2^ByteBits)
  BY <1>1, FromBytesIs
<1>3. Value(FromBytes(tx[f])) \in Nat /\ Value(FromBytes(tx[f])) < Modulus
  BY <1>2, Type256, ModulusIs
<1> QED BY <1>1, <1>2, <1>3 DEF Sent

\* A factor may be cut to the modulus first.
LEMMA CutFactor ==
  ASSUME NEW N \in Nat \ {0}, NEW a \in Nat, NEW m \in Nat,
         NEW b, b = (a * (m % N)) % N
  PROVE  b = (a * m) % N
<1>1. PICK q \in Int, r \in 0..(N - 1) : q = m \div N /\ r = m % N /\ m = N * q + r
  BY Euclid
<1>2. PICK k \in Int : k = a * q
  OBVIOUS
<1>3. a * m = N * k + a * r
  <2>2. q \in Int /\ r \in Int /\ N \in Int /\ a \in Int
    BY <1>1
  <2>3. a * (N * q + r) = N * (a * q) + a * r
    BY ONLY <2>2
  <2> QED BY <1>1, <1>2, <2>3, Zenon
<1>4. (N * k) % N = 0
  <2>1. (N * k + 0) % N = 0
    <3>1. 0 \in 0..(N - 1)
      OBVIOUS
    <3> QED BY <3>1, QuotientIs
  <2>2. N * k + 0 = N * k
    OBVIOUS
  <2> QED BY <2>1, <2>2, Zenon
<1>5. PICK x \in Int, e \in Int : x = N * k /\ e = a * r
  BY <1>1
<1>6. RemainsAfter(N, x, e)
  BY Remainders
<1>7. ((x % N) + e) % N = (x + e) % N
  BY <1>6, Zenon DEF RemainsAfter
<1>8. 0 + e = e
  OBVIOUS
<1> QED BY <1>1, <1>3, <1>4, <1>5, <1>7, <1>8, Zenon

\* computeFees computes the fee modulo 2^256.
LEMMA FeeIs ==
  ASSUME tx \in Txs
  PROVE  /\ Fee \in Numbers256 /\ Value(Fee) = SentFee
         /\ SentFee \in Nat /\ SentFee < Modulus
<1>1. PICK p \in Numbers256, l \in Numbers256, s \in Numbers256, u \in Numbers256 :
        /\ p = FromBytes(tx["gasprice"]) /\ Value(p) = Sent("gasprice")
        /\ l = FromBytes(tx["gaslimit"]) /\ Value(l) = Sent("gaslimit")
        /\ s = FromBytes(tx["storagelimit"]) /\ Value(s) = Sent("storagelimit")
        /\ u = Words(Multiplier) /\ Value(u) = Multiplier % Modulus
  <2>1. Words(Multiplier) \in Numbers256 /\ Value(Words(Multiplier)) = Multiplier % Modulus
    BY DisplayAssumption, WordsAre
  <2> QED BY <2>1, Numbers
<1>2. Fee = Add256(Mul256(p, l), Mul256(s, u))
  BY <1>1 DEF Fee
<1>3. PICK M \in Nat \ {0} : M = Modulus
  BY ModulusIs
<1>4. PICK x \in Nat, y \in Nat, z \in Nat :
        x = Sent("gasprice") /\ y = Sent("gaslimit") /\ z = Sent("storagelimit")
  BY Numbers
<1>5. Mul256(p, l) \in Numbers256 /\ Value(Mul256(p, l)) = (x * y) % M
  <2>1. Mul256(p, l) \in Numbers256 /\ Value(Mul256(p, l)) = (Value(p) * Value(l)) % Modulus
    BY Product256
  <2> QED BY <1>1, <1>3, <1>4, <2>1, Zenon
<1>6. Mul256(s, u) \in Numbers256 /\ Value(Mul256(s, u)) = (z * Multiplier) % M
  <2>1. Mul256(s, u) \in Numbers256 /\ Value(Mul256(s, u)) = (Value(s) * Value(u)) % Modulus
    BY Product256
  <2>2. Value(Mul256(s, u)) = (z * (Multiplier % M)) % M
    BY <1>1, <1>3, <1>4, <2>1, Zenon
  <2>3. Multiplier \in Nat
    BY DisplayAssumption
  <2>4. Value(Mul256(s, u)) = (z * Multiplier) % M
    BY <2>2, <2>3, CutFactor
  <2> QED BY <2>1, <2>4
<1>7. Fee \in Numbers256 /\ Value(Fee) = (((x * y) % M) + ((z * Multiplier) % M)) % M
  <2>1. /\ Add256(Mul256(p, l), Mul256(s, u)) \in Numbers256
        /\ Value(Add256(Mul256(p, l), Mul256(s, u)))
             = (Value(Mul256(p, l)) + Value(Mul256(s, u))) % Modulus
    BY <1>5, <1>6, Sum256
  <2> QED BY <1>2, <1>3, <1>5, <1>6, <2>1, Zenon
<1>8. (((x * y) % M) + ((z * Multiplier) % M)) % M = (x * y + z * Multiplier) % M
  <2>1. PICK a \in Nat, b \in Nat : a = x * y /\ b = z * Multiplier
    BY DisplayAssumption
  <2>2. PICK c \in Nat : c = b % M
    BY <2>1
  <2>3. RemainsAfter(M, a, c) /\ RemainsAfter(M, b, a)
    BY Remainders
  <2>4. ((a % M) + c) % M = (a + c) % M /\ ((b % M) + a) % M = (b + a) % M
    BY <2>3, Zenon DEF RemainsAfter
  <2>5. a + c = c + a /\ a + b = b + a
    OBVIOUS
  <2> QED BY <2>1, <2>2, <2>4, <2>5, Zenon
<1>9. Value(Fee) = SentFee
  BY <1>3, <1>4, <1>7, <1>8, Zenon DEF SentFee
<1>10. Value(Fee) \in Nat /\ Value(Fee) < Modulus
  BY <1>7, Type256, ModulusIs
<1> QED BY <1>7, <1>9, <1>10

-----------------------------------------------------------------------------
\* The digits.

\* What is turned around starts with what came last.
LEMMA ReverseAppend ==
  ASSUME NEW s \in Seq(Digits), NEW d \in Digits
  PROVE  /\ Reverse(Append(s, d)) = << d >> \o Reverse(s)
         /\ Reverse(s) \in Seq(Digits) /\ Len(Reverse(s)) = Len(s)
<1> DEFINE n == Len(s)
           a == Append(s, d)
           r == Reverse(s)
<1>1. n \in Nat /\ a \in Seq(Digits) /\ Len(a) = n + 1 /\ a[n + 1] = d
      /\ \A i \in 1..n : a[i] = s[i]
  OBVIOUS
<1>2. r \in Seq(Digits) /\ Len(r) = n /\ \A i \in 1..n : r[i] = s[(n - i) + 1]
  <2>1. r = [i \in 1..n |-> s[(n - i) + 1]]
    BY Zenon DEF Reverse
  <2>2. \A i \in 1..n : (n - i) + 1 \in 1..n
    BY <1>1
  <2>3. \A i \in 1..n : s[(n - i) + 1] \in Digits
    BY <2>2, ElementOfSeq
  <2>4. r \in [1..n -> Digits]
    BY <2>1, <2>3
  <2> QED BY <1>1, <2>1, <2>4, SeqOfFunction
<1>3. /\ Reverse(a) \in Seq(Digits) /\ Len(Reverse(a)) = n + 1
      /\ \A i \in 1..(n + 1) : Reverse(a)[i] = a[((n + 1) - i) + 1]
  <2>1. Reverse(a) = [i \in 1..(n + 1) |-> a[((n + 1) - i) + 1]]
    BY <1>1, Zenon DEF Reverse
  <2>2. \A i \in 1..(n + 1) : ((n + 1) - i) + 1 \in 1..(n + 1)
    BY <1>1
  <2> HIDE DEF a, n
  <2>3. \A i \in 1..(n + 1) : a[((n + 1) - i) + 1] \in Digits
    BY <1>1, <2>2, ElementOfSeq
  <2>4. Reverse(a) \in [1..(n + 1) -> Digits]
    BY <2>1, <2>3
  <2>5. n + 1 \in Nat
    BY <1>1
  <2> QED BY <1>1, <2>1, <2>4, <2>5, SeqOfFunction
<1> HIDE DEF r, a, n
<1>4. << d >> \o r \in Seq(Digits) /\ Joins(<< d >> \o r, << d >>, r)
  <2>1. << d >> \in Seq(Digits)
    OBVIOUS
  <2> QED BY <1>2, <2>1, Concatenated
<1>5. Len(<< d >>) = 1 /\ << d >>[1] = d
  OBVIOUS
<1>6. \A i \in 1..(n + 1) : Reverse(a)[i] = (<< d >> \o r)[i]
  <2> TAKE i \in 1..(n + 1)
  <2>1. CASE i = 1
    <3>1. Reverse(a)[1] = d
      <4>1. ((n + 1) - 1) + 1 = n + 1 /\ 1 \in 1..(n + 1)
        BY <1>1
      <4> QED BY <1>1, <1>3, <4>1
    <3>2. 1 \in 1..Len(<< d >>)
      BY <1>5
    <3> QED BY <1>4, <1>5, <2>1, <3>1, <3>2 DEF Joins
  <2>2. CASE i # 1
    <3>1. PICK k \in 1..n : i = 1 + k
      <4>1. i - 1 \in 1..n /\ i = 1 + (i - 1)
        BY <1>1, <2>2
      <4> QED BY <4>1
    <3>2. ((n + 1) - i) + 1 = (n - k) + 1 /\ (n - k) + 1 \in 1..n
      BY <1>1, <3>1
    <3>3. Reverse(a)[i] = s[(n - k) + 1]
      BY <1>1, <1>3, <3>2
    <3>4. (<< d >> \o r)[Len(<< d >>) + k] = r[k]
      BY <1>2, <1>4 DEF Joins
    <3> QED BY <1>2, <1>5, <3>1, <3>3, <3>4
  <2> QED BY <2>1, <2>2
<1>7. Len(<< d >> \o r) = n + 1
  BY <1>1, <1>2, <1>4, <1>5 DEF Joins
<1>8. Reverse(a) = << d >> \o r
  BY <1>3, <1>4, <1>6, <1>7, SeqEqual
<1> QED BY <1>2, <1>8 DEF a, r, n

\* The number whose digits tostring256 makes.
Subject == IF job = "fee" THEN SentFee ELSE Sent("nonce")

\* The digits that are still to come, and those there are, the last one first,
\* are those of the number; there is room for them.
DigitsInv ==
  /\ digits \in Seq(Digits)
  /\ pc \in { "digit", "divide", "store", "text" } => job \in { "fee", "nonce" }
  /\ pc \in { "digit", "divide", "store" } =>
       Decimal(Subject) = Decimal(Value(rDiv)) \o Reverse(digits)
  /\ pc = "text" => Decimal(Subject) = Reverse(digits)
  /\ pc \in { "divide", "store" } => Len(digits) < OutLength
  /\ pc \in { "digit", "text" } => Len(digits) <= OutLength

\* The number of the text stays while its digits are made.
LEMMA SubjectStays ==
  ASSUME tx' = tx, job' = job
  PROVE  Subject' = Subject /\ OutLength' = OutLength
BY DEF Subject, SentFee, Sent, OutLength

\* The remainder is the next digit, the quotient the number that is left.
LEMMA StoreDigitAdds ==
  ASSUME NumbersInv, DivisionInv, DigitsInv, StoreDigit
  PROVE  NumbersInv' /\ DivisionInv' /\ DigitsInv'
<1>1. /\ rDiv \in Numbers256 /\ resDiv \in Numbers256 /\ resMod \in Numbers256
      /\ copyd \in Numbers256 /\ adder \in Numbers256
      /\ pc = "store" /\ digits \in Seq(Digits) /\ job \in { "fee", "nonce" }
  BY DEF StoreDigit, NumbersInv, DigitsInv
<1>2. /\ digits' = Append(digits, ZERO + resMod[2][2]) /\ rDiv' = resDiv
      /\ pc' = (IF resDiv = Zero256 THEN "text" ELSE "digit")
      /\ tx' = tx /\ job' = job
      /\ resDiv' = resDiv /\ resMod' = resMod /\ copyd' = copyd /\ adder' = adder
  BY DEF StoreDigit, division
<1>3. PICK V \in Nat, Q \in Nat, R \in Nat :
        /\ V = Value(rDiv) /\ Q = Value(resDiv) /\ R = Value(resMod)
  BY <1>1, Type256, ModulusIs
<1>4. V = 10 * Q + R /\ R < 10
  BY <1>1, <1>3 DEF DivisionInv
<1>5. resMod[2][2] = R
  <2>1. R \in 0..(Word - 1)
    BY <1>4, DisplayAssumption, Bases
  <2>2. resMod = Small(R)
    BY <1>1, <1>3, <2>1, SmallIs, Equal256
  <2> QED BY <2>2 DEF Small
<1> DEFINE d == ZERO + R
           left == IF V < 10 THEN << >> ELSE Decimal(V \div 10)
<1>6. d \in Digits /\ digits' = Append(digits, d) /\ digits' \in Seq(Digits)
      /\ Len(digits') = Len(digits) + 1 /\ Len(digits) \in Nat
  <2>1. d \in Digits
    BY <1>4 DEF Digits, ZERO
  <2> HIDE DEF d
  <2>2. digits' = Append(digits, d)
    BY <1>2, <1>5 DEF d
  <2> QED BY <1>1, <2>1, <2>2
<1>7. V \div 10 = Q /\ V % 10 = R
  BY <1>4
<1>8. Decimal(V) = left \o << d >>
  BY <1>7, DecimalStep, Zenon
<1>9. left \in Seq(Digits) /\ << d >> \in Seq(Digits) /\ Reverse(digits) \in Seq(Digits)
  <2>1. Decimal(Q) \in Seq(Digits) /\ << >> \in Seq(Digits)
    BY DecimalReads
  <2>2. Reverse(digits) \in Seq(Digits)
    BY <1>1, <1>6, ReverseAppend
  <2>3. << d >> \in Seq(Digits)
    <3> HIDE DEF d
    <3> QED BY <1>6
  <2>4. left = << >> \/ left = Decimal(Q)
    BY <1>7
  <2> HIDE DEF left
  <2> QED BY <2>1, <2>2, <2>3, <2>4
<1> HIDE DEF d, left
<1>10. Decimal(Subject') = left \o Reverse(digits')
  <2>1. Decimal(Subject) = (left \o << d >>) \o Reverse(digits)
    BY <1>1, <1>3, <1>8 DEF DigitsInv
  <2>2. (left \o << d >>) \o Reverse(digits) = left \o (<< d >> \o Reverse(digits))
    BY <1>9
  <2>3. Reverse(digits') = << d >> \o Reverse(digits)
    BY <1>1, <1>6, ReverseAppend
  <2> QED BY <1>2, <2>1, <2>2, <2>3, SubjectStays
<1>11. resDiv = Zero256 <=> Q = 0
  BY <1>1, <1>3, ZeroIs
<1>12. NumbersInv'
  BY <1>1, <1>2 DEF NumbersInv
<1>13. DivisionInv'
  BY <1>2 DEF DivisionInv
<1>14. Len(digits') <= OutLength'
  <2>1. OutLength \in Nat
    BY Sizes DEF OutLength
  <2> QED BY <1>1, <1>2, <1>6, <2>1, SubjectStays DEF DigitsInv
<1>15. CASE Q = 0
  <2>1. pc' = "text" /\ left = << >>
    BY <1>2, <1>4, <1>11, <1>15 DEF left
  <2>2. Reverse(digits') \in Seq(Digits)
    BY <1>6, ReverseAppend
  <2>3. Decimal(Subject') = Reverse(digits')
    BY <1>10, <2>1, <2>2
  <2> QED BY <1>1, <1>2, <1>6, <1>12, <1>13, <1>14, <2>1, <2>3 DEF DigitsInv
<1>16. CASE Q # 0
  <2>1. pc' = "digit" /\ left = Decimal(Q)
    BY <1>2, <1>4, <1>7, <1>11, <1>16 DEF left
  <2>2. Value(rDiv') = Q
    BY <1>2, <1>3
  <2> QED BY <1>1, <1>2, <1>6, <1>10, <1>12, <1>13, <1>14, <2>1, <2>2 DEF DigitsInv
<1> QED BY <1>15, <1>16

-----------------------------------------------------------------------------
\* uint256_to_decimal.

\* The number of the first digits grows digit by digit.
Grows(g, base, n) ==
  /\ Number(Part(g, 0, n), base) \in Nat
  /\ Number(Part(g, 0, n + 1), base) = base * Number(Part(g, 0, n), base) + g[n + 1]

\* It does, for any digits.
LEMMA FirstDigits ==
  ASSUME NEW length \in Nat, NEW g \in [1..length -> Nat], NEW base \in Nat
  PROVE  /\ Number(Part(g, 0, 0), base) = 0
         /\ Part(g, 0, length) = g
         /\ \A n \in Nat : n + 1 <= length => Grows(g, base, n)
<1>1. Number(Part(g, 0, 0), base) = 0
  <2>1. Part(g, 0, 0) = << >>
    BY DEF Part
  <2> QED BY <2>1, NumberOfNothing
<1>2. Part(g, 0, length) = g
  <2>1. [i \in 1..length |-> g[0 + i]] = [i \in 1..length |-> g[i]]
    OBVIOUS
  <2>2. [i \in 1..length |-> g[i]] = g
    OBVIOUS
  <2> QED BY <2>1, <2>2, Zenon DEF Part
<1>3. ASSUME NEW n \in Nat, n + 1 <= length PROVE Grows(g, base, n)
  <2>1. [i \in 1..n |-> g[0 + i]] \in [1..n -> Nat]
    BY <1>3
  <2>2. Part(g, 0, n) \in Seq(Nat) /\ Len(Part(g, 0, n)) = n
    BY <2>1, SeqOfFunction DEF Part
  <2>3. Part(g, 0, n + 1) = Append(Part(g, 0, n), g[n + 1])
    BY <1>3, <2>2 DEF Part
  <2>4. PICK s \in Seq(Nat), d \in Nat : s = Part(g, 0, n) /\ d = g[n + 1]
    BY <1>3, <2>2
  <2>5. Number(Append(s, d), base) = base * Number(s, base) + d /\ Number(s, base) \in Nat
    BY ONLY NumberAppend, s \in Seq(Nat), d \in Nat, base \in Nat
  <2> QED BY <2>3, <2>4, <2>5, Zenon DEF Grows
<1> QED BY <1>1, <1>2, <1>3

Half == INT256_LENGTH \div 2
LimbBase == 2^(2 * ByteBits)
LimbsType == [1..Half -> 0..(LimbBase - 1)]

\* A limb is two bytes.
LEMMA HalfIs ==
  /\ INT256_LENGTH = 2 * Half /\ Half \in Nat
  /\ 2^ByteBits \in Nat \ {0} /\ LimbBase = 2^ByteBits * 2^ByteBits
  /\ LimbBase \in Nat \ {0} /\ 10 * LimbBase \in Nat
<1>1. INT256_LENGTH = 2 * Half /\ Half \in Nat
  BY WidthAssumption DEF INT256_LENGTH, Half
<1>2. ByteBits \in Nat /\ 2 * ByteBits = ByteBits + ByteBits
  BY WidthAssumption
<1>3. LimbBase = 2^ByteBits * 2^ByteBits
  BY <1>2, PowerSum DEF LimbBase
<1>4. PICK b \in Nat \ {0} : b = 2^ByteBits
  BY <1>2, PowerType
<1>5. b * b \in Nat \ {0}
  OBVIOUS
<1>6. LimbBase \in Nat \ {0}
  BY <1>3, <1>4, <1>5, Zenon
<1> QED BY <1>1, <1>3, <1>4, <1>6

\* The limbs write the number that the bytes write.
LEMMA LimbsAre ==
  ASSUME NEW s \in Seq(0..(2^ByteBits - 1)), Len(s) <= INT256_LENGTH
  PROVE  /\ Limbs(s) \in LimbsType
         /\ Number(Limbs(s), LimbBase) = Number(s, 2^ByteBits)
<1> DEFINE P == Padded(s)
           L == Limbs(s)
           N == INT256_LENGTH
<1>1. PICK b \in Nat \ {0} : b = 2^ByteBits /\ LimbBase = b * b
  BY HalfIs
<1>2. /\ P \in [1..N -> 0..(b - 1)] /\ P \in [1..N -> Nat]
      /\ Number(Part(P, 0, N), b) = Number(s, b)
  <2>1. P \in [1..N -> 0..(b - 1)] /\ Number(Part(P, 0, N), b) = Number(s, b)
    BY <1>1, PaddedIs
  <2> HIDE DEF P
  <2> QED BY <2>1
<1>3. N = 2 * Half /\ Half \in Nat
  BY HalfIs
<1>4. L = [k \in 1..Half |-> P[2 * k - 1] * b + P[2 * k]]
  <2>1. \A k \in 1..Half : 2 * k - 1 \in 1..N /\ 2 * k \in 1..N
    BY <1>3
  <2>2. \A i \in 1..N : P[i] = IF i <= N - Len(s) THEN 0 ELSE s[i - (N - Len(s))]
    BY DEF Padded
  <2>3. L = [k \in 1..Half |->
               (IF 2 * k - 1 <= N - Len(s) THEN 0 ELSE s[(2 * k - 1) - (N - Len(s))]) * b
                 + (IF 2 * k <= N - Len(s) THEN 0 ELSE s[2 * k - (N - Len(s))])]
    BY <1>1, Zenon DEF Limbs, Half
  <2>4. \A k \in 1..Half :
          (IF 2 * k - 1 <= N - Len(s) THEN 0 ELSE s[(2 * k - 1) - (N - Len(s))]) * b
            + (IF 2 * k <= N - Len(s) THEN 0 ELSE s[2 * k - (N - Len(s))])
          = P[2 * k - 1] * b + P[2 * k]
    BY <2>1, <2>2, Zenon
  <2> QED BY <2>3, <2>4, Zenon
<1> HIDE DEF P, L, N
<1>5. ASSUME NEW k \in 1..Half
      PROVE  /\ P[2 * k - 1] \in 0..(b - 1) /\ P[2 * k] \in 0..(b - 1)
             /\ L[k] = P[2 * k - 1] * b + P[2 * k] /\ L[k] \in 0..(LimbBase - 1)
  <2>1. 2 * k - 1 \in 1..N /\ 2 * k \in 1..N
    BY <1>3
  <2>2. PICK x \in 0..(b - 1), y \in 0..(b - 1) : x = P[2 * k - 1] /\ y = P[2 * k]
    BY <1>2, <2>1
  <2>3. x * b + y \in 0..(b * b - 1)
    BY HalvesRange
  <2>4. L[k] = P[2 * k - 1] * b + P[2 * k]
    BY <1>4
  <2> QED BY <1>1, <2>2, <2>3, <2>4, Zenon
<1>6. L \in LimbsType /\ L \in [1..Half -> Nat]
  <2>1. \A k \in 1..Half : L[k] \in 0..(LimbBase - 1) /\ L[k] \in Nat
    <3>1. 0..(LimbBase - 1) \subseteq Nat
      BY HalfIs
    <3> QED BY <1>5, <3>1
  <2>2. L = [k \in 1..Half |-> L[k]]
    BY <1>4
  <2> QED BY <2>1, <2>2 DEF LimbsType
<1> DEFINE S == { n \in Nat : n <= Half =>
                    Number(Part(L, 0, n), LimbBase) = Number(Part(P, 0, 2 * n), b) }
<1>7. 0 \in S
  <2>1. Number(Part(L, 0, 0), LimbBase) = 0
    BY <1>3, <1>6, HalfIs, FirstDigits
  <2>2. Number(Part(P, 0, 0), b) = 0
    BY <1>2, <1>3, FirstDigits
  <2>3. 2 * 0 = 0
    OBVIOUS
  <2> QED BY <2>1, <2>2, <2>3
<1>8. ASSUME NEW n \in Nat, n \in S PROVE n + 1 \in S
  <2> SUFFICES ASSUME n + 1 <= Half
               PROVE  Number(Part(L, 0, n + 1), LimbBase) = Number(Part(P, 0, 2 * (n + 1)), b)
    OBVIOUS
  <2>1. /\ 2 * n \in Nat /\ 2 * n + 1 \in Nat /\ (2 * n + 1) + 1 = 2 * (n + 1)
        /\ (2 * n) + 1 <= N /\ (2 * n + 1) + 1 <= N /\ n <= Half /\ n + 1 \in 1..Half
        /\ 2 * (n + 1) - 1 = 2 * n + 1
    BY <1>3
  <2>2. Grows(L, LimbBase, n) /\ Grows(P, b, 2 * n) /\ Grows(P, b, 2 * n + 1)
    <3>1. Grows(L, LimbBase, n)
      BY <1>3, <1>6, HalfIs, FirstDigits
    <3>2. Grows(P, b, 2 * n) /\ Grows(P, b, 2 * n + 1)
      <4>1. N \in Nat
        BY <1>3
      <4> QED BY <1>2, <2>1, <4>1, FirstDigits
    <3> QED BY <3>1, <3>2
  <2>3. PICK v \in Nat : v = Number(Part(P, 0, 2 * n), b)
                         /\ v = Number(Part(L, 0, n), LimbBase)
    BY <1>8, <2>1, <2>2 DEF Grows
  <2>4. PICK x \in Nat, y \in Nat : x = P[2 * n + 1] /\ y = P[2 * (n + 1)]
    BY <1>5, <2>1
  <2>5. L[n + 1] = x * b + y
    BY <1>5, <2>1, <2>4
  <2>6. Number(Part(L, 0, n + 1), LimbBase) = (b * b) * v + (x * b + y)
    BY <1>1, <2>2, <2>3, <2>5, Zenon DEF Grows
  <2>7. Number(Part(P, 0, 2 * (n + 1)), b) = b * (b * v + x) + y
    <3>1. Number(Part(P, 0, 2 * n + 1), b) = b * v + x
      BY <2>2, <2>3, <2>4, Zenon DEF Grows
    <3>2. Number(Part(P, 0, (2 * n + 1) + 1), b)
            = b * Number(Part(P, 0, 2 * n + 1), b) + P[(2 * n + 1) + 1]
      BY <2>2, Zenon DEF Grows
    <3> QED BY <2>1, <2>4, <3>1, <3>2, Zenon
  <2>8. (b * b) * v + (x * b + y) = b * (b * v + x) + y
    BY ONLY b \in Nat, v \in Nat, x \in Nat, y \in Nat
  <2> QED BY <2>6, <2>7, <2>8, Zenon
<1> HIDE DEF S
<1>9. Half \in S
  BY <1>3, <1>7, <1>8, Induction
<1>10. Number(Part(L, 0, Half), LimbBase) = Number(Part(P, 0, N), b)
  BY <1>3, <1>9 DEF S
<1>11. Part(L, 0, Half) = L
  BY <1>3, <1>6, HalfIs, FirstDigits
<1> QED BY <1>1, <1>2, <1>6, <1>10, <1>11 DEF L

\* What is carried from limb to limb.
Carried(c, l, length) ==
  c = [k \in 0..length |-> IF k = 0 THEN 0 ELSE (c[k - 1] * LimbBase + l[k]) % 10]

\* There is such a function.
LEMMA CarriedExists ==
  ASSUME NEW l, NEW length \in Nat
  PROVE  \E c : Carried(c, l, length)
<1> DEFINE S == { n \in Nat : \E c : Carried(c, l, n) }
<1>1. 0 \in S
  <2> DEFINE c == [n \in 0..0 |-> 0]
  <2>1. c = [n \in 0..0 |-> IF n = 0 THEN 0 ELSE (c[n - 1] * LimbBase + l[n]) % 10]
    OBVIOUS
  <2> QED BY <2>1 DEF Carried
<1>2. ASSUME NEW n \in Nat, n \in S PROVE n + 1 \in S
  <2>1. PICK c : Carried(c, l, n)
    BY <1>2
  <2> DEFINE g == [k \in 0..(n + 1) |->
                     IF k <= n THEN c[k] ELSE (c[n] * LimbBase + l[n + 1]) % 10]
  <2>2. ASSUME NEW k \in 0..(n + 1)
        PROVE  g[k] = IF k = 0 THEN 0 ELSE (g[k - 1] * LimbBase + l[k]) % 10
    <3>1. CASE k = 0
      BY <2>1, <3>1 DEF Carried
    <3>2. CASE k # 0 /\ k <= n
      <4>1. k \in 0..n /\ k - 1 \in 0..(n + 1) /\ k - 1 <= n
        BY <3>2
      <4>2. c[k] = (c[k - 1] * LimbBase + l[k]) % 10
        BY <2>1, <3>2, <4>1 DEF Carried
      <4>3. g[k] = c[k] /\ g[k - 1] = c[k - 1]
        BY <4>1
      <4> QED BY <3>2, <4>2, <4>3
    <3>3. CASE k = n + 1
      <4>1. k # 0 /\ ~(k <= n) /\ k - 1 = n /\ n \in 0..(n + 1) /\ n <= n
        BY <3>3
      <4>2. g[k] = (c[n] * LimbBase + l[n + 1]) % 10 /\ g[k - 1] = c[n]
        BY <4>1
      <4> QED BY <3>3, <4>1, <4>2
    <3> QED BY <3>1, <3>2, <3>3
  <2>3. Carried(g, l, n + 1)
    <3>1. g = [k \in 0..(n + 1) |-> g[k]]
      OBVIOUS
    <3> HIDE DEF g
    <3> QED BY <2>2, <3>1 DEF Carried
  <2> QED BY <2>3
<1> HIDE DEF S
<1>3. length \in S
  BY <1>1, <1>2, Induction
<1> QED BY <1>3 DEF S

\* Carries is that function.
LEMMA CarriesAre ==
  ASSUME limbs \in LimbsType
  PROVE  Carried(Carries, limbs, Half) /\ Len(limbs) = Half /\ DOMAIN limbs = 1..Half
<1>1. Len(limbs) = Half /\ DOMAIN limbs = 1..Half
  BY HalfIs, SeqOfFunction DEF LimbsType
<1>2. Carries = CHOOSE c : Carried(c, limbs, Len(limbs))
  BY DEF Carries, Carried, LimbBase
<1>3. \E c : Carried(c, limbs, Len(limbs))
  BY <1>1, HalfIs, CarriedExists
<1> QED BY <1>1, <1>2, <1>3, Zenon

\* A limb behind a carry, divided by ten.
LEMMA LimbTenth ==
  ASSUME NEW c \in 0..9, NEW B \in Nat \ {0}, NEW d \in 0..(B - 1), NEW n, n = c * B + d
  PROVE  \E q \in 0..(B - 1), r \in 0..9 :
           q = n \div 10 /\ r = n % 10 /\ n = 10 * q + r
<1>1. c * B + d \in 0..(10 * B - 1)
  <2>1. 10 \in Nat \ {0} /\ c \in 0..(10 - 1)
    OBVIOUS
  <2> QED BY <2>1, HalvesRange
<1>2. PICK m \in Nat : m = n /\ m <= 10 * B - 1
  BY <1>1
<1>3. /\ m \div 10 \in 0..(B - 1) /\ m % 10 \in 0..9
      /\ m = 10 * (m \div 10) + (m % 10)
  BY <1>2
<1> QED BY <1>2, <1>3

\* One pass over the limbs divides the number by ten: it leaves the quotient,
\* and carries the remainder out of the last limb.
LEMMA PassDivides ==
  ASSUME NEW l \in LimbsType, NEW c, Carried(c, l, Half),
         NEW r, r = [k \in 1..Half |-> (c[k - 1] * LimbBase + l[k]) \div 10],
         NEW d, d = c[Half], NEW v, v = Number(l, LimbBase),
         NEW w, w = Number(r, LimbBase)
  PROVE  /\ r \in LimbsType /\ d \in 0..9 /\ v \in Nat /\ w \in Nat
         /\ v = 10 * w + d
<1> DEFINE V(n) == Number(Part(l, 0, n), LimbBase)
           W(n) == Number(Part(r, 0, n), LimbBase)
           S == { n \in Nat : n <= Half => c[n] \in 0..9 }
           T == { n \in Nat : n <= Half => V(n) = 10 * W(n) + c[n] }
<1>0. PICK B \in Nat \ {0} : B = LimbBase
  BY HalfIs
<1>1. Half \in Nat /\ \A k \in 1..Half : l[k] \in 0..(B - 1) /\ l[k] \in Nat
  BY <1>0, HalfIs DEF LimbsType
<1>2. ASSUME NEW k \in 1..Half, c[k - 1] \in 0..9
      PROVE  /\ c[k] \in 0..9 /\ r[k] \in 0..(B - 1)
             /\ c[k - 1] * B + l[k] = 10 * r[k] + c[k]
  <2>1. k \in 0..Half /\ k # 0
    BY <1>1
  <2>2. c[k] = (c[k - 1] * B + l[k]) % 10
    BY <1>0, <2>1 DEF Carried
  <2>3. r[k] = (c[k - 1] * B + l[k]) \div 10
    BY <1>0
  <2>4. PICK x \in 0..9, y \in 0..(B - 1) : x = c[k - 1] /\ y = l[k]
    BY <1>1, <1>2
  <2>5. PICK n : n = x * B + y
    OBVIOUS
  <2>6. \E q \in 0..(B - 1), e \in 0..9 : q = n \div 10 /\ e = n % 10 /\ n = 10 * q + e
    BY ONLY <2>5, B \in Nat \ {0}, x \in 0..9, y \in 0..(B - 1), LimbTenth
  <2> QED BY <2>2, <2>3, <2>4, <2>5, <2>6, Zenon
<1>3. \A n \in 0..Half : c[n] \in 0..9
  <2>1. 0 \in S
    BY <1>1 DEF Carried
  <2>2. ASSUME NEW n \in Nat, n \in S PROVE n + 1 \in S
    <3> SUFFICES ASSUME n + 1 <= Half PROVE c[n + 1] \in 0..9
      OBVIOUS
    <3>1. n + 1 \in 1..Half /\ (n + 1) - 1 = n /\ n <= Half
      BY <1>1
    <3>2. c[n] \in 0..9
      BY <2>2, <3>1
    <3> QED BY <1>2, <3>1, <3>2
  <2> HIDE DEF S
  <2>3. Nat \subseteq S
    BY <2>1, <2>2, Induction
  <2> QED BY <1>1, <2>3 DEF S
<1>4. /\ l \in [1..Half -> Nat] /\ r \in [1..Half -> Nat] /\ r \in LimbsType
  <2>1. ASSUME NEW k \in 1..Half PROVE r[k] \in 0..(B - 1) /\ r[k] \in Nat
    <3>1. k - 1 \in 0..Half
      BY <1>1
    <3> QED BY <1>2, <1>3, <3>1
  <2>2. r = [k \in 1..Half |-> r[k]] /\ l = [k \in 1..Half |-> l[k]]
    BY DEF LimbsType
  <2> QED BY <1>0, <1>1, <2>1, <2>2 DEF LimbsType
<1>5. ASSUME NEW n \in Nat, n + 1 <= Half
      PROVE  Grows(l, B, n) /\ Grows(r, B, n)
  BY <1>0, <1>1, <1>4, <1>5, FirstDigits
<1>6. V(0) = 0 /\ W(0) = 0 /\ V(Half) = v /\ W(Half) = w
  <2>1. /\ Number(Part(l, 0, 0), LimbBase) = 0 /\ Part(l, 0, Half) = l
        /\ Number(Part(r, 0, 0), LimbBase) = 0 /\ Part(r, 0, Half) = r
    BY <1>1, <1>4, HalfIs, FirstDigits
  <2> QED BY <2>1
<1>7. 0 \in T
  <2>1. c[0] = 0
    BY <1>1 DEF Carried
  <2>2. 0 = 10 * 0 + 0
    OBVIOUS
  <2> QED BY <1>6, <2>1, <2>2
<1>8. ASSUME NEW n \in Nat, n \in T PROVE n + 1 \in T
  <2> SUFFICES ASSUME n + 1 <= Half PROVE V(n + 1) = 10 * W(n + 1) + c[n + 1]
    OBVIOUS
  <2>1. n <= Half /\ n \in 0..Half /\ n + 1 \in 1..Half /\ (n + 1) - 1 = n
    BY <1>1
  <2>2. PICK x \in Nat, y \in Nat : x = V(n) /\ y = W(n)
    BY <1>0, <1>5 DEF Grows
  <2>3. V(n + 1) = B * x + l[n + 1] /\ W(n + 1) = B * y + r[n + 1]
    BY <1>0, <1>5, <2>2, Zenon DEF Grows
  <2>4. PICK e \in Nat, f \in Nat, g \in Nat, h \in Nat :
          e = c[n] /\ f = c[n + 1] /\ g = l[n + 1] /\ h = r[n + 1]
    <3>1. c[n] \in Nat /\ l[n + 1] \in Nat
      BY <1>1, <1>3, <2>1
    <3>2. n + 1 \in 0..Half
      BY <2>1
    <3>3. c[n + 1] \in Nat
      BY <1>3, <3>2
    <3>4. r[n + 1] \in Nat
      BY <1>4, <2>1
    <3> QED BY <3>1, <3>3, <3>4
  <2>5. e * B + g = 10 * h + f
    BY <1>2, <1>3, <2>1, <2>4
  <2>6. x = 10 * y + e
    BY <1>8, <2>1, <2>2, <2>4
  <2>7. B * x + g = 10 * (B * y + h) + f
    <3>1. B * x = 10 * (B * y) + e * B
      BY ONLY <2>6, x \in Nat, y \in Nat, e \in Nat, B \in Nat
    <3>2. PICK i \in Nat, j \in Nat, k \in Nat : i = B * x /\ j = B * y /\ k = e * B
      OBVIOUS
    <3>3. i + g = 10 * (j + h) + f
      BY <2>5, <3>1, <3>2
    <3> QED BY <3>2, <3>3, Zenon
  <2> QED BY <2>3, <2>4, <2>7, Zenon
<1> HIDE DEF T, V, W
<1>9. Half \in T
  BY <1>1, <1>7, <1>8, Induction
<1>10. v = 10 * w + c[Half]
  BY <1>6, <1>9, <1>1 DEF T
<1>11. v \in Nat /\ w \in Nat
  <2>1. l \in Seq(Nat) /\ r \in Seq(Nat)
    BY <1>1, <1>4, SeqOfFunction
  <2> QED BY <2>1, HalfIs, NumberType
<1>12. d \in 0..9
  BY <1>1, <1>3
<1> QED BY <1>4, <1>10, <1>11, <1>12

\* Nothing but zeros writes zero.
LEMMA ZeroLimbs ==
  ASSUME NEW l \in LimbsType
  PROVE  Number(l, LimbBase) = 0 <=> \A k \in 1..Half : l[k] = 0
<1> DEFINE V(n) == Number(Part(l, 0, n), LimbBase)
           S == { n \in Nat : n <= Half =>
                    /\ V(n) \in Nat
                    /\ V(n) = 0 <=> \A k \in 1..n : l[k] = 0 }
<1>0. PICK B \in Nat \ {0} : B = LimbBase
  BY HalfIs
<1>1. Half \in Nat /\ \A k \in 1..Half : l[k] \in Nat
  BY HalfIs DEF LimbsType
<1>2. l \in [1..Half -> Nat]
  BY <1>1 DEF LimbsType
<1>3. 0 \in S
  <2>1. V(0) = 0
    BY <1>0, <1>1, <1>2, FirstDigits
  <2> HIDE DEF V
  <2> QED BY <2>1
<1>4. ASSUME NEW n \in Nat, n \in S PROVE n + 1 \in S
  <2> SUFFICES ASSUME n + 1 <= Half
               PROVE /\ V(n + 1) \in Nat
                     /\ V(n + 1) = 0 <=> \A k \in 1..(n + 1) : l[k] = 0
    OBVIOUS
  <2>1. Grows(l, B, n)
    BY <1>0, <1>1, <1>2, FirstDigits
  <2>2. PICK x \in Nat, d \in Nat : x = V(n) /\ d = l[n + 1]
    <3>1. n + 1 \in 1..Half
      BY <1>1
    <3> QED BY <1>0, <1>1, <2>1, <3>1 DEF Grows
  <2>3. V(n + 1) = B * x + d
    BY <1>0, <2>1, <2>2, Zenon DEF Grows
  <2>4. B * x + d \in Nat /\ (B * x + d = 0 <=> x = 0 /\ d = 0)
    OBVIOUS
  <2>5. x = 0 <=> \A k \in 1..n : l[k] = 0
    BY <1>4, <1>1, <2>2
  <2>6. \A k \in 1..(n + 1) : k \in 1..n \/ k = n + 1
    OBVIOUS
  <2>7. \A k \in 1..n : k \in 1..(n + 1)
    OBVIOUS
  <2>8. n + 1 \in 1..(n + 1)
    OBVIOUS
  <2> HIDE DEF V
  <2> QED BY <2>2, <2>3, <2>4, <2>5, <2>6, <2>7, <2>8
<1> HIDE DEF S
<1>5. Half \in S
  BY <1>1, <1>3, <1>4, Induction
<1>6. V(Half) = Number(l, LimbBase)
  BY <1>0, <1>1, <1>2, FirstDigits
<1> HIDE DEF V
<1> QED BY <1>1, <1>5, <1>6 DEF S

\* What is left of the amount, and the digits that are written, are the digits
\* of the amount.
Rest == Number(limbs, LimbBase)

AmountInv ==
  /\ limbs \in LimbsType
  /\ pc = "amount" =>
       /\ job = "amount"
       /\ IF digits = << >> THEN Rest = Sent("value")
          ELSE Decimal(Sent("value")) = (IF Rest = 0 THEN << >> ELSE Decimal(Rest)) \o digits

-----------------------------------------------------------------------------
\* Dots and names are texts.
LEMMA Names ==
  /\ Ellipsis \in Seq(Printable) /\ Len(Ellipsis) = 3
  /\ << 109 >> \in Seq(Printable) /\ << 116 >> \in Seq(Printable)
<1>1. DOT \in Printable /\ 109 \in Printable /\ 116 \in Printable
  BY DEF Printable, DOT
<1> QED BY <1>1 DEF Ellipsis

\* The places of the strings.
LEMMA Places ==
  /\ NetworkAt \in Nat /\ DataAt \in Nat /\ DataAt = NetworkAt + NetworkSize
  /\ NetworkSize \in Nat /\ DataSize \in Nat /\ SelectorLength \in Nat
  /\ WordBytes \in Nat /\ 2 * SelectorLength + 6 <= DataSize
<1>1. /\ AmountSize \in Nat /\ FeeSize \in Nat /\ NonceSize \in Nat /\ NetworkSize \in Nat
      /\ DataSize \in Nat /\ SelectorLength \in Nat
  BY DisplayAssumption
<1> QED BY <1>1, DisplayAssumption, WidthAssumption
        DEF AmountAt, FeeAt, NonceAt, NetworkAt, DataAt

-----------------------------------------------------------------------------
\* The chain id.

Byte == 0..(2^ByteBits - 1)

\* The bytes of a transaction are natural numbers, and below 256.
LEMMA ByteType ==
  Byte \subseteq Nat /\ Byte \subseteq Octets /\ 2^ByteBits \in Nat /\ 2^ByteBits > 0
<1>1. 2^ByteBits \in 1..256
  BY TxsAssumption, Zenon
<1> QED BY <1>1 DEF Byte, Octets

\* The fields that are read as they are.
LEMMA FieldTypes ==
  ASSUME tx \in Txs
  PROVE  tx.chainid \in Seq(Byte) /\ tx.data \in Seq(Byte)
<1>1. "chainid" \in DOMAIN tx /\ "data" \in DOMAIN tx
  BY TxsAssumption
<1> QED BY <1>1, TxsAssumption DEF Byte

\* ChainId is a number: the chain id that was sent, or its first word.
LEMMA ChainIdIs ==
  ASSUME tx \in Txs
  PROVE  ChainId \in Nat /\ ChainId = SentNetwork
<1> DEFINE s == tx.chainid
           n == Min({ Len(s), WordBytes })
<1>1. s \in Seq(Nat)
  BY FieldTypes, ByteType, SeqMonotonic
<1>2. Len(s) \in Nat /\ WordBytes \in Nat
  BY <1>1, Places
<1>3. n = IF Len(s) <= WordBytes THEN Len(s) ELSE WordBytes
  BY <1>2, MinOfTwo
<1>4. ChainId = Number(SubSeq(s, 1, n), 2^ByteBits) /\ Sent("chainid") = Number(s, 2^ByteBits)
  BY DEF ChainId, FirstBytes, Sent
<1> HIDE DEF n
<1>5. SentNetwork = IF Len(s) <= WordBytes THEN Sent("chainid")
                    ELSE Number(SubSeq(s, 1, WordBytes), 2^ByteBits)
  BY DEF SentNetwork
<1> HIDE DEF s
<1>6. SubSeq(s, 1, n) \in Seq(Nat) /\ (n = Len(s) => SubSeq(s, 1, n) = s)
  BY <1>1, <1>2, <1>3
<1>7. ChainId \in Nat
  BY <1>4, <1>6, ByteType, NumberType
<1>8. CASE Len(s) <= WordBytes
  BY <1>3, <1>4, <1>5, <1>6, <1>7, <1>8, Zenon
<1>9. CASE ~(Len(s) <= WordBytes)
  BY <1>3, <1>4, <1>5, <1>7, <1>9, Zenon
<1> QED BY <1>8, <1>9

\* The name of a network is a text.
LEMMA NetworkNameType ==
  ASSUME tx \in Txs
  PROVE  NetworkName \in Seq(Printable)
<1>1. Decimal(ChainId) \in Seq(Digits)
  BY ChainIdIs, DecimalReads
<1>2. Decimal(ChainId) \in Seq(Printable)
  BY <1>1, TextCharacters, SeqMonotonic
<1> QED BY <1>2, Names DEF NetworkName

-----------------------------------------------------------------------------
\* The data.

DataText == HexPrefix \o Hex(SubSeq(tx.data, 1, Shown)) \o Dots

\* A remainder, and when there is nothing to take away.
LEMMA CutIs ==
  ASSUME NEW k \in Nat, NEW m \in Nat, m > 0
  PROVE  k % m \in Nat /\ k % m <= k /\ (k < m => k % m = k)
OBVIOUS

\* What is counted of the data is as long as DataLength says, and begins as the
\* data does.
LEMMA CountedIs ==
  ASSUME NEW s \in Seq(Nat), s = tx.data
  PROVE  /\ DataLength \in Nat /\ DataLength <= Len(s)
         /\ Len(CountedData) = DataLength
         /\ \A n \in 0..DataLength : SubSeq(CountedData, 1, n) = SubSeq(s, 1, n)
         /\ CountedData = SubSeq(s, 1, DataLength)
<1>1. PICK m \in Nat : m = 2^ByteBits /\ m > 0
  BY ByteType
<1>2. PICK k \in Nat : k = Len(s)
  OBVIOUS
<1>3. DataLength = k % m
  BY <1>1, <1>2 DEF DataLength
<1>4. k % m \in Nat /\ k % m <= k /\ (k < m => k % m = k)
  BY <1>1, <1>2, CutIs
<1>5. PICK d \in Nat : d = k % m
  BY <1>4
<1>6. DataLength = d /\ d <= k /\ (k < m => d = k)
  BY <1>3, <1>4, <1>5
<1>7. SubSeq(s, 1, d) \in Seq(Nat) /\ Len(SubSeq(s, 1, d)) = d
      /\ (d = Len(s) => SubSeq(s, 1, d) = s)
  <2>1. d \in Nat /\ d <= Len(s)
    BY <1>2, <1>6
  <2> QED BY <2>1
<1>8. PICK c \in Seq(Nat) : c = SubSeq(s, 1, d) /\ Len(c) = d /\ (d = k => c = s)
  <2>1. SubSeq(s, 1, d) \in Seq(Nat) /\ SubSeq(s, 1, d) = SubSeq(s, 1, d)
        /\ Len(SubSeq(s, 1, d)) = d /\ (d = k => SubSeq(s, 1, d) = s)
    BY <1>2, <1>7, Zenon
  <2> QED BY <2>1, Zenon
<1>9. CountedData = IF k < m THEN s ELSE SubSeq(s, 1, d)
  BY <1>1, <1>2, <1>5, Zenon DEF CountedData
<1>10. CountedData = c
  BY <1>6, <1>8, <1>9, Zenon
<1>11. ASSUME NEW n \in 0..d PROVE SubSeq(c, 1, n) = SubSeq(s, 1, n)
  BY <1>2, <1>6, <1>8
<1>12. \A n \in 0..d : SubSeq(CountedData, 1, n) = SubSeq(s, 1, n)
  BY <1>10, <1>11, Zenon
<1>13. DataLength \in Nat /\ DataLength <= Len(s) /\ Len(CountedData) = DataLength
  BY <1>2, <1>6, <1>8, <1>10
<1> QED BY <1>6, <1>8, <1>10, <1>12, <1>13, Zenon

\* The text of the data is all that is counted of it, or a selector and dots.
LEMMA DataTextIs ==
  ASSUME tx \in Txs
  PROVE  /\ DataText \in Seq(Printable) /\ Len(DataText) < DataSize
         /\ \/ DataText = HexPrefix \o Hex(CountedData)
            \/ \E n \in SelectorLength..(Len(CountedData) - 1) :
                 DataText = HexPrefix \o Hex(SubSeq(CountedData, 1, n)) \o Ellipsis
<1> DEFINE s == tx.data
           d == DataLength
           n == Shown
           x == Hex(SubSeq(s, 1, n))
<1>1. s \in Seq(Octets) /\ Len(s) \in Nat
  <2>1. s \in Seq(Byte)
    BY FieldTypes
  <2> HIDE DEF s
  <2>2. s \in Seq(Octets)
    BY <2>1, ByteType, SeqMonotonic
  <2> QED BY <2>2
<1>2. /\ d \in Nat /\ d <= Len(s) /\ Len(CountedData) = d
      /\ CountedData = SubSeq(s, 1, d)
      /\ \A k \in 0..d : SubSeq(CountedData, 1, k) = SubSeq(s, 1, k)
  <2>1. s \in Seq(Nat)
    BY FieldTypes, ByteType, SeqMonotonic
  <2> QED BY <2>1, CountedIs
<1>3. n = IF SelectorLength <= d THEN SelectorLength ELSE d
  <2>1. n = Min({ SelectorLength, d })
    BY DEF Shown
  <2> HIDE DEF n, d
  <2> QED BY <1>2, <2>1, Places, MinOfTwo
<1>4. Dots = IF d > SelectorLength THEN Ellipsis ELSE << >>
  BY DEF Dots
<1> HIDE DEF s, d, n
<1>5. n \in Nat /\ n <= Len(s) /\ n <= SelectorLength
  BY <1>2, <1>3, Places
<1>6. SubSeq(s, 1, n) \in Seq(Octets) /\ Len(SubSeq(s, 1, n)) = n
      /\ (n = Len(s) => SubSeq(s, 1, n) = s)
  BY <1>1, <1>5
<1>7. x \in Seq(HexDigits) /\ Len(x) = 2 * n
  BY <1>6, HexIs
<1>8. x \in Seq(Printable)
  BY <1>7, TextCharacters, SeqMonotonic
<1>9. DataText = HexPrefix \o x \o Dots
  BY DEF DataText, s, n
<1> HIDE DEF x
<1>10. HexPrefix \o x \in Seq(Printable) /\ Len(HexPrefix \o x) = 2 + 2 * n
  <2>1. HexPrefix \o x \in Seq(Printable) /\ Joins(HexPrefix \o x, HexPrefix, x)
    BY <1>8, TextCharacters, Concatenated
  <2> QED BY <1>7, <2>1, TextCharacters DEF Joins
<1>11. CASE d > SelectorLength
  <2>1. Dots = Ellipsis /\ n = SelectorLength
    BY <1>2, <1>3, <1>4, <1>11, Places
  <2>2. (HexPrefix \o x) \o Ellipsis \in Seq(Printable)
        /\ Len((HexPrefix \o x) \o Ellipsis) = 2 + 2 * n + 3
    <3>1. /\ (HexPrefix \o x) \o Ellipsis \in Seq(Printable)
          /\ Joins((HexPrefix \o x) \o Ellipsis, HexPrefix \o x, Ellipsis)
      BY <1>10, Names, Concatenated
    <3> QED BY <1>10, <3>1, Names DEF Joins
  <2>3. n \in SelectorLength..(Len(CountedData) - 1) /\ n \in 0..d
    BY <1>2, <1>11, <2>1, Places
  <2>4. DataText = HexPrefix \o Hex(SubSeq(CountedData, 1, n)) \o Ellipsis
    <3>1. SubSeq(CountedData, 1, n) = SubSeq(s, 1, n)
      BY <1>2, <2>3
    <3> QED BY <1>9, <2>1, <3>1, Zenon DEF x
  <2>5. Len(DataText) < DataSize
    BY <1>5, <1>9, <2>1, <2>2, Places
  <2> QED BY <1>9, <2>1, <2>2, <2>3, <2>4, <2>5
<1>12. CASE ~(d > SelectorLength)
  <2>1. Dots = << >> /\ n = d
    BY <1>2, <1>3, <1>4, <1>12, Places
  <2>2. DataText = HexPrefix \o x
    BY <1>9, <1>10, <2>1
  <2>3. DataText = HexPrefix \o Hex(CountedData)
    BY <1>2, <2>1, <2>2, Zenon DEF x
  <2>4. Len(DataText) < DataSize
    BY <1>5, <1>10, <2>2, Places
  <2> QED BY <1>10, <2>2, <2>3, <2>4
<1> QED BY <1>11, <1>12

-----------------------------------------------------------------------------
\* What is written of the two texts, from when on.
Written ==
  /\ tx \in Txs /\ DOMAIN mem \subseteq Int
  /\ pc \in { "data", "done" } =>
       /\ Len(NetworkName) < NetworkSize
       /\ Holds(mem, NetworkAt, Terminated(NetworkName))
  /\ pc = "done" => Holds(mem, DataAt, Terminated(DataText))

\* The name of the network is written with its terminator.
LEMMA NetworkWritten ==
  ASSUME Written, RenderNetwork
  PROVE  Written'
<1>1. tx' = tx /\ NetworkName' = NetworkName /\ tx \in Txs
  BY DEF RenderNetwork, Written, NetworkName, ChainId, FirstBytes
<1> DEFINE t == Terminated(NetworkName)
           cut == SubSeq(Reverse(NetworkName), 1, NetworkSize - 1)
<1>2. NetworkName \in Seq(Printable)
  BY <1>1, NetworkNameType
<1>3. Len(t) \in Nat
  BY <1>2, TerminatedBehind
<1>4. CASE Len(NetworkName) < NetworkSize
  <2>1. mem' = Store(mem, NetworkAt, t) /\ pc' = "data"
    BY <1>4 DEF RenderNetwork
  <2> HIDE DEF t
  <2>2. Holds(mem', NetworkAt, t) /\ DOMAIN mem' \subseteq Int
    BY <1>3, <2>1, Places, StoreHolds, StoreDomain DEF Written
  <2> QED BY <1>1, <1>4, <2>1, <2>2 DEF Written, t
<1>5. CASE ~(Len(NetworkName) < NetworkSize)
  <2>1. mem' = Store(mem, NetworkAt, cut) /\ pc' = "refused"
    BY <1>5 DEF RenderNetwork
  <2> HIDE DEF cut
  <2>2. DOMAIN mem' \subseteq Int
    BY <2>1, StoreDomain DEF Written
  <2> QED BY <1>1, <2>1, <2>2 DEF Written
<1> QED BY <1>4, <1>5

\* The text of the data is written behind it, and the cleared field
\* terminates it.
LEMMA DataWritten ==
  ASSUME Written, RenderData
  PROVE  Written'
<1>1. /\ tx' = tx /\ NetworkName' = NetworkName /\ DataText' = DataText
      /\ tx \in Txs /\ pc = "data" /\ pc' = "done"
  BY DEF RenderData, Written, NetworkName, ChainId, FirstBytes, DataText, Shown, Dots,
         DataLength
<1> DEFINE name == Terminated(NetworkName)
           zeros == Cleared(DataSize)
           clear == Store(mem, DataAt, zeros)
           text == DataText
<1>2. mem' = Store(clear, DataAt, text)
  BY DEF RenderData, DataText
<1>3. Len(name) = Len(NetworkName) + 1 /\ Len(name) \in Nat /\ Len(NetworkName) \in Nat
  BY <1>1, NetworkNameType, TerminatedBehind
<1>4. Len(zeros) = DataSize /\ \A i \in 1..DataSize : zeros[i] = NUL
  BY Places DEF Cleared
<1>5. text \in Seq(Printable) /\ Len(text) < DataSize
  BY <1>1, DataTextIs
<1>6. Holds(mem, NetworkAt, name) /\ Len(NetworkName) < NetworkSize
  BY <1>1 DEF Written
<1>7. DOMAIN clear \subseteq Int /\ DOMAIN Store(clear, DataAt, text) \subseteq Int
  BY StoreDomain DEF Written
<1> HIDE DEF name, zeros, text
<1>8. Len(text) \in Nat
  BY <1>5
<1>9. Holds(clear, NetworkAt, name)
  <2>1. NetworkAt + Len(name) <= DataAt
    BY <1>3, <1>6, Places
  <2> QED BY <1>3, <1>4, <1>6, <2>1, Places, StoreKeeps
<1>10. Holds(Store(clear, DataAt, text), NetworkAt, name)
  <2>1. NetworkAt + Len(name) <= DataAt
    BY <1>3, <1>6, Places
  <2> HIDE DEF clear
  <2> QED BY <1>3, <1>8, <1>9, <2>1, Places, StoreKeeps
<1>11. Holds(clear, DataAt, zeros)
  BY <1>4, Places, StoreHolds
<1>12. Holds(Store(clear, DataAt, text), DataAt, Terminated(text))
  <2> DEFINE m == Store(clear, DataAt, text)
             t == Terminated(text)
             n == Len(text)
  <2>1. /\ Len(t) = n + 1 /\ t[n + 1] = NUL /\ n \in Nat /\ n < DataSize
        /\ \A i \in 1..n : t[i] = text[i]
    BY <1>5 DEF Terminated
  <2>2. \A i \in 1..n : DataAt + i - 1 \in DOMAIN m /\ m[DataAt + i - 1] = text[i]
    <3>1. Holds(m, DataAt, text)
      <4> HIDE DEF clear
      <4> QED BY <1>8, Places, StoreHolds
    <3> QED BY <3>1 DEF Holds
  <2>3. DataAt + n \in DOMAIN clear /\ clear[DataAt + n] = NUL
    <3>1. n + 1 \in 1..DataSize /\ DataAt + (n + 1) - 1 = DataAt + n
      BY <2>1, Places
    <3>2. /\ DataAt + (n + 1) - 1 \in DOMAIN clear
          /\ clear[DataAt + (n + 1) - 1] = zeros[n + 1]
      <4> HIDE DEF clear, n
      <4> QED BY <1>4, <1>11, <3>1 DEF Holds
    <3> HIDE DEF clear, n
    <3> QED BY <1>4, <3>1, <3>2
  <2>4. DataAt + n \in DOMAIN m /\ m[DataAt + n] = NUL
    <3>1. DataAt + n \notin DataAt..(DataAt + Len(text) - 1)
      BY <2>1, Places
    <3>2. /\ DOMAIN m = DOMAIN clear \cup DataAt..(DataAt + Len(text) - 1)
          /\ \A i \in DOMAIN clear \ DataAt..(DataAt + Len(text) - 1) : m[i] = clear[i]
      <4>1. DataAt \in Int
        BY Places
      <4> HIDE DEF clear
      <4> QED BY <1>8, <4>1, StoreCells, Zenon
    <3> HIDE DEF clear, m, n
    <3> QED BY <2>3, <3>1, <3>2
  <2> HIDE DEF clear, m, n, t
  <2>5. ASSUME NEW i \in 1..(n + 1)
        PROVE  DataAt + i - 1 \in DOMAIN m /\ m[DataAt + i - 1] = t[i]
    <3>1. CASE i \in 1..n
      BY <2>1, <2>2, <3>1
    <3>2. CASE i = n + 1
      <4>1. DataAt + i - 1 = DataAt + n
        BY <2>1, <3>2, Places
      <4> QED BY <2>1, <2>4, <3>2, <4>1
    <3>3. i \in 1..n \/ i = n + 1
      BY <2>1
    <3> QED BY <3>1, <3>2, <3>3
  <2>6. Holds(m, DataAt, t)
    BY <2>1, <2>5 DEF Holds
  <2> QED BY <2>6 DEF m, t
<1> HIDE DEF clear
<1> QED BY <1>1, <1>2, <1>6, <1>7, <1>10, <1>12 DEF Written, name, text

\* Every other step comes before the network is written, or leaves the memory.
LEMMA NotYetWritten ==
  ASSUME Written, tx' = tx, pc' \notin { "data", "done" }, (DOMAIN mem)' \subseteq Int
  PROVE  Written'
BY DEF Written

\* The network on the screen is the one of the chain id that was sent (of its
\* first word, if it is longer): by its name if it has one, else by the number;
\* and the data is what its length in a byte counts of it, in full or its
\* beginning with dots: NetworkAndDataExact holds in every state.
THEOREM NetworkAndDataExactAlways == Spec => []NetworkAndDataExact
<1>1. Init => Written
  <2> SUFFICES ASSUME Init PROVE Written
    OBVIOUS
  <2>1. DOMAIN mem \subseteq Int
    BY DEF Init, Strings
  <2> QED BY <2>1 DEF Init, Written
<1>2. Written /\ [Next]_vars => Written'
  <2> SUFFICES ASSUME Written, [Next]_vars PROVE Written'
    OBVIOUS
  <2>1. CASE AmountDigit
    BY <2>1, NotYetWritten DEF AmountDigit, Written
  <2>2. CASE AmountText
    <3>1. tx' = tx /\ pc' \in { "fee", "refused" } /\ (DOMAIN mem)' \subseteq Int
      BY <2>2, StoreDomain DEF AmountText, Written
    <3> QED BY <3>1, NotYetWritten
  <2>3. CASE RenderFee
    BY <2>3, NotYetWritten DEF RenderFee, StartString, Written
  <2>4. CASE Align
    BY <2>4, NotYetWritten DEF Align, Written
  <2>5. CASE Divide
    BY <2>5, NotYetWritten DEF Divide, Written
  <2>6. CASE StoreDigit
    BY <2>6, NotYetWritten DEF StoreDigit, Written
  <2>7. CASE FeeText
    <3>1. tx' = tx /\ pc' = "digit" /\ (DOMAIN mem)' \subseteq Int
      BY <2>7, StoreDomain DEF FeeText, StartString, Written
    <3> QED BY <3>1, NotYetWritten
  <2>8. CASE NonceText
    <3>1. tx' = tx /\ pc' = "network" /\ (DOMAIN mem)' \subseteq Int
      BY <2>8, StoreDomain DEF NonceText, Written
    <3> QED BY <3>1, NotYetWritten
  <2>9. CASE NonceTooLong
    <3>1. tx' = tx /\ pc' = "network" /\ (DOMAIN mem)' \subseteq Int
      BY <2>9, StoreDomain DEF NonceTooLong, Written
    <3> QED BY <3>1, NotYetWritten
  <2>10. CASE RenderNetwork
    BY <2>10, NetworkWritten
  <2>11. CASE RenderData
    BY <2>11, DataWritten
  <2>12. CASE UNCHANGED vars
    BY <2>12 DEF vars, Written, NetworkName, ChainId, FirstBytes, DataText, Shown, Dots,
                 DataLength
  <2> QED BY <2>1, <2>2, <2>3, <2>4, <2>5, <2>6, <2>7, <2>8, <2>9, <2>10, <2>11, <2>12
          DEF Next
<1>3. Written => NetworkAndDataExact
  <2> SUFFICES ASSUME Written, pc = "done" PROVE NetworkAndDataExact
    BY DEF NetworkAndDataExact
  <2>1. tx \in Txs /\ NetworkAt \in Int /\ DataAt \in Int
    BY Places DEF Written
  <2>2. TextAt(mem, NetworkAt) = NetworkName
    BY <2>1, NetworkNameType, TextCharacters, HoldsText DEF Written
  <2>3. TextAt(mem, DataAt) = DataText
    BY <2>1, DataTextIs, TextCharacters, HoldsText DEF Written
  <2>4. NetworkShown(NetworkName, SentNetwork)
    <3>1. ChainId \in Nat /\ ChainId = SentNetwork
      BY <2>1, ChainIdIs
    <3>2. CASE ChainId \in { MAINNET, TESTNET }
      BY <3>1, <3>2 DEF NetworkName, NetworkShown
    <3>3. CASE ChainId \notin { MAINNET, TESTNET }
      <4>1. NetworkName = Decimal(ChainId)
        BY <3>3 DEF NetworkName
      <4>2. IsNumeral(Decimal(ChainId)) /\ ReadNumber(Decimal(ChainId)) = ChainId
        BY <3>1, DecimalReads
      <4> QED BY <3>1, <3>3, <4>1, <4>2, Zenon DEF NetworkShown
    <3> QED BY <3>2, <3>3
  <2>5. /\ \/ DataText = HexPrefix \o Hex(CountedData)
           \/ \E n \in SelectorLength..(Len(CountedData) - 1) :
                DataText = HexPrefix \o Hex(SubSeq(CountedData, 1, n)) \o Ellipsis
    BY <2>1, DataTextIs
  <2> QED BY <2>2, <2>3, <2>4, <2>5, Zenon DEF NetworkAndDataExact
<1> QED BY <1>1, <1>2, <1>3, PTL DEF Spec

-----------------------------------------------------------------------------
\* The memory of the strings.

MemoryType(m) == DOMAIN m = Strings /\ \A i \in Strings : m[i] \in Chars

\* The places of all strings, one behind the other.
LEMMA AllPlaces ==
  /\ AmountAt = 0 /\ FeeAt = AmountSize /\ NonceAt = FeeAt + FeeSize
  /\ NetworkAt = NonceAt + NonceSize /\ DataAt = NetworkAt + NetworkSize
  /\ AmountSize \in Nat \ {0} /\ FeeSize \in Nat \ {0} /\ NonceSize \in Nat \ {0}
  /\ NetworkSize \in Nat \ {0} /\ DataSize \in Nat \ {0} /\ TmpSize \in Nat \ {0}
  /\ AmountAt \in Nat /\ FeeAt \in Nat /\ NonceAt \in Nat /\ NetworkAt \in Nat
  /\ DataAt \in Nat
  /\ Strings = 0..(DataAt + DataSize - 1)
<1>1. /\ AmountSize \in Nat \ {0} /\ FeeSize \in Nat \ {0} /\ NonceSize \in Nat \ {0}
      /\ NetworkSize \in Nat \ {0} /\ DataSize \in Nat \ {0} /\ TmpSize \in Nat \ {0}
  BY DisplayAssumption
<1> QED BY <1>1 DEF AmountAt, FeeAt, NonceAt, NetworkAt, DataAt, Strings

\* A store between the first and the last cell leaves the memory its cells.
LEMMA StoreInside ==
  ASSUME NEW m, MemoryType(m), NEW at \in Nat, NEW s \in Seq(Chars),
         at + Len(s) <= DataAt + DataSize
  PROVE  MemoryType(Store(m, at, s))
<1> DEFINE n == Len(s)
           r == Store(m, at, s)
<1>1. n \in Nat /\ DataAt + DataSize \in Nat
  BY AllPlaces
<1>2. /\ DOMAIN r = DOMAIN m \cup at..(at + n - 1)
      /\ \A i \in DOMAIN m \ at..(at + n - 1) : r[i] = m[i]
  <2>1. at \in Int
    OBVIOUS
  <2> QED BY <1>1, <2>1, StoreCells, Zenon
<1>3. \A i \in at..(at + n - 1) : i \in Strings /\ r[i] \in Chars
  <2> TAKE i \in at..(at + n - 1)
  <2>1. PICK k \in 1..n : i = at + k - 1
    <3>1. i - at + 1 \in 1..n /\ i = at + (i - at + 1) - 1
      BY <1>1
    <3> QED BY <3>1
  <2>2. r[i] = s[k]
    BY <1>1, <2>1, StoredCell
  <2>3. s[k] \in Chars
    BY ElementOfSeq
  <2>4. i \in Strings
    BY <1>1, AllPlaces
  <2> QED BY <2>2, <2>3, <2>4
<1>4. DOMAIN r = Strings
  <2> HIDE DEF r, n
  <2> QED BY <1>2, <1>3 DEF MemoryType
<1>5. \A i \in Strings : r[i] \in Chars
  <2> HIDE DEF r, n
  <2> QED BY <1>2, <1>3 DEF MemoryType
<1> QED BY <1>4, <1>5 DEF MemoryType

\* Texts consist of characters, and so do their terminated forms.
LEMMA TextsAreChars ==
  /\ Seq(Printable) \subseteq Seq(Chars) /\ Seq(Digits) \subseteq Seq(Printable)
  /\ Seq(Digits) \subseteq Seq(Chars) /\ << NUL >> \in Seq(Chars)
  /\ \A t \in Seq(Printable) :
       Terminated(t) \in Seq(Chars) /\ Len(Terminated(t)) = Len(t) + 1 /\ Len(t) \in Nat
<1>1. Printable \subseteq Chars /\ NUL \in Chars
  BY DEF Printable, Chars, NUL
<1>2. Seq(Printable) \subseteq Seq(Chars) /\ Seq(Digits) \subseteq Seq(Printable)
  BY <1>1, Points, SeqMonotonic
<1>3. << NUL >> \in Seq(Chars)
  BY <1>1
<1>4. ASSUME NEW t \in Seq(Printable)
      PROVE  Terminated(t) \in Seq(Chars) /\ Len(Terminated(t)) = Len(t) + 1 /\ Len(t) \in Nat
  BY <1>1, <1>2 DEF Terminated
<1> QED BY <1>2, <1>3, <1>4

\* The ticker is a text.
LEMMA TickerIs == Ticker \in Seq(Printable) /\ Len(Ticker) \in Nat
<1>1. Ticker \in Seq(32..126)
  BY DisplayAssumption
<1>2. 32..126 \subseteq Printable
  BY DEF Printable
<1>3. Seq(32..126) \subseteq Seq(Printable)
  BY <1>2, SeqMonotonic
<1> QED BY <1>1, <1>3, LenProperties

\* Two texts next to each other are their concatenation.
LEMMA HoldsBoth ==
  ASSUME NEW m, NEW at \in Int, NEW S, NEW a \in Seq(S), NEW b \in Seq(S),
         Holds(m, at, a), Holds(m, at + Len(a), b)
  PROVE  Holds(m, at, a \o b)
<1>1. Joins(a \o b, a, b)
  BY Concatenated
<1> SUFFICES ASSUME NEW i \in 1..Len(a \o b)
             PROVE  at + i - 1 \in DOMAIN m /\ m[at + i - 1] = (a \o b)[i]
  BY DEF Holds
<1>2. Len(a) \in Nat /\ Len(b) \in Nat /\ Len(a \o b) = Len(a) + Len(b)
  BY <1>1 DEF Joins
<1>3. CASE i <= Len(a)
  <2>1. i \in 1..Len(a)
    BY <1>2, <1>3
  <2> QED BY <1>1, <2>1 DEF Joins, Holds
<1>4. CASE ~(i <= Len(a))
  <2>1. PICK k \in 1..Len(b) : i = Len(a) + k
    <3>1. i - Len(a) \in 1..Len(b) /\ i = Len(a) + (i - Len(a))
      BY <1>2, <1>4
    <3> QED BY <3>1
  <2>2. at + i - 1 = at + Len(a) + k - 1
    BY <1>2, <2>1
  <2>3. (a \o b)[i] = b[k]
    BY <1>1, <2>1 DEF Joins
  <2>4. at + Len(a) + k - 1 \in DOMAIN m /\ m[at + Len(a) + k - 1] = b[k]
    BY DEF Holds
  <2> QED BY <2>2, <2>3, <2>4
<1> QED BY <1>3, <1>4

\* A text that is turned around is a text of the same length.
LEMMA ReverseIs ==
  ASSUME NEW S, NEW s \in Seq(S)
  PROVE  Reverse(s) \in Seq(S) /\ Len(Reverse(s)) = Len(s)
<1> DEFINE n == Len(s)
<1>0. n \in Nat
  OBVIOUS
<1>1. Reverse(s) = [i \in 1..n |-> s[(n - i) + 1]]
  BY Zenon DEF Reverse
<1>2. \A i \in 1..n : (n - i) + 1 \in 1..n
  BY <1>0
<1>3. \A i \in 1..n : s[(n - i) + 1] \in S
  BY <1>2, ElementOfSeq
<1>4. Reverse(s) \in [1..n -> S]
  BY <1>1, <1>3
<1> QED BY <1>0, <1>4, SeqOfFunction

\* A text that shows n behind the ticker.
Shows(n) == Ticker \o Adjusted(Decimal(n))

\* How long it is.
LEMMA ShowsIs ==
  ASSUME NEW n \in Nat
  PROVE  /\ Shows(n) \in Seq(Printable) /\ Adjusted(Decimal(n)) \in Seq(Printable)
         /\ Len(Shows(n)) = Len(Ticker) + Len(Adjusted(Decimal(n)))
         /\ Len(Shows(n)) <= Len(Ticker) +
              IF Len(Decimal(n)) <= Decimals THEN Decimals + 2 ELSE Len(Decimal(n)) + 1
         /\ TickerAndNumber(Shows(n), n)
<1> DEFINE a == Adjusted(Decimal(n))
           L == Len(Decimal(n))
           most == IF L <= Decimals THEN Decimals + 2 ELSE L + 1
<1>1. a \in Seq(Printable) /\ Len(a) <= most /\ Writes(a, n)
  BY AdjustedIs
<1>2. most \in Int
  <2>1. L \in Nat
    BY DecimalReads
  <2> QED BY <2>1, Sizes
<1> HIDE DEF a, most
<1>3. Ticker \o a \in Seq(Printable) /\ Joins(Ticker \o a, Ticker, a)
  BY <1>1, TickerIs, Concatenated
<1>4. Len(Ticker \o a) = Len(Ticker) + Len(a) /\ Len(Ticker) \in Nat /\ Len(a) \in Nat
  BY <1>3 DEF Joins
<1>5. SubSeq(Ticker \o a, 1, Len(Ticker)) = Ticker
  BY <1>3 DEF Joins
<1>6. SubSeq(Ticker \o a, Len(Ticker) + 1, Len(Ticker \o a)) = a
  BY <1>1, <1>4, TickerIs
<1>7. TickerAndNumber(Ticker \o a, n)
  BY <1>1, <1>5, <1>6 DEF TickerAndNumber
<1> QED BY <1>1, <1>2, <1>3, <1>4, <1>7 DEF Shows, a, most

-----------------------------------------------------------------------------
\* What is written of the amount, the fee and the nonce, from when on.

AmountStored(m) ==
  /\ Len(Shows(Sent("value"))) + 2 <= AmountSize
  /\ Holds(m, AmountAt, Terminated(Shows(Sent("value"))))

FeeStored(m) ==
  Len(Shows(SentFee)) < FeeSize => Holds(m, FeeAt, Terminated(Shows(SentFee)))

NonceStored(m) ==
  Sent("nonce") < TenTo(NonceSize - 1) =>
    Holds(m, NonceAt, Terminated(Decimal(Sent("nonce"))))

StringsInv ==
  /\ pc \notin { "amount", "refused" } => AmountStored(mem)
  /\ pc \in { "digit", "divide", "store", "text" } /\ job = "nonce" => FeeStored(mem)
  /\ pc \in { "network", "data", "done" } => FeeStored(mem) /\ NonceStored(mem)

\* The texts that are shown depend on the transaction only.
LEMMA StoredStays ==
  ASSUME tx' = tx
  PROVE  /\ AmountStored(mem)' <=> AmountStored(mem')
         /\ FeeStored(mem)' <=> FeeStored(mem')
         /\ NonceStored(mem)' <=> NonceStored(mem')
BY DEF AmountStored, FeeStored, NonceStored, Shows, SentFee, Sent

\* A store behind a field does not change what the field holds.
LEMMA StoredBefore ==
  ASSUME tx \in Txs, NEW m, NEW b \in Nat, NEW u, Len(u) \in Nat
  PROVE  /\ AmountStored(m) /\ FeeAt <= b => AmountStored(Store(m, b, u))
         /\ FeeStored(m) /\ NonceAt <= b => FeeStored(Store(m, b, u))
         /\ NonceStored(m) /\ NetworkAt <= b => NonceStored(Store(m, b, u))
<1>1. ASSUME AmountStored(m), FeeAt <= b PROVE AmountStored(Store(m, b, u))
  <2> DEFINE t == Terminated(Shows(Sent("value")))
  <2>1. Shows(Sent("value")) \in Seq(Printable)
    BY Numbers, ShowsIs
  <2>2. Len(t) \in Nat /\ Len(t) <= AmountSize
    BY <1>1, <2>1, TextsAreChars, AllPlaces DEF AmountStored
  <2>3. AmountAt + Len(t) <= b /\ AmountAt \in Int /\ b \in Int
    BY <1>1, <2>2, AllPlaces
  <2> HIDE DEF t
  <2>4. Holds(Store(m, b, u), AmountAt, t)
    BY <1>1, <2>2, <2>3, StoreKeeps DEF AmountStored, t
  <2> QED BY <1>1, <2>4 DEF AmountStored, t
<1>2. ASSUME FeeStored(m), NonceAt <= b PROVE FeeStored(Store(m, b, u))
  <2> SUFFICES ASSUME Len(Shows(SentFee)) < FeeSize
               PROVE  Holds(Store(m, b, u), FeeAt, Terminated(Shows(SentFee)))
    BY DEF FeeStored
  <2> DEFINE t == Terminated(Shows(SentFee))
  <2>1. Shows(SentFee) \in Seq(Printable)
    BY FeeIs, ShowsIs
  <2>2. Len(t) \in Nat /\ Len(t) <= FeeSize
    BY <2>1, TextsAreChars, AllPlaces
  <2>3. FeeAt + Len(t) <= b /\ FeeAt \in Int /\ b \in Int
    BY <1>2, <2>2, AllPlaces
  <2> HIDE DEF t
  <2>4. Holds(Store(m, b, u), FeeAt, t)
    BY <1>2, <2>2, <2>3, StoreKeeps DEF FeeStored, t
  <2> QED BY <2>4 DEF t
<1>3. ASSUME NonceStored(m), NetworkAt <= b PROVE NonceStored(Store(m, b, u))
  <2> SUFFICES ASSUME Sent("nonce") < TenTo(NonceSize - 1)
               PROVE  Holds(Store(m, b, u), NonceAt, Terminated(Decimal(Sent("nonce"))))
    BY DEF NonceStored
  <2> DEFINE s == Decimal(Sent("nonce"))
             t == Terminated(s)
  <2>1. Sent("nonce") \in Nat
    BY Numbers
  <2>2. s \in Seq(Printable) /\ Len(s) <= NonceSize - 1
    <3>1. s \in Seq(Digits)
      BY <2>1, DecimalReads
    <3>2. NonceSize - 1 \in Nat \ {0}
      BY Sizes
    <3> QED BY <2>1, <3>1, <3>2, DecimalLength, TextsAreChars
  <2> HIDE DEF s
  <2>3. Len(t) \in Nat /\ Len(t) <= NonceSize
    BY <2>2, TextsAreChars, AllPlaces
  <2>4. NonceAt + Len(t) <= b /\ NonceAt \in Int /\ b \in Int
    BY <1>3, <2>3, AllPlaces
  <2> HIDE DEF t
  <2>5. Holds(Store(m, b, u), NonceAt, t)
    BY <1>3, <2>3, <2>4, StoreKeeps DEF NonceStored, s, t
  <2> QED BY <2>5 DEF s, t
<1> QED BY <1>1, <1>2, <1>3

\* The inductive invariant.
Inv ==
  /\ tx \in Txs /\ MemoryType(mem)
  /\ pc \in { "amount", "fee", "digit", "divide", "store", "text", "network",
              "data", "done", "refused" }
  /\ job \in { "amount", "fee", "nonce", "network", "data" }
  /\ NumbersInv /\ DivisionInv /\ DigitsInv /\ AmountInv /\ StringsInv
  /\ RefusedOnlyIfTooLong

-----------------------------------------------------------------------------
\* A digit of the amount.
LEMMA AmountDigitKeeps ==
  ASSUME Inv, AmountDigit
  PROVE  Inv'
<1>1. /\ tx \in Txs /\ pc = "amount" /\ job = "amount" /\ ~AllZeroes
      /\ digits \in Seq(Digits) /\ limbs \in LimbsType
      /\ tx' = tx /\ job' = job /\ mem' = mem /\ rDiv' = rDiv
      /\ resDiv' = resDiv /\ resMod' = resMod /\ copyd' = copyd /\ adder' = adder
  BY DEF AmountDigit, Inv, AmountInv, DigitsInv, division
<1>2. Carried(Carries, limbs, Half) /\ Len(limbs) = Half /\ DOMAIN limbs = 1..Half
  BY <1>1, CarriesAre
<1> DEFINE r == [k \in 1..Half |-> (Carries[k - 1] * LimbBase + limbs[k]) \div 10]
<1>3. PICK d, v, w : /\ d = Carries[Half] /\ v = Rest /\ w = Number(r, LimbBase)
  OBVIOUS
<1>4. /\ r \in LimbsType /\ d \in 0..9 /\ v \in Nat /\ w \in Nat
      /\ v = 10 * w + d
  <2>1. v = Number(limbs, LimbBase)
    BY <1>3 DEF Rest
  <2>2. PICK c : c = Carries
    OBVIOUS
  <2>3. PICK q : q = r
    OBVIOUS
  <2>4. Carried(c, limbs, Half) /\ d = c[Half] /\ w = Number(q, LimbBase)
        /\ q = [k \in 1..Half |-> (c[k - 1] * LimbBase + limbs[k]) \div 10]
    BY <1>2, <1>3, <2>2, <2>3
  <2>5. q \in LimbsType /\ d \in 0..9 /\ v \in Nat /\ w \in Nat /\ v = 10 * w + d
    BY ONLY <1>1, <2>1, <2>4, PassDivides
  <2> QED BY <2>3, <2>5
<1>5. v # 0
  <2>1. ~ \A k \in 1..Half : limbs[k] = 0
    BY <1>1, <1>2 DEF AllZeroes
  <2> QED BY <1>1, <1>3, <2>1, ZeroLimbs DEF Rest
<1> DEFINE x == ZERO + d
           left == IF v < 10 THEN << >> ELSE Decimal(v \div 10)
           n == Sent("value")
<1>6. n \in Nat /\ n < Modulus
  BY <1>1, Numbers
<1>7. x \in Digits
  BY <1>4 DEF Digits, ZERO
<1>8. Decimal(v) = left \o << x >>
  <2>1. v % 10 = d
    BY <1>4
  <2> QED BY <1>4, <2>1, DecimalStep, Zenon
<1>9. left = (IF w = 0 THEN << >> ELSE Decimal(w)) /\ left \in Seq(Digits)
  <2>1. (v < 10 <=> w = 0) /\ v \div 10 = w
    BY <1>4
  <2>2. Decimal(w) \in Seq(Digits) /\ << >> \in Seq(Digits)
    BY <1>4, DecimalReads
  <2> QED BY <2>1, <2>2
<1> HIDE DEF x, left, n, r
<1>10. Decimal(n) = left \o (<< x >> \o digits)
  <2>0. << x >> \in Seq(Digits)
    BY <1>7
  <2>1. CASE digits = << >>
    <3>1. n = v
      BY <1>1, <1>3, <2>1 DEF AmountInv, Inv, n
    <3>2. << x >> \o digits = << x >>
      BY <2>1
    <3> QED BY <1>8, <3>1, <3>2
  <2>2. CASE digits # << >>
    <3>1. Decimal(n) = (IF v = 0 THEN << >> ELSE Decimal(v)) \o digits
      BY <1>1, <1>3, <2>2 DEF AmountInv, Inv, n
    <3>2. Decimal(n) = (left \o << x >>) \o digits
      BY <1>5, <1>8, <3>1
    <3>3. (left \o << x >>) \o digits = left \o (<< x >> \o digits)
      <4>1. PICK a \in Seq(Digits), b \in Seq(Digits), c \in Seq(Digits) :
              a = left /\ b = << x >> /\ c = digits
        BY <1>1, <1>9, <2>0
      <4>2. (a \o b) \o c = a \o (b \o c)
        OBVIOUS
      <4> QED BY <4>1, <4>2, Zenon
    <3> QED BY <3>2, <3>3
  <2> QED BY <2>1, <2>2
<1>11. << x >> \o digits \in Seq(Digits) /\ Len(<< x >> \o digits) = 1 + Len(digits)
       /\ << x >> \o digits # << >> /\ Len(digits) \in Nat
  BY <1>1, <1>7
<1>12. Len(digits) # TmpSize
  <2>1. TmpSize - 2 \in Nat \ {0} /\ TmpSize \in Nat
    BY Sizes
  <2>2. n < TenTo(TmpSize - 2)
    <3>1. Modulus <= TenTo(TmpSize - 2)
      BY DisplayAssumption
    <3>2. Modulus \in Nat /\ TenTo(TmpSize - 2) \in Nat
      BY <2>1, ModulusIs, TenIs
    <3> QED BY <1>6, <3>1, <3>2
  <2>3. Len(Decimal(n)) <= TmpSize - 2
    BY <1>6, <2>1, <2>2, DecimalLength
  <2>4. Len(Decimal(n)) = Len(left) + (1 + Len(digits)) /\ Len(left) \in Nat
    <3>1. PICK y \in Seq(Digits) : y = << x >> \o digits
      BY <1>11
    <3>2. Len(left \o y) = Len(left) + Len(y) /\ Len(left) \in Nat
      BY <1>9
    <3> QED BY <1>10, <1>11, <3>1, <3>2
  <2> QED BY <1>11, <2>1, <2>3, <2>4
<1>13. digits' = << x >> \o digits /\ limbs' = r /\ pc' = "amount"
  <2>1. /\ digits' = << ZERO + Carries[Len(limbs)] >> \o digits
        /\ limbs' = [k \in DOMAIN limbs |->
                       (Carries[k - 1] * 2^(2 * ByteBits) + limbs[k]) \div 10]
        /\ pc' = pc
    BY <1>12 DEF AmountDigit
  <2> QED BY <1>1, <1>2, <1>3, <2>1 DEF x, r, LimbBase
<1>14. AmountInv'
  <2>1. Rest' = w /\ Sent("value")' = n
    BY <1>1, <1>3, <1>13 DEF Rest, Sent, n, LimbBase
  <2> QED BY <1>1, <1>4, <1>9, <1>10, <1>11, <1>13, <2>1 DEF AmountInv, LimbsType, Half, LimbBase
<1>15. DigitsInv'
  BY <1>11, <1>13 DEF DigitsInv
<1>16. NumbersInv' /\ DivisionInv' /\ StringsInv' /\ RefusedOnlyIfTooLong'
  BY <1>1, <1>13 DEF Inv, NumbersInv, DivisionInv, StringsInv, RefusedOnlyIfTooLong
<1> QED BY <1>1, <1>13, <1>14, <1>15, <1>16 DEF Inv, MemoryType

\* The text of the amount is the ticker and the amount, or there is no room.
LEMMA AmountTextKeeps ==
  ASSUME Inv, AmountText
  PROVE  Inv'
<1> DEFINE n == Sent("value")
           src == Decimal(n)
           a == Adjusted(src)
           L == Len(src)
           room == AmountSize - Len(Ticker) - 1
           one == Store(mem, AmountAt, Ticker)
           two == Store(one, Len(Ticker), Terminated(a))
           three == Store(two, AmountSize - 1, << NUL >>)
<1>1. /\ tx \in Txs /\ pc = "amount" /\ job = "amount" /\ AllZeroes
      /\ digits \in Seq(Digits) /\ limbs \in LimbsType /\ MemoryType(mem)
      /\ tx' = tx /\ job' = job /\ limbs' = limbs /\ digits' = digits /\ rDiv' = rDiv
      /\ resDiv' = resDiv /\ resMod' = resMod /\ copyd' = copyd /\ adder' = adder
  BY DEF AmountText, Inv, AmountInv, DigitsInv, division
<1>2. Rest = 0
  <2>1. DOMAIN limbs = 1..Half
    BY <1>1, CarriesAre
  <2>2. \A k \in 1..Half : limbs[k] = 0
    BY <1>1, <2>1 DEF AllZeroes
  <2> QED BY <1>1, <2>2, ZeroLimbs DEF Rest
<1>3. n \in Nat
  BY <1>1, Numbers
<1>4. (IF digits = << >> THEN << ZERO >> ELSE digits) = src
  <2>1. CASE digits = << >>
    <3>1. n = 0
      BY <1>1, <1>2, <2>1 DEF Inv, AmountInv
    <3>2. 0 < 10 /\ 0 % 10 = 0 /\ 0 \in Nat /\ ZERO + 0 = ZERO
      BY DEF ZERO
    <3>3. Decimal(0) = << >> \o << ZERO >>
      BY <3>2, DecimalStep, Zenon
    <3>4. << >> \o << ZERO >> = << ZERO >>
      OBVIOUS
    <3> QED BY <2>1, <3>1, <3>3, <3>4
  <2>2. CASE digits # << >>
    <3>1. src = << >> \o digits
      BY <1>1, <1>2, <2>2 DEF Inv, AmountInv
    <3>2. << >> \o digits = digits
      BY <1>1
    <3> QED BY <2>2, <3>1, <3>2
  <2> QED BY <2>1, <2>2
<1>5. IF Fits(src, room)
      THEN mem' = three /\ pc' = "fee"
      ELSE mem' = one /\ pc' = "refused"
  BY <1>1, <1>4, Zenon DEF AmountText
<1>6. /\ Shows(n) \in Seq(Printable) /\ a \in Seq(Printable)
      /\ Len(Shows(n)) = Len(Ticker) + Len(a)
      /\ Len(Shows(n)) <= Len(Ticker) + (IF L <= Decimals THEN Decimals + 2 ELSE L + 1)
  BY <1>3, ShowsIs
<1>7. L \in Nat /\ src \in Seq(Digits) /\ Len(a) \in Nat
  <2>1. src \in Seq(Digits)
    BY <1>3, DecimalReads
  <2> HIDE DEF src, a
  <2> QED BY <1>6, <2>1
<1> HIDE DEF a, src, n
<1>8. /\ Len(Ticker) \in Nat /\ Decimals \in Nat /\ AmountSize \in Nat \ {0}
      /\ Len(Ticker) + Decimals + 4 <= AmountSize
      /\ AmountSize <= DataAt + DataSize /\ DataAt + DataSize \in Nat
  BY Sizes, AllPlaces
<1>9. MemoryType(one)
  <2>1. Ticker \in Seq(Chars) /\ AmountAt \in Nat /\ AmountAt + Len(Ticker) <= DataAt + DataSize
    BY <1>8, TickerIs, TextsAreChars, AllPlaces
  <2> QED BY <1>1, <2>1, StoreInside
<1>10. NumbersInv' /\ DivisionInv' /\ DigitsInv' /\ AmountInv'
  <2>1. pc' \in { "fee", "refused" }
    BY <1>5
  <2> QED BY <1>1, <2>1 DEF Inv, NumbersInv, DivisionInv, DigitsInv, AmountInv
<1>11. CASE Fits(src, room)
  <2>1. mem' = three /\ pc' = "fee"
    BY <1>5, <1>11
  <2>2. Len(Shows(n)) + 2 <= AmountSize
    <3>1. CASE L <= Decimals
      BY <1>6, <1>7, <1>8, <3>1
    <3>2. CASE ~(L <= Decimals)
      <4>1. CASE src = << ZERO >>
        <5>1. L = 1 /\ Len(Shows(n)) <= Len(Ticker) + 2
          BY <1>6, <1>8, <3>2, <4>1
        <5> QED BY <1>6, <1>7, <1>8, <5>1
      <4>2. CASE src # << ZERO >>
        <5>1. room >= L + 2
          BY <1>11, <3>2, <4>2 DEF Fits
        <5> QED BY <1>6, <1>7, <1>8, <3>2, <5>1
      <4> QED BY <4>1, <4>2
    <3> QED BY <3>1, <3>2
  <2>3. /\ Terminated(a) \in Seq(Chars) /\ Len(Terminated(a)) = Len(a) + 1
        /\ << NUL >> \in Seq(Chars) /\ Len(<< NUL >>) = 1
    BY <1>6, TextsAreChars
  <2>4. Len(Ticker) + (Len(a) + 1) + 1 <= AmountSize /\ AmountSize - 1 \in Nat
    BY <1>6, <1>7, <1>8, <2>2
  <2> HIDE DEF one
  <2>5. MemoryType(two)
    <3>1. Len(Ticker) + Len(Terminated(a)) <= DataAt + DataSize
      BY <1>7, <1>8, <2>3, <2>4
    <3> QED BY <1>8, <1>9, <2>3, <3>1, StoreInside
  <2> HIDE DEF two
  <2>6. MemoryType(three)
    <3>1. (AmountSize - 1) + Len(<< NUL >>) <= DataAt + DataSize
      BY <1>8, <2>3
    <3> QED BY <2>3, <2>4, <2>5, <3>1, StoreInside
  <2>7. Holds(three, AmountAt, Terminated(Shows(n)))
    <3>1. Holds(two, AmountAt, Ticker)
      <4>1. Holds(one, AmountAt, Ticker)
        BY <1>8, AllPlaces, StoreHolds DEF one
      <4>2. /\ AmountAt \in Int /\ Len(Ticker) \in Nat /\ Len(Ticker) \in Int
            /\ Len(Terminated(a)) \in Nat /\ AmountAt + Len(Ticker) <= Len(Ticker)
        BY <1>7, <1>8, <2>3, AllPlaces
      <4> QED BY <4>1, <4>2, StoreKeeps DEF two
    <3>2. Holds(two, AmountAt + Len(Ticker), Terminated(a))
      <4>1. AmountAt + Len(Ticker) = Len(Ticker) /\ Len(Ticker) \in Int
            /\ Len(Terminated(a)) \in Nat
        BY <1>7, <1>8, <2>3, AllPlaces
      <4> QED BY <4>1, StoreHolds DEF two
    <3>3. Holds(two, AmountAt, Ticker \o Terminated(a))
      <4>1. Ticker \in Seq(Chars) /\ AmountAt \in Int
        BY TickerIs, TextsAreChars, AllPlaces
      <4> QED BY <2>3, <3>1, <3>2, <4>1, HoldsBoth
    <3>4. Ticker \o Terminated(a) = Terminated(Shows(n))
      <4>1. Ticker \o Terminated(a) = Terminated(Ticker \o a)
        BY <1>6, TickerIs, TerminatedBehind
      <4> QED BY <4>1 DEF Shows, a, src
    <3>5. /\ Len(Terminated(Shows(n))) \in Nat
          /\ AmountAt + Len(Terminated(Shows(n))) <= AmountSize - 1
      BY <1>6, <1>7, <1>8, <2>2, TextsAreChars, AllPlaces
    <3>6. AmountAt \in Int /\ AmountSize - 1 \in Int /\ Len(<< NUL >>) \in Nat
      BY <2>3, <2>4, AllPlaces
    <3> QED BY <3>3, <3>4, <3>5, <3>6, StoreKeeps
  <2> HIDE DEF three
  <2>8. AmountStored(mem')
    BY <2>1, <2>2, <2>7 DEF AmountStored, n
  <2>9. StringsInv'
    BY <1>1, <2>1, <2>8, StoredStays DEF StringsInv
  <2>10. RefusedOnlyIfTooLong'
    BY <2>1 DEF RefusedOnlyIfTooLong
  <2> QED BY <1>1, <1>10, <2>1, <2>6, <2>9, <2>10 DEF Inv, MemoryType
<1>12. CASE ~Fits(src, room)
  <2>1. mem' = one /\ pc' = "refused"
    BY <1>5, <1>12
  <2>2. n >= TenTo(AmountSize - Len(Ticker) - 3)
    <3> DEFINE k == AmountSize - Len(Ticker) - 3
    <3>1. k \in Nat \ {0}
      BY <1>8
    <3>2. L > k
      <4>1. CASE src = << ZERO >>
        BY <1>8, <1>12, <4>1 DEF Fits
      <4>2. CASE src # << ZERO >> /\ L <= Decimals
        BY <1>8, <1>12, <4>2 DEF Fits
      <4>3. CASE src # << ZERO >> /\ ~(L <= Decimals)
        <5>1. ~(room >= L + 2)
          BY <1>12, <4>3 DEF Fits
        <5> QED BY <1>7, <1>8, <5>1
      <4> QED BY <4>1, <4>2, <4>3
    <3> HIDE DEF k
    <3>3. ~(n < TenTo(k))
      BY <1>3, <1>7, <3>1, <3>2, DecimalLength DEF src
    <3>4. TenTo(k) \in Nat
      BY <3>1, TenIs
    <3> QED BY <1>3, <3>3, <3>4 DEF k
  <2>3. RefusedOnlyIfTooLong'
    <3>1. Sent("value")' = n
      BY <1>1 DEF Sent, n
    <3> QED BY <1>1, <2>2, <3>1 DEF RefusedOnlyIfTooLong
  <2>4. StringsInv'
    BY <2>1 DEF StringsInv
  <2> HIDE DEF one
  <2> QED BY <1>1, <1>9, <1>10, <2>1, <2>3, <2>4 DEF Inv, MemoryType
<1> QED BY <1>11, <1>12

\* Nothing is written of the digits yet.
LEMMA NoDigits ==
  ASSUME NEW n \in Nat
  PROVE  << >> \in Seq(Digits) /\ Len(<< >>) = 0
         /\ Decimal(n) = Decimal(n) \o Reverse(<< >>)
<1>1. << >> \in Seq(Digits) /\ Len(<< >>) = 0
  OBVIOUS
<1>2. Reverse(<< >>) \in Seq(Digits) /\ Len(Reverse(<< >>)) = 0
  BY <1>1, ReverseIs
<1>3. Reverse(<< >>) = << >>
  BY <1>2, EmptySeq
<1>4. Decimal(n) \in Seq(Digits)
  BY DecimalReads
<1>5. Decimal(n) \o << >> = Decimal(n)
  BY <1>4
<1> QED BY <1>1, <1>3, <1>5

\* The fee is computed.
LEMMA RenderFeeKeeps ==
  ASSUME Inv, RenderFee
  PROVE  Inv'
<1>1. /\ tx \in Txs /\ pc = "fee" /\ tx' = tx /\ job' = "fee" /\ rDiv' = Fee
      /\ digits' = << >> /\ pc' = "digit" /\ limbs' = limbs /\ mem' = mem
      /\ resDiv' = resDiv /\ resMod' = resMod /\ copyd' = copyd /\ adder' = adder
  BY DEF RenderFee, StartString, division, Inv
<1>2. Fee \in Numbers256 /\ Value(Fee) = SentFee /\ SentFee \in Nat
  BY <1>1, FeeIs
<1>3. NumbersInv' /\ DivisionInv' /\ AmountInv'
  BY <1>1, <1>2 DEF Inv, NumbersInv, DivisionInv, AmountInv
<1>4. DigitsInv'
  <2>1. Subject' = SentFee /\ OutLength' = TmpSize
    BY <1>1 DEF Subject, SentFee, Sent, OutLength
  <2>2. Len(<< >>) <= TmpSize
    BY NoDigits, AllPlaces
  <2> QED BY <1>1, <1>2, <2>1, <2>2, NoDigits DEF DigitsInv
<1>5. StringsInv'
  <2>1. AmountStored(mem)
    BY <1>1 DEF Inv, StringsInv
  <2> QED BY <1>1, <2>1, StoredStays DEF StringsInv
<1>6. RefusedOnlyIfTooLong'
  BY <1>1 DEF RefusedOnlyIfTooLong
<1> QED BY <1>1, <1>3, <1>4, <1>5, <1>6 DEF Inv, MemoryType

\* While the digits are made, the strings stay.
LEMMA DigitsKeepStrings ==
  ASSUME Inv, pc \in { "digit", "divide", "store" },
         pc' \in { "digit", "divide", "store", "text" },
         tx' = tx, job' = job, mem' = mem, limbs' = limbs,
         NumbersInv', DivisionInv', DigitsInv'
  PROVE  Inv'
<1>1. AmountInv'
  BY DEF Inv, AmountInv
<1>2. StringsInv'
  <2>1. AmountStored(mem) /\ (job = "nonce" => FeeStored(mem))
    BY DEF Inv, StringsInv
  <2> QED BY <2>1, StoredStays DEF StringsInv
<1>3. RefusedOnlyIfTooLong'
  BY DEF RefusedOnlyIfTooLong
<1> QED BY <1>1, <1>2, <1>3 DEF Inv, MemoryType

\* The divisor is aligned.
LEMMA AlignKeeps ==
  ASSUME Inv, Align
  PROVE  Inv'
<1>1. /\ pc = "digit" /\ ~OutFull(Len(digits)) /\ pc' \in { "divide", "store" }
      /\ tx' = tx /\ job' = job /\ mem' = mem /\ limbs' = limbs
      /\ digits' = digits /\ rDiv' = rDiv
  BY DEF Align
<1>2. NumbersInv' /\ DivisionInv'
  BY AlignDivides DEF Inv
<1>3. Len(digits) < OutLength
  <2>1. OutLength \in Nat /\ Len(digits) \in Nat
    <3>1. OutLength \in Nat
      BY Sizes DEF OutLength
    <3>2. digits \in Seq(Digits)
      BY DEF Inv, DigitsInv
    <3> QED BY <3>1, <3>2
  <2> QED BY <1>1, <2>1 DEF OutFull
<1>4. DigitsInv'
  BY <1>1, <1>3, SubjectStays DEF Inv, DigitsInv
<1> QED BY <1>1, <1>2, <1>4, DigitsKeepStrings

\* One bit of the quotient is tried.
LEMMA DivideKeeps ==
  ASSUME Inv, Divide
  PROVE  Inv'
<1>1. /\ pc = "divide" /\ pc' \in { "divide", "store" }
      /\ tx' = tx /\ job' = job /\ mem' = mem /\ limbs' = limbs
      /\ digits' = digits /\ rDiv' = rDiv
  BY DEF Divide
<1>2. NumbersInv' /\ DivisionInv'
  BY DivideDivides DEF Inv
<1>3. DigitsInv'
  BY <1>1, SubjectStays DEF Inv, DigitsInv
<1> QED BY <1>1, <1>2, <1>3, DigitsKeepStrings

\* A digit is stored.
LEMMA StoreDigitKeeps ==
  ASSUME Inv, StoreDigit
  PROVE  Inv'
<1>1. /\ pc = "store" /\ pc' \in { "digit", "text" }
      /\ tx' = tx /\ job' = job /\ mem' = mem /\ limbs' = limbs
  BY DEF StoreDigit
<1>2. NumbersInv' /\ DivisionInv' /\ DigitsInv'
  BY StoreDigitAdds DEF Inv
<1> QED BY <1>1, <1>2, DigitsKeepStrings

-----------------------------------------------------------------------------
\* The text of the fee ends before the strings do, although not always in its
\* own field.
LEMMA FeeFits ==
  ASSUME tx \in Txs
  PROVE  /\ Shows(SentFee) \in Seq(Printable)
         /\ FeeAt + Len(Terminated(Shows(SentFee))) <= DataAt + DataSize
<1> DEFINE s == Shows(SentFee)
           L == Len(Decimal(SentFee))
<1>1. SentFee \in Nat /\ SentFee < Modulus
  BY FeeIs
<1>2. /\ s \in Seq(Printable)
      /\ Len(s) <= Len(Ticker) + (IF L <= Decimals THEN Decimals + 2 ELSE L + 1)
      /\ Len(Terminated(s)) = Len(s) + 1 /\ Len(s) \in Nat
  BY <1>1, ShowsIs, TextsAreChars
<1>3. PICK d \in 1..TmpSize :
        /\ Modulus <= TenTo(d)
        /\ Len(Ticker) + d + 2 <= FeeSize + NonceSize + NetworkSize + DataSize
  BY DisplayAssumption
<1>4. d \in Nat \ {0}
  BY <1>3, AllPlaces
<1>5. SentFee < TenTo(d)
  <2>1. TenTo(d) \in Nat /\ Modulus \in Nat
    BY <1>4, TenIs, ModulusIs
  <2> QED BY <1>1, <1>3, <2>1
<1>6. L <= d /\ L \in Nat
  BY <1>1, <1>4, <1>5, DecimalLength
<1> HIDE DEF s, L
<1>7. FeeAt + (Len(s) + 1) <= DataAt + DataSize
  <2>1. DataAt + DataSize = FeeAt + (FeeSize + NonceSize + NetworkSize + DataSize)
    BY AllPlaces
  <2>2. /\ Len(Ticker) + Decimals + 3 <= FeeSize /\ Len(Ticker) \in Nat /\ Decimals \in Nat
        /\ NonceSize \in Nat /\ NetworkSize \in Nat /\ DataSize \in Nat /\ FeeSize \in Nat
        /\ FeeAt \in Nat
    BY Sizes, AllPlaces
  <2>3. Len(s) + 1 <= FeeSize + NonceSize + NetworkSize + DataSize
    BY <1>2, <1>3, <1>4, <1>6, <2>2
  <2> QED BY <1>2, <2>1, <2>2, <2>3
<1> QED BY <1>2, <1>7 DEF s

\* The text of the fee is stored, and the nonce is next.
LEMMA FeeTextKeeps ==
  ASSUME Inv, FeeText
  PROVE  Inv'
<1> DEFINE n == SentFee
           t == Terminated(Shows(n))
           zeros == Cleared(FeeSize)
           clear == Store(mem, FeeAt, zeros)
           done == Store(clear, FeeAt, t)
<1>1. /\ tx \in Txs /\ pc = "text" /\ job = "fee" /\ MemoryType(mem) /\ digits \in Seq(Digits)
      /\ tx' = tx /\ job' = "nonce" /\ rDiv' = FromBytes(tx.nonce)
      /\ digits' = << >> /\ pc' = "digit" /\ limbs' = limbs
      /\ resDiv' = resDiv /\ resMod' = resMod /\ copyd' = copyd /\ adder' = adder
      /\ mem' = Store(clear, FeeAt, Terminated(Ticker \o Adjusted(Reverse(digits))))
  BY DEF FeeText, StartString, division, Inv, DigitsInv
<1>2. Reverse(digits) = Decimal(n)
  BY <1>1 DEF Inv, DigitsInv, Subject
<1>3. mem' = done
  BY <1>1, <1>2, Zenon DEF Shows
<1>4. Shows(n) \in Seq(Printable) /\ FeeAt + Len(t) <= DataAt + DataSize
      /\ t \in Seq(Chars) /\ Len(t) \in Nat
  BY <1>1, FeeFits, TextsAreChars
<1>5. zeros \in Seq(Chars) /\ Len(zeros) = FeeSize
  <2>1. zeros \in [1..FeeSize -> Chars] /\ FeeSize \in Nat
    BY AllPlaces DEF Cleared, Chars, NUL
  <2> QED BY <2>1, SeqOfFunction
<1> HIDE DEF t, zeros
<1>6. MemoryType(clear)
  <2>1. FeeAt \in Nat /\ FeeAt + Len(zeros) <= DataAt + DataSize
    BY <1>5, AllPlaces
  <2> QED BY <1>1, <1>5, <2>1, StoreInside
<1>7. AmountStored(clear)
  <2>1. AmountStored(mem)
    BY <1>1 DEF Inv, StringsInv
  <2>2. FeeAt \in Nat /\ FeeAt <= FeeAt /\ Len(zeros) \in Nat
    BY <1>5, AllPlaces
  <2> QED BY <1>1, <2>1, <2>2, StoredBefore
<1> HIDE DEF clear
<1>8. MemoryType(done) /\ AmountStored(done) /\ FeeStored(done)
  <2>1. FeeAt \in Nat /\ FeeAt <= FeeAt /\ FeeAt \in Int
    BY AllPlaces
  <2>2. MemoryType(done)
    BY <1>4, <1>6, <2>1, StoreInside
  <2>3. AmountStored(done)
    BY <1>1, <1>4, <1>7, <2>1, StoredBefore
  <2>4. Holds(done, FeeAt, t)
    BY <1>4, <2>1, StoreHolds
  <2> HIDE DEF done
  <2> QED BY <2>2, <2>3, <2>4 DEF FeeStored, t
<1> HIDE DEF done
<1>9. /\ FromBytes(tx["nonce"]) \in Numbers256
      /\ Value(FromBytes(tx["nonce"])) = Sent("nonce") /\ Sent("nonce") \in Nat
  BY <1>1, Numbers
<1>10. NumbersInv' /\ DivisionInv' /\ AmountInv'
  BY <1>1, <1>9 DEF Inv, NumbersInv, DivisionInv, AmountInv
<1>11. DigitsInv'
  <2>1. Subject' = Sent("nonce") /\ OutLength' = NonceSize
    BY <1>1 DEF Subject, SentFee, Sent, OutLength
  <2>2. Len(<< >>) <= NonceSize
    BY NoDigits, AllPlaces
  <2> QED BY <1>1, <1>9, <2>1, <2>2, NoDigits DEF DigitsInv
<1>12. StringsInv'
  BY <1>1, <1>3, <1>8, StoredStays DEF StringsInv
<1>13. RefusedOnlyIfTooLong'
  BY <1>1 DEF RefusedOnlyIfTooLong
<1> QED BY <1>1, <1>3, <1>8, <1>10, <1>11, <1>12, <1>13 DEF Inv, MemoryType

\* The nonce is stored: in its field if the digits and their terminator fit.
LEMMA NonceTextKeeps ==
  ASSUME Inv, NonceText
  PROVE  Inv'
<1> DEFINE s == Reverse(digits)
           t == Terminated(s)
           done == Store(mem, NonceAt, t)
<1>1. /\ tx \in Txs /\ pc = "text" /\ job = "nonce" /\ MemoryType(mem) /\ digits \in Seq(Digits)
      /\ Len(digits) <= NonceSize
      /\ tx' = tx /\ job' = job /\ rDiv' = rDiv
      /\ digits' = digits /\ pc' = "network" /\ limbs' = limbs
      /\ resDiv' = resDiv /\ resMod' = resMod /\ copyd' = copyd /\ adder' = adder
      /\ mem' = done
  BY DEF NonceText, division, Inv, DigitsInv, OutLength
<1>2. s = Decimal(Sent("nonce"))
  BY <1>1 DEF Inv, DigitsInv, Subject
<1>3. /\ s \in Seq(Digits) /\ Len(s) = Len(digits) /\ s \in Seq(Printable)
  BY <1>1, ReverseIs, TextsAreChars
<1> HIDE DEF s
<1>4. t \in Seq(Chars) /\ Len(t) = Len(digits) + 1 /\ Len(t) \in Nat
  BY <1>3, TextsAreChars
<1> HIDE DEF t
<1>5. NonceAt \in Nat /\ NonceAt + Len(t) <= DataAt + DataSize /\ NonceAt \in Int
      /\ NonceAt <= NonceAt /\ FeeAt <= NonceAt
  BY <1>1, <1>4, AllPlaces
<1>6. MemoryType(done)
  BY <1>1, <1>4, <1>5, StoreInside
<1>7. AmountStored(done) /\ FeeStored(done)
  <2>1. AmountStored(mem) /\ FeeStored(mem)
    BY <1>1 DEF Inv, StringsInv
  <2> QED BY <1>1, <1>4, <1>5, <2>1, StoredBefore
<1>8. NonceStored(done)
  <2>1. Holds(done, NonceAt, t)
    BY <1>4, <1>5, StoreHolds
  <2> HIDE DEF done
  <2> QED BY <1>2, <2>1 DEF NonceStored, t
<1> HIDE DEF done
<1>9. NumbersInv' /\ DivisionInv' /\ DigitsInv' /\ AmountInv'
  BY <1>1 DEF Inv, NumbersInv, DivisionInv, DigitsInv, AmountInv
<1>10. StringsInv'
  BY <1>1, <1>7, <1>8, StoredStays DEF StringsInv
<1>11. RefusedOnlyIfTooLong'
  BY <1>1 DEF RefusedOnlyIfTooLong
<1> QED BY <1>1, <1>6, <1>9, <1>10, <1>11 DEF Inv, MemoryType

\* The digits of a nonce that are too many are stored as they are.
LEMMA NonceTooLongKeeps ==
  ASSUME Inv, NonceTooLong
  PROVE  Inv'
<1> DEFINE n == Sent("nonce")
           done == Store(mem, NonceAt, digits)
<1>1. /\ tx \in Txs /\ pc = "digit" /\ job = "nonce" /\ MemoryType(mem) /\ digits \in Seq(Digits)
      /\ Len(digits) <= NonceSize /\ Len(digits) > NonceSize - 1
      /\ tx' = tx /\ job' = job /\ rDiv' = rDiv /\ rDiv \in Numbers256
      /\ digits' = digits /\ pc' = "network" /\ limbs' = limbs
      /\ resDiv' = resDiv /\ resMod' = resMod /\ copyd' = copyd /\ adder' = adder
      /\ mem' = done
  BY DEF NonceTooLong, division, Inv, DigitsInv, NumbersInv, OutLength, OutFull
<1>2. digits \in Seq(Chars) /\ Len(digits) \in Nat
  BY <1>1, TextsAreChars
<1>3. NonceAt \in Nat /\ NonceAt + Len(digits) <= DataAt + DataSize
      /\ NonceAt <= NonceAt /\ FeeAt <= NonceAt
  BY <1>1, <1>2, AllPlaces
<1>4. MemoryType(done)
  BY <1>1, <1>2, <1>3, StoreInside
<1>5. AmountStored(done) /\ FeeStored(done)
  <2>1. AmountStored(mem) /\ FeeStored(mem)
    BY <1>1 DEF Inv, StringsInv
  <2> QED BY <1>1, <1>2, <1>3, <2>1, StoredBefore
<1>6. ~(n < TenTo(NonceSize - 1))
  <2>1. n \in Nat /\ NonceSize - 1 \in Nat \ {0}
    BY <1>1, Numbers, Sizes
  <2>2. Decimal(n) = Decimal(Value(rDiv)) \o Reverse(digits)
    BY <1>1 DEF Inv, DigitsInv, Subject
  <2>3. PICK a \in Seq(Digits), b \in Seq(Digits) :
          a = Decimal(Value(rDiv)) /\ b = Reverse(digits) /\ Len(b) = Len(digits)
    <3>1. Value(rDiv) \in Nat
      BY <1>1, Type256, ModulusIs
    <3> QED BY <1>1, <3>1, DecimalReads, ReverseIs
  <2>4. Len(a \o b) = Len(a) + Len(b) /\ Len(a) \in Nat
    OBVIOUS
  <2>5. ~(Len(Decimal(n)) <= NonceSize - 1)
    BY <1>1, <1>2, <2>1, <2>2, <2>3, <2>4
  <2> QED BY <2>1, <2>5, DecimalLength
<1>7. NonceStored(done)
  BY <1>6 DEF NonceStored
<1> HIDE DEF done
<1>8. NumbersInv' /\ DivisionInv' /\ DigitsInv' /\ AmountInv'
  BY <1>1 DEF Inv, NumbersInv, DivisionInv, DigitsInv, AmountInv
<1>9. StringsInv'
  BY <1>1, <1>5, <1>7, StoredStays DEF StringsInv
<1>10. RefusedOnlyIfTooLong'
  BY <1>1 DEF RefusedOnlyIfTooLong
<1> QED BY <1>1, <1>4, <1>8, <1>9, <1>10 DEF Inv, MemoryType

\* The name of the network is stored, or the part of it for which there is room.
LEMMA RenderNetworkKeeps ==
  ASSUME Inv, RenderNetwork
  PROVE  Inv'
<1> DEFINE t == Terminated(NetworkName)
           cut == SubSeq(Reverse(NetworkName), 1, NetworkSize - 1)
           u == IF Len(NetworkName) < NetworkSize THEN t ELSE cut
           done == Store(mem, NetworkAt, u)
<1>1. /\ tx \in Txs /\ pc = "network" /\ MemoryType(mem)
      /\ tx' = tx /\ job' = "network" /\ rDiv' = rDiv
      /\ digits' = digits /\ limbs' = limbs
      /\ resDiv' = resDiv /\ resMod' = resMod /\ copyd' = copyd /\ adder' = adder
      /\ mem' = done
      /\ pc' = (IF Len(NetworkName) < NetworkSize THEN "data" ELSE "refused")
  BY DEF RenderNetwork, division, Inv
<1>2. NetworkName \in Seq(Printable) /\ Len(NetworkName) \in Nat
  BY <1>1, NetworkNameType, TextsAreChars
<1>3. u \in Seq(Chars) /\ Len(u) \in Nat /\ Len(u) <= NetworkSize
  <2>1. CASE Len(NetworkName) < NetworkSize
    <3>1. u = t /\ t \in Seq(Chars) /\ Len(t) = Len(NetworkName) + 1
      BY <1>2, <2>1, TextsAreChars
    <3> HIDE DEF t, u
    <3> QED BY <1>2, <2>1, <3>1, AllPlaces
  <2>2. CASE ~(Len(NetworkName) < NetworkSize)
    <3>1. u = cut
      BY <2>2
    <3>2. PICK r \in Seq(Chars) : r = Reverse(NetworkName) /\ Len(r) = Len(NetworkName)
      BY <1>2, ReverseIs, TextsAreChars
    <3>3. NetworkSize - 1 \in Nat /\ NetworkSize - 1 <= Len(r)
      BY <1>2, <2>2, <3>2, AllPlaces
    <3>4. \A i \in 1..(NetworkSize - 1) : r[i] \in Chars
      <4>1. \A i \in 1..(NetworkSize - 1) : i \in 1..Len(r)
        BY <3>3
      <4> QED BY <4>1, ElementOfSeq
    <3>5. /\ SubSeq(r, 1, NetworkSize - 1) \in Seq(Chars)
          /\ Len(SubSeq(r, 1, NetworkSize - 1)) = NetworkSize - 1
      BY <3>3, <3>4
    <3> QED BY <3>1, <3>2, <3>3, <3>5, AllPlaces
  <2> QED BY <2>1, <2>2
<1> HIDE DEF u
<1>4. NetworkAt \in Nat /\ NetworkAt + Len(u) <= DataAt + DataSize
      /\ NetworkAt <= NetworkAt /\ FeeAt <= NetworkAt /\ NonceAt <= NetworkAt
  BY <1>3, AllPlaces
<1>5. MemoryType(done)
  BY <1>1, <1>3, <1>4, StoreInside
<1>6. AmountStored(done) /\ FeeStored(done) /\ NonceStored(done)
  <2>1. AmountStored(mem) /\ FeeStored(mem) /\ NonceStored(mem)
    BY <1>1 DEF Inv, StringsInv
  <2> QED BY <1>1, <1>3, <1>4, <2>1, StoredBefore
<1> HIDE DEF done
<1>7. NumbersInv' /\ DivisionInv' /\ DigitsInv' /\ AmountInv'
  BY <1>1 DEF Inv, NumbersInv, DivisionInv, DigitsInv, AmountInv
<1>8. StringsInv'
  BY <1>1, <1>6, StoredStays DEF StringsInv
<1>9. RefusedOnlyIfTooLong'
  <2> SUFFICES ASSUME ~(Len(NetworkName) < NetworkSize)
               PROVE  ChainId >= TenTo(NetworkSize - 1)
    <3>1. ChainId' = ChainId
      BY <1>1 DEF ChainId, FirstBytes
    <3> QED BY <1>1, <3>1 DEF RefusedOnlyIfTooLong
  <2>1. ChainId \in Nat /\ NetworkSize - 1 \in Nat \ {0} /\ 2 <= NetworkSize /\ NetworkSize \in Nat
    BY <1>1, ChainIdIs, Sizes
  <2>2. Len(<< 109 >>) < NetworkSize /\ Len(<< 116 >>) < NetworkSize
    BY <2>1
  <2>3. NetworkName = Decimal(ChainId)
    BY <2>2 DEF NetworkName
  <2>4. ~(Len(Decimal(ChainId)) <= NetworkSize - 1)
    BY <1>2, <2>1, <2>3
  <2>5. ~(ChainId < TenTo(NetworkSize - 1)) /\ TenTo(NetworkSize - 1) \in Nat
    BY <2>1, <2>4, DecimalLength, TenIs
  <2> QED BY <2>1, <2>5
<1> QED BY <1>1, <1>5, <1>7, <1>8, <1>9 DEF Inv, MemoryType

\* The data is stored.
LEMMA RenderDataKeeps ==
  ASSUME Inv, RenderData
  PROVE  Inv'
<1> DEFINE zeros == Cleared(DataSize)
           clear == Store(mem, DataAt, zeros)
           done == Store(clear, DataAt, DataText)
<1>1. /\ tx \in Txs /\ pc = "data" /\ MemoryType(mem)
      /\ tx' = tx /\ job' = "data" /\ rDiv' = rDiv
      /\ digits' = digits /\ limbs' = limbs /\ pc' = "done"
      /\ resDiv' = resDiv /\ resMod' = resMod /\ copyd' = copyd /\ adder' = adder
      /\ mem' = done
  BY DEF RenderData, division, Inv, DataText
<1>2. DataText \in Seq(Chars) /\ Len(DataText) \in Nat /\ Len(DataText) < DataSize
  BY <1>1, DataTextIs, TextsAreChars
<1>3. zeros \in Seq(Chars) /\ Len(zeros) = DataSize
  <2>1. zeros \in [1..DataSize -> Chars] /\ DataSize \in Nat
    BY AllPlaces DEF Cleared, Chars, NUL
  <2> QED BY <2>1, SeqOfFunction
<1> HIDE DEF zeros
<1>4. /\ DataAt \in Nat /\ DataAt + Len(zeros) <= DataAt + DataSize
      /\ DataAt + Len(DataText) <= DataAt + DataSize /\ Len(zeros) \in Nat
      /\ FeeAt <= DataAt /\ NonceAt <= DataAt /\ NetworkAt <= DataAt
  BY <1>2, <1>3, AllPlaces
<1>5. MemoryType(clear)
  BY <1>1, <1>3, <1>4, StoreInside
<1>6. AmountStored(clear) /\ FeeStored(clear) /\ NonceStored(clear)
  <2>1. AmountStored(mem) /\ FeeStored(mem) /\ NonceStored(mem)
    BY <1>1 DEF Inv, StringsInv
  <2> QED BY <1>1, <1>4, <2>1, StoredBefore
<1> HIDE DEF clear
<1>7. MemoryType(done)
  BY <1>2, <1>4, <1>5, StoreInside
<1>8. AmountStored(done) /\ FeeStored(done) /\ NonceStored(done)
  BY <1>1, <1>2, <1>4, <1>6, StoredBefore
<1> HIDE DEF done
<1>9. NumbersInv' /\ DivisionInv' /\ DigitsInv' /\ AmountInv'
  BY <1>1 DEF Inv, NumbersInv, DivisionInv, DigitsInv, AmountInv
<1>10. StringsInv'
  BY <1>1, <1>8, StoredStays DEF StringsInv
<1>11. RefusedOnlyIfTooLong'
  BY <1>1 DEF RefusedOnlyIfTooLong
<1> QED BY <1>1, <1>7, <1>9, <1>10, <1>11 DEF Inv, MemoryType

\* The invariant is inductive.
LEMMA InvInductive ==
  /\ Init => Inv
  /\ Inv /\ [Next]_vars => Inv'
<1>1. Init => Inv
  <2> SUFFICES ASSUME Init PROVE Inv
    OBVIOUS
  <2>1. /\ tx \in Txs /\ pc = "amount" /\ job = "amount" /\ digits = << >>
        /\ limbs = Limbs(tx["value"]) /\ mem = [i \in Strings |-> 88]
        /\ rDiv = Zero256 /\ resDiv = Zero256 /\ resMod = Zero256
        /\ copyd = Zero256 /\ adder = Zero256
    BY DEF Init
  <2>2. MemoryType(mem)
    BY <2>1 DEF MemoryType, Chars
  <2>3. limbs \in LimbsType /\ Rest = Sent("value")
    <3>1. tx["value"] \in Seq(0..(2^ByteBits - 1)) /\ Len(tx["value"]) <= INT256_LENGTH
      BY <2>1, Numbers
    <3>2. PICK s \in Seq(0..(2^ByteBits - 1)) : s = tx["value"] /\ Len(s) <= INT256_LENGTH
      BY <3>1
    <3> QED BY <2>1, <3>2, LimbsAre, Zenon DEF Rest, Sent
  <2>4. NumbersInv /\ DivisionInv /\ AmountInv
    BY <2>1, <2>3, ZeroIs DEF NumbersInv, DivisionInv, AmountInv
  <2>5. DigitsInv
    <3>1. digits \in Seq(Digits)
      BY <2>1
    <3> QED BY <2>1, <3>1 DEF DigitsInv
  <2>6. StringsInv /\ RefusedOnlyIfTooLong
    BY <2>1 DEF StringsInv, RefusedOnlyIfTooLong
  <2> QED BY <2>1, <2>2, <2>4, <2>5, <2>6 DEF Inv
<1>2. ASSUME Inv, [Next]_vars PROVE Inv'
  <2>1. CASE UNCHANGED vars
    <3>1. /\ tx' = tx /\ pc' = pc /\ job' = job /\ mem' = mem /\ limbs' = limbs
          /\ digits' = digits /\ rDiv' = rDiv /\ resDiv' = resDiv /\ resMod' = resMod
          /\ copyd' = copyd /\ adder' = adder
      BY <2>1 DEF vars, division
    <3>2. Subject' = Subject /\ OutLength' = OutLength
      BY <3>1, SubjectStays
    <3>3. NumbersInv' /\ DivisionInv' /\ AmountInv'
      BY <1>2, <3>1 DEF Inv, NumbersInv, DivisionInv, AmountInv, Tried, Rest, Sent, LimbBase,
                        LimbsType, Half
    <3>4. DigitsInv'
      BY <1>2, <3>1, <3>2 DEF Inv, DigitsInv
    <3>5. StringsInv'
      BY <1>2, <3>1, StoredStays DEF Inv, StringsInv
    <3>6. RefusedOnlyIfTooLong'
      BY <1>2, <3>1 DEF Inv, RefusedOnlyIfTooLong, Sent, ChainId, FirstBytes
    <3> QED BY <1>2, <3>1, <3>3, <3>4, <3>5, <3>6 DEF Inv, MemoryType
  <2>2. CASE Next
    BY <1>2, <2>2, AmountDigitKeeps, AmountTextKeeps, RenderFeeKeeps, AlignKeeps, DivideKeeps,
       StoreDigitKeeps, FeeTextKeeps, NonceTextKeeps, NonceTooLongKeeps, RenderNetworkKeeps,
       RenderDataKeeps DEF Next
  <2> QED BY <1>2, <2>1, <2>2
<1> QED BY <1>1, <1>2

\* It holds in every state.
LEMMA InvAlways == Spec => []Inv
<1>1. Init => Inv
  BY InvInductive
<1>2. Inv /\ [Next]_vars => Inv'
  BY InvInductive
<1> QED BY <1>1, <1>2, PTL DEF Spec

-----------------------------------------------------------------------------
\* The variables keep their types, for every width and every size.
THEOREM TypesAlways == Spec => []TypeOK
<1>1. Inv => TypeOK
  <2> SUFFICES ASSUME Inv PROVE TypeOK
    OBVIOUS
  <2>1. tx \in Txs
    BY DEF Inv
  <2>2. /\ DOMAIN tx = { "value", "gasprice", "gaslimit", "storagelimit", "nonce",
                         "chainid", "data" }
        /\ \A f \in DOMAIN tx :
             tx[f] \in Seq(Bytes) /\ (f # "data" => Len(tx[f]) <= INT256_LENGTH)
    BY <2>1, TxsAssumption, Zenon DEF Bytes
  <2>3. DOMAIN mem \subseteq Nat /\ \A i \in DOMAIN mem : mem[i] \in Chars
    <3>1. Strings \subseteq Nat
      BY AllPlaces
    <3> QED BY <3>1 DEF Inv, MemoryType
  <2>4. limbs \in Seq(0..(2^(2 * ByteBits) - 1))
    <3>1. limbs \in LimbsType /\ Half \in Nat
      BY HalfIs DEF Inv, AmountInv
    <3> QED BY <3>1, SeqOfFunction DEF LimbsType, LimbBase
  <2>5. digits \in Seq(ZERO..(ZERO + 9))
    BY DEF Inv, DigitsInv, Digits
  <2>6. \A x \in { rDiv, resDiv, resMod, copyd, adder } : IsNumber256(x)
    <3>1. ASSUME NEW x \in Numbers256 PROVE IsNumber256(x)
      BY DEF Numbers256, Numbers128, Pairs, IsNumber256
    <3> QED BY <3>1 DEF Inv, NumbersInv
  <2> QED BY <2>2, <2>3, <2>4, <2>5, <2>6 DEF Inv, TypeOK
<1> QED BY <1>1, InvAlways, PTL

\* No text is stored behind the strings, however long it is.
THEOREM StringsContainedAlways == Spec => []StringsContained
<1>1. Inv => StringsContained
  BY DEF Inv, MemoryType, StringsContained
<1> QED BY <1>1, InvAlways, PTL

\* Long division by ten is exact at every step, for every width of the words.
THEOREM DivisionExactAlways == Spec => []DivisionExact
<1>1. Inv => DivisionExact
  <2> SUFFICES ASSUME Inv PROVE DivisionExact
    OBVIOUS
  <2>1. DivisionInv
    BY DEF Inv
  <2>2. ASSUME NEW j \in Nat, Tried(j)
        PROVE  Value(copyd) = 10 * Value(adder) /\ Value(resMod) < 2 * Value(copyd)
    BY <2>2 DEF Tried
  <2> QED BY <2>1, <2>2 DEF DivisionInv, DivisionExact
<1> QED BY <1>1, InvAlways, PTL

\* A transaction is refused for its display only if a text is too long.
THEOREM RefusedOnlyIfTooLongAlways == Spec => []RefusedOnlyIfTooLong
<1>1. Inv => RefusedOnlyIfTooLong
  BY DEF Inv
<1> QED BY <1>1, InvAlways, PTL

\* In the end the amount on the screen is the amount that was sent.
THEOREM AmountExactAlways == Spec => []AmountExact
<1>1. Inv => AmountExact
  <2> SUFFICES ASSUME Inv, pc = "done" PROVE TickerAndNumber(TextAt(mem, AmountAt), Sent("value"))
    BY DEF AmountExact
  <2>1. tx \in Txs /\ AmountStored(mem) /\ DOMAIN mem \subseteq Int /\ AmountAt \in Int
    BY AllPlaces DEF Inv, StringsInv, MemoryType
  <2>2. Sent("value") \in Nat
    BY <2>1, Numbers
  <2>3. Shows(Sent("value")) \in Seq(Printable)
        /\ TickerAndNumber(Shows(Sent("value")), Sent("value"))
    BY <2>2, ShowsIs
  <2>4. TextAt(mem, AmountAt) = Shows(Sent("value"))
    BY <2>1, <2>3, TextCharacters, HoldsText DEF AmountStored
  <2> QED BY <2>3, <2>4
<1> QED BY <1>1, InvAlways, PTL

\* So is the fee, as long as its digits fit their field.
THEOREM FeeExactAlways == Spec => []FeeExact
<1>1. Inv => FeeExact
  <2> SUFFICES ASSUME Inv, pc = "done", SentFee < TenTo(FeeSize - Len(Ticker) - 2)
               PROVE  TickerAndNumber(TextAt(mem, FeeAt), SentFee)
    BY DEF FeeExact
  <2>1. tx \in Txs /\ FeeStored(mem) /\ DOMAIN mem \subseteq Int /\ FeeAt \in Int
    BY AllPlaces DEF Inv, StringsInv, MemoryType
  <2>2. SentFee \in Nat
    BY <2>1, FeeIs
  <2> DEFINE s == Shows(SentFee)
             L == Len(Decimal(SentFee))
             k == FeeSize - Len(Ticker) - 2
  <2>3. /\ s \in Seq(Printable) /\ TickerAndNumber(s, SentFee)
        /\ Len(s) <= Len(Ticker) + (IF L <= Decimals THEN Decimals + 2 ELSE L + 1)
    BY <2>2, ShowsIs
  <2>4. Len(s) \in Nat
    BY <2>3, TextsAreChars
  <2>5. /\ Len(Ticker) \in Nat /\ Decimals \in Nat /\ FeeSize \in Nat
        /\ Len(Ticker) + Decimals + 3 <= FeeSize /\ k \in Nat \ {0}
    BY Sizes
  <2>6. L <= k /\ L \in Nat
    BY <2>2, <2>5, DecimalLength
  <2> HIDE DEF s, L
  <2>7. Len(s) < FeeSize
    BY <2>3, <2>4, <2>5, <2>6
  <2>8. TextAt(mem, FeeAt) = s
    BY <2>1, <2>3, <2>7, TextCharacters, HoldsText DEF FeeStored, s
  <2> QED BY <2>3, <2>8
<1> QED BY <1>1, InvAlways, PTL

\* So is the nonce.
THEOREM NonceExactAlways == Spec => []NonceExact
<1>1. Inv => NonceExact
  <2> SUFFICES ASSUME Inv, pc = "done", Sent("nonce") < TenTo(NonceSize - 1)
               PROVE  /\ IsNumeral(TextAt(mem, NonceAt))
                      /\ ReadNumber(TextAt(mem, NonceAt)) = Sent("nonce")
    BY DEF NonceExact
  <2>1. tx \in Txs /\ NonceStored(mem) /\ DOMAIN mem \subseteq Int /\ NonceAt \in Int
    BY AllPlaces DEF Inv, StringsInv, MemoryType
  <2>2. Sent("nonce") \in Nat
    BY <2>1, Numbers
  <2>3. /\ Decimal(Sent("nonce")) \in Seq(Printable) /\ IsNumeral(Decimal(Sent("nonce")))
        /\ ReadNumber(Decimal(Sent("nonce"))) = Sent("nonce")
    BY <2>2, DecimalReads, TextsAreChars
  <2>4. TextAt(mem, NonceAt) = Decimal(Sent("nonce"))
    BY <2>1, <2>3, TextCharacters, HoldsText DEF NonceStored
  <2> QED BY <2>3, <2>4
<1> QED BY <1>1, InvAlways, PTL
============================================================================
