---------------------------- MODULE TextsProofs ----------------------------
(***************************************************************************)
(* What the functions of Texts compute: numbers as digits to a base, the   *)
(* decimal and the hexadecimal form, and what is read from a memory after  *)
(* a store.  A recursive function is defined by an equation; that it has a *)
(* solution, and what the solution is, is shown by induction over the set  *)
(* of arguments for which it is so.                                        *)
(***************************************************************************)
EXTENDS Texts, SequenceTheorems, FiniteSetTheorems, NaturalsInduction,
        WellFoundedInduction, TLAPS

-----------------------------------------------------------------------------
\* Induction.

\* A set with every number whose predecessors are all in it has all numbers.
LEMMA StrongInduction ==
  ASSUME NEW S,
         \A n \in Nat : (\A k \in 0..(n - 1) : k \in S) => n \in S
  PROVE  Nat \subseteq S
<1> SUFFICES ASSUME Nat \ S # {} PROVE FALSE
  OBVIOUS
<1>1. IsWellFoundedOn(OpToRel(<, Nat), Nat)
  BY NatLessThanWellFounded
<1>2. PICK n \in Nat \ S : \A k \in Nat \ S : ~(<< k, n >> \in OpToRel(<, Nat))
  BY <1>1, WFMin
<1>3. \A k \in Nat : k < n => << k, n >> \in OpToRel(<, Nat)
  BY DEF OpToRel
<1>4. \A k \in 0..(n - 1) : k \in Nat /\ k < n
  OBVIOUS
<1>5. \A k \in 0..(n - 1) : k \in S
  BY <1>2, <1>3, <1>4
<1> QED BY <1>2, <1>5

\* A set with 0 and the successor of each of its numbers has all numbers.
LEMMA Induction ==
  ASSUME NEW S, 0 \in S, \A n \in Nat : n \in S => n + 1 \in S
  PROVE  Nat \subseteq S
<1>1. ASSUME NEW n \in Nat, \A k \in 0..(n - 1) : k \in S PROVE n \in S
  <2>1. CASE n = 0
    BY <2>1
  <2>2. CASE n # 0
    <3>1. n - 1 \in Nat /\ n - 1 \in 0..(n - 1) /\ (n - 1) + 1 = n
      BY <2>2
    <3> QED BY <1>1, <3>1
  <2> QED BY <2>1, <2>2
<1> QED BY <1>1, StrongInduction

\* A function on the first numbers is a sequence.
LEMMA SeqOfFunction ==
  ASSUME NEW n \in Nat, NEW S, NEW f \in [1..n -> S]
  PROVE  f \in Seq(S) /\ Len(f) = n /\ \A i \in 1..n : f[i] \in S
OBVIOUS

\* A sequence is a function from 1..Len.
LEMMA FunctionOfSeq ==
  ASSUME NEW S, NEW s \in Seq(S)
  PROVE  s \in [1..Len(s) -> S]
OBVIOUS

\* One element more.
LEMMA AppendType ==
  ASSUME NEW S, NEW s \in Seq(S), NEW d \in S
  PROVE  Append(s, d) \in Seq(S) /\ Len(Append(s, d)) = Len(s) + 1
OBVIOUS

\* Two sequences in a row.
LEMMA ConcatType ==
  ASSUME NEW S, NEW s \in Seq(S), NEW t \in Seq(S)
  PROVE  s \o t \in Seq(S) /\ Len(s \o t) = Len(s) + Len(t) /\ Len(s) \in Nat
OBVIOUS

\* Three sequences in a row.
LEMMA ConcatAssociates ==
  ASSUME NEW S, NEW s \in Seq(S), NEW t \in Seq(S), NEW u \in Seq(S)
  PROVE  (s \o t) \o u = s \o (t \o u) /\ (s \o t) \o u \in Seq(S)
OBVIOUS

\* A sequence over a set is one over a larger set.
LEMMA SeqMonotone ==
  ASSUME NEW S, NEW T, S \subseteq T, NEW s \in Seq(S)
  PROVE  s \in Seq(T)
OBVIOUS

\* An element of a sequence.
LEMMA ElementType ==
  ASSUME NEW S, NEW s \in Seq(S), NEW i \in 1..Len(s)
  PROVE  s[i] \in S
OBVIOUS

\* The beginning of a sequence.
LEMMA PrefixOfType ==
  ASSUME NEW A, NEW s \in Seq(A), NEW m \in Nat, m <= Len(s)
  PROVE  SubSeq(s, 1, m) \in Seq(A) /\ Len(SubSeq(s, 1, m)) = m
OBVIOUS

\* A part of a sequence.
LEMMA SubSeqType ==
  ASSUME NEW S, NEW s \in Seq(S), NEW m \in 1..Len(s), NEW n \in m..Len(s)
  PROVE  SubSeq(s, m, n) \in Seq(S) /\ Len(SubSeq(s, m, n)) = n - m + 1
OBVIOUS

\* The first n elements are the same.
Agree(a, b, n) == \A i \in 1..n : a[i] = b[i]

-----------------------------------------------------------------------------
\* Recursive functions.

\* Every set of numbers has a least one.
LEMMA Least ==
  ASSUME NEW S, S \subseteq Nat, S # {}
  PROVE  Min(S) \in S /\ \A x \in S : Min(S) <= x
<1>1. \E n \in S : \A x \in S : n <= x
  <2> SUFFICES ASSUME \A n \in S : \E x \in S : ~(n <= x) PROVE FALSE
    OBVIOUS
  <2> DEFINE T == Nat \ S
  <2>1. ASSUME NEW n \in Nat, \A k \in 0..(n - 1) : k \in T PROVE n \in T
    <3> SUFFICES ASSUME n \in S PROVE FALSE
      OBVIOUS
    <3>1. PICK x \in S : ~(n <= x)
      OBVIOUS
    <3>2. x \in 0..(n - 1)
      BY <3>1
    <3> QED BY <2>1, <3>2
  <2> HIDE DEF T
  <2>2. Nat \subseteq T
    BY <2>1, StrongInduction
  <2> QED BY <2>2 DEF T
<1> QED BY <1>1, Zenon DEF Min

\* f begins with a, and each value is made of the one before.
Recurs(f, a, n, step) == f[0] = a /\ \A k \in 1..n : f[k] = step[<< k, f[k - 1] >>]

\* Recursion: with a function for the step, there is one for the results.
LEMMA Recursion ==
  ASSUME NEW S, NEW a \in S, NEW n \in Nat, NEW step \in [(1..n) \X S -> S]
  PROVE  \E f \in [0..n -> S] : Recurs(f, a, n, step)
<1> DEFINE Solves(f, m) == /\ f \in [0..m -> S] /\ f[0] = a
                           /\ \A k \in 1..m : f[k] = step[<< k, f[k - 1] >>]
           T == { m \in Nat : m <= n => \E f : Solves(f, m) }
<1>1. 0 \in T
  <2> DEFINE f == [k \in 0..0 |-> a]
  <2>1. Solves(f, 0)
    OBVIOUS
  <2> HIDE DEF Solves
  <2> QED BY <2>1
<1>2. ASSUME NEW m \in Nat, m \in T PROVE m + 1 \in T
  <2> SUFFICES ASSUME m + 1 <= n PROVE \E f : Solves(f, m + 1)
    OBVIOUS
  <2>1. PICK f : Solves(f, m)
    BY <1>2
  <2> DEFINE g == [k \in 0..(m + 1) |-> IF k = m + 1 THEN step[<< k, f[k - 1] >>] ELSE f[k]]
  <2>2. m \in 0..m /\ m + 1 \in 1..n /\ (m + 1) - 1 = m /\ f[m] \in S
    BY <2>1
  <2>3. step[<< m + 1, f[m] >>] \in S
    BY <2>2
  <2>4. g \in [0..(m + 1) -> S]
    <3> SUFFICES ASSUME NEW k \in 0..(m + 1) PROVE (IF k = m + 1 THEN step[<< k, f[k - 1] >>] ELSE f[k]) \in S
      OBVIOUS
    <3>1. CASE k = m + 1
      BY <2>2, <2>3, <3>1
    <3>2. CASE k # m + 1
      <4>1. k \in 0..m
        BY <3>2
      <4> QED BY <2>1, <3>2, <4>1
    <3> QED BY <3>1, <3>2
  <2>5. g[0] = a
    BY <2>1
  <2>6. ASSUME NEW k \in 1..(m + 1) PROVE g[k] = step[<< k, g[k - 1] >>]
    <3>1. k - 1 \in 0..(m + 1) /\ k - 1 # m + 1 /\ k \in 0..(m + 1)
      OBVIOUS
    <3>2. g[k - 1] = f[k - 1]
      BY <3>1
    <3>3. CASE k = m + 1
      BY <3>1, <3>2, <3>3
    <3>4. CASE k # m + 1
      <4>1. k \in 1..m
        BY <3>4
      <4>2. g[k] = f[k]
        BY <3>1, <3>4
      <4> QED BY <2>1, <3>2, <4>1, <4>2
    <3> QED BY <3>3, <3>4
  <2> HIDE DEF g
  <2>7. Solves(g, m + 1)
    BY <2>4, <2>5, <2>6
  <2> HIDE DEF Solves
  <2> QED BY <2>7
<1> HIDE DEF T
<1>3. Nat \subseteq T
  BY <1>1, <1>2, Induction
<1> QED BY <1>3 DEF T, Recurs

\* f is base in B, and elsewhere made of a value further on.
Unrolls(f, D, B, base, next, step) ==
  \A k \in D : f[k] = IF k \in B THEN base[k] ELSE step[<< k, f[next[k]] >>]

\* A rank from 0 to n falls with every step.
Descends(D, S, n, rank, B, base, next, step) ==
  /\ rank \in [D -> 0..n]
  /\ \A k \in D : k \in B => base[k] \in S
  /\ \A k \in D : k \notin B => /\ next[k] \in D /\ rank[next[k]] < rank[k]
                                /\ \A x \in S : step[<< k, x >>] \in S

\* Recursion along a falling rank.
LEMMA Descent ==
  ASSUME NEW D, NEW S, NEW n \in Nat, NEW rank, NEW B, NEW base, NEW next, NEW step,
         Descends(D, S, n, rank, B, base, next, step)
  PROVE  \E f \in [D -> S] : Unrolls(f, D, B, base, next, step)
<1> DEFINE Low(m) == { k \in D : rank[k] < m }
           Solves(f, m) ==
             /\ f \in [Low(m) -> S]
             /\ \A k \in Low(m) : f[k] = IF k \in B THEN base[k] ELSE step[<< k, f[next[k]] >>]
           T == { m \in Nat : \E f : Solves(f, m) }
<1>1. /\ \A k \in D : rank[k] \in 0..n
      /\ \A k \in D : k \in B => base[k] \in S
      /\ \A k \in D : k \notin B => next[k] \in D /\ rank[next[k]] < rank[k]
      /\ \A k \in D : k \notin B => \A x \in S : step[<< k, x >>] \in S
  BY DEF Descends
<1>2. 0 \in T
  <2>1. Low(0) = {}
    BY <1>1
  <2> DEFINE f == [k \in Low(0) |-> 0]
  <2>2. Solves(f, 0)
    BY <2>1
  <2> HIDE DEF Solves, f
  <2> QED BY <2>2
<1>3. ASSUME NEW m \in Nat, m \in T PROVE m + 1 \in T
  <2>1. PICK f : Solves(f, m)
    BY <1>3
  <2> DEFINE g == [k \in Low(m + 1) |->
                     IF k \in Low(m) THEN f[k]
                     ELSE IF k \in B THEN base[k] ELSE step[<< k, f[next[k]] >>]]
  <2>2. ASSUME NEW k \in Low(m + 1), k \notin B PROVE next[k] \in Low(m) /\ next[k] \in Low(m + 1)
    <3>1. rank[k] \in Int /\ rank[next[k]] \in Int /\ rank[next[k]] < rank[k] /\ next[k] \in D
      BY <1>1, <2>2
    <3>2. rank[k] < m + 1
      OBVIOUS
    <3>3. rank[next[k]] < m /\ rank[next[k]] < m + 1
      BY <3>1, <3>2
    <3> QED BY <3>1, <3>3
  <2>3. ASSUME NEW k \in Low(m + 1) PROVE g[k] \in S
    <3>1. CASE k \in Low(m)
      BY <2>1, <3>1
    <3>2. CASE k \notin Low(m) /\ k \in B
      BY <1>1, <3>2
    <3>3. CASE k \notin Low(m) /\ k \notin B
      <4>1. f[next[k]] \in S
        BY <2>1, <2>2, <3>3
      <4>2. step[<< k, f[next[k]] >>] \in S
        BY <1>1, <3>3, <4>1
      <4> QED BY <3>3, <4>2
    <3> QED BY <3>1, <3>2, <3>3
  <2>4. ASSUME NEW k \in Low(m + 1)
        PROVE  g[k] = IF k \in B THEN base[k] ELSE step[<< k, g[next[k]] >>]
    <3>1. k \notin B => g[next[k]] = f[next[k]]
      BY <2>2
    <3>2. CASE k \in Low(m)
      <4>1. g[k] = f[k]
        BY <3>2
      <4>2. f[k] = IF k \in B THEN base[k] ELSE step[<< k, f[next[k]] >>]
        BY <2>1, <3>2
      <4> HIDE DEF g
      <4> QED BY <3>1, <4>1, <4>2
    <3>3. CASE k \notin Low(m)
      <4>1. g[k] = IF k \in B THEN base[k] ELSE step[<< k, f[next[k]] >>]
        BY <3>3
      <4> HIDE DEF g
      <4> QED BY <3>1, <4>1
    <3> QED BY <3>2, <3>3
  <2>5. g \in [Low(m + 1) -> S]
    <3>1. g = [k \in Low(m + 1) |-> g[k]]
      OBVIOUS
    <3> HIDE DEF g
    <3> QED BY <2>3, <3>1
  <2> HIDE DEF g
  <2>6. Solves(g, m + 1)
    BY <2>4, <2>5
  <2> HIDE DEF Solves
  <2> QED BY <2>6
<1>4. Nat \subseteq T
  <2> HIDE DEF T
  <2> QED BY <1>2, <1>3, Induction
<1>5. PICK f : Solves(f, n + 1)
  <2> HIDE DEF Solves
  <2> QED BY <1>4
<1>6. Low(n + 1) = D
  BY <1>1
<1>7. f \in [D -> S] /\ \A k \in D : f[k] = IF k \in B THEN base[k] ELSE step[<< k, f[next[k]] >>]
  BY <1>5, <1>6
<1> QED BY <1>7 DEF Unrolls

-----------------------------------------------------------------------------
\* Texts behind one another.

\* c has the elements of a, and then those of b.
Joins(c, a, b) ==
  /\ Len(a) \in Nat /\ Len(b) \in Nat /\ Len(c) = Len(a) + Len(b)
  /\ \A i \in 1..Len(a) : c[i] = a[i]
  /\ \A i \in 1..Len(b) : c[Len(a) + i] = b[i]
  /\ SubSeq(c, 1, Len(a)) = a

\* Where the elements of two sequences are once they are one.
LEMMA Concatenated ==
  ASSUME NEW S, NEW a \in Seq(S), NEW b \in Seq(S)
  PROVE  a \o b \in Seq(S) /\ Joins(a \o b, a, b)
<1>1. Len(a) \in Nat /\ Len(b) \in Nat
  OBVIOUS
<1>2. a \o b \in Seq(S) /\ Len(a \o b) = Len(a) + Len(b)
  OBVIOUS
<1>3. ASSUME NEW i \in 1..Len(a) PROVE (a \o b)[i] = a[i]
  OBVIOUS
<1>4. ASSUME NEW i \in 1..Len(b) PROVE (a \o b)[Len(a) + i] = b[i]
  OBVIOUS
<1>5. SubSeq(a \o b, 1, Len(a)) = a
  OBVIOUS
<1> QED BY <1>1, <1>2, <1>3, <1>4, <1>5 DEF Joins

\* The terminator of what is behind is the terminator of both.
LEMMA TerminatedBehind ==
  ASSUME NEW S, NEW a \in Seq(S), NEW b \in Seq(S)
  PROVE  /\ a \o Terminated(b) = Terminated(a \o b)
         /\ Len(Terminated(a)) = Len(a) + 1 /\ Len(Terminated(a)) \in Nat
<1>1. a \o Append(b, NUL) = Append(a \o b, NUL)
  OBVIOUS
<1>2. Len(Append(a, NUL)) = Len(a) + 1 /\ Len(Append(a, NUL)) \in Nat
  OBVIOUS
<1> QED BY <1>1, <1>2, Zenon DEF Terminated

\* The smaller of two numbers.
LEMMA MinOfTwo ==
  ASSUME NEW a \in Int, NEW b \in Int
  PROVE  Min({ a, b }) = IF a <= b THEN a ELSE b
<1>1. \E x \in { a, b } : \A y \in { a, b } : x <= y
  OBVIOUS
<1>2. Min({ a, b }) \in { a, b } /\ \A y \in { a, b } : Min({ a, b }) <= y
  BY <1>1, Zenon DEF Min
<1> QED BY <1>2

-----------------------------------------------------------------------------
\* Powers of two.

\* The subsets of the first n + 1 numbers are twice those of the first n, so
\* powers of two double.
LEMMA PowerDoubles ==
  ASSUME NEW n \in Nat
  PROVE  2^n \in Nat /\ 2^(n + 1) = 2 * 2^n
<1> DEFINE S == 1..n
           T == 1..(n + 1)
           Old == SUBSET S
           New == { x \cup { n + 1 } : x \in Old }
           f == [x \in Old |-> x \cup { n + 1 }]
<1>1. IsFiniteSet(S) /\ Cardinality(S) = n
  BY FS_Interval
<1>2. IsFiniteSet(T) /\ Cardinality(T) = n + 1
  BY FS_Interval
<1>3. IsFiniteSet(Old) /\ Cardinality(Old) = 2^n
  BY <1>1, FS_SUBSET
<1>4. Cardinality(SUBSET T) = 2^(n + 1)
  BY <1>2, FS_SUBSET
<1>5. n + 1 \notin S /\ T = S \cup { n + 1 }
  OBVIOUS
<1>6. f \in Bijection(Old, New)
  <2>1. f \in [Old -> New]
    OBVIOUS
  <2>2. \A x, y \in Old : f[x] = f[y] => x = y
    <3> SUFFICES ASSUME NEW x \in Old, NEW y \in Old, x \cup { n + 1 } = y \cup { n + 1 }
                 PROVE  x = y
      OBVIOUS
    <3> HIDE DEF S
    <3> QED BY <1>5
  <2>3. \A y \in New : \E x \in Old : f[x] = y
    OBVIOUS
  <2> HIDE DEF f, Old, New
  <2>4. f \in Injection(Old, New)
    BY <2>1, <2>2, Zenon DEF Injection, IsInjective
  <2>5. f \in Surjection(Old, New)
    BY <2>1, <2>3, Zenon DEF Surjection
  <2> QED BY <2>4, <2>5, Zenon DEF Bijection
<1>7. IsFiniteSet(New) /\ Cardinality(New) = 2^n
  <2>1. ExistsBijection(Old, New)
    BY <1>6, Zenon DEF ExistsBijection
  <2> HIDE DEF Old, New
  <2> QED BY <1>3, <2>1, FS_Bijection
<1>8. SUBSET T = Old \cup New
  <2>1. ASSUME NEW x \in SUBSET T PROVE x \in Old \cup New
    <3>1. CASE n + 1 \in x
      <4>1. x \ { n + 1 } \in Old /\ x = (x \ { n + 1 }) \cup { n + 1 }
        <5> HIDE DEF S, T
        <5> QED BY <1>5, <3>1
      <4> HIDE DEF Old
      <4> QED BY <4>1
    <3>2. CASE n + 1 \notin x
      <4> HIDE DEF S, T
      <4> QED BY <1>5, <3>2
    <3> QED BY <3>1, <3>2
  <2>2. Old \subseteq SUBSET T /\ New \subseteq SUBSET T
    <3> HIDE DEF S, T
    <3> QED BY <1>5
  <2> QED BY <2>1, <2>2
<1>9. Old \cap New = {}
  <2> HIDE DEF S
  <2> QED BY <1>5
<1>10. Cardinality(Old \cup New) = 2^n + 2^n
  <2>1. IsFiniteSet(Old \cap New) /\ Cardinality(Old \cap New) = 0
    BY <1>9, FS_EmptySet
  <2> HIDE DEF Old, New
  <2>2. Cardinality(Old) \in Nat
    BY <1>3, FS_CardinalityType
  <2>3. Cardinality(Old \cup New) = Cardinality(Old) + Cardinality(New) - Cardinality(Old \cap New)
    BY <1>3, <1>7, FS_Union
  <2> QED BY <1>3, <1>7, <2>1, <2>2, <2>3
<1>11. 2^n \in Nat
  <2> HIDE DEF Old
  <2> QED BY <1>3, FS_CardinalityType
<1>12. 2^(n + 1) = 2^n + 2^n
  <2> HIDE DEF Old, New, T
  <2> QED BY <1>4, <1>8, <1>10
<1> QED BY <1>11, <1>12

\* Powers of two are not zero.
LEMMA PowerType == \A n \in Nat : 2^n \in Nat \ {0}
<1> DEFINE S == { n \in Nat : 2^n \in Nat \ {0} }
<1>1. 0 \in S
  OBVIOUS
<1>2. ASSUME NEW n \in Nat, n \in S PROVE n + 1 \in S
  BY <1>2, PowerDoubles
<1> HIDE DEF S
<1>3. Nat \subseteq S
  BY <1>1, <1>2, Induction
<1> QED BY <1>3 DEF S

\* The power of a sum.
LEMMA PowerSum ==
  ASSUME NEW a \in Nat, NEW b \in Nat
  PROVE  2^(a + b) = 2^a * 2^b
<1> DEFINE S == { n \in Nat : 2^(a + n) = 2^a * 2^n }
<1>1. 0 \in S
  <2>1. a + 0 = a /\ 2^0 = 1 /\ 2^a \in Nat
    BY PowerType
  <2> QED BY <2>1
<1>2. ASSUME NEW n \in Nat, n \in S PROVE n + 1 \in S
  <2>1. 2^(n + 1) = 2 * 2^n /\ 2^n \in Nat /\ 2^a \in Nat
    BY PowerDoubles, PowerType
  <2>2. 2^((a + n) + 1) = 2 * 2^(a + n)
    BY PowerDoubles
  <2>3. a + (n + 1) = (a + n) + 1
    OBVIOUS
  <2>4. 2^(a + (n + 1)) = 2 * (2^a * 2^n)
    BY <1>2, <2>2, <2>3
  <2>5. PICK x \in Nat, y \in Nat : x = 2^a /\ y = 2^n
    BY <2>1
  <2>6. 2 * (x * y) = x * (2 * y)
    OBVIOUS
  <2> QED BY <2>1, <2>4, <2>5, <2>6
<1> HIDE DEF S
<1>3. Nat \subseteq S
  BY <1>1, <1>2, Induction
<1> QED BY <1>3 DEF S

\* Powers grow.
LEMMA PowerGrows ==
  ASSUME NEW a \in Nat, NEW b \in Nat, a <= b
  PROVE  2^a <= 2^b
<1>1. b - a \in Nat /\ a + (b - a) = b
  OBVIOUS
<1>2. 2^b = 2^a * 2^(b - a)
  BY <1>1, PowerSum
<1>3. PICK x \in Nat, y \in Nat \ {0} : x = 2^a /\ y = 2^(b - a)
  BY <1>1, PowerType
<1>4. x * y >= x
  OBVIOUS
<1> QED BY <1>2, <1>3, <1>4

-----------------------------------------------------------------------------
\* Number.

\* f[n] is the number of the first n digits.
Accumulates(f, digits, base, length) ==
  f = [n \in 0..length |-> IF n = 0 THEN 0 ELSE base * f[n - 1] + digits[n]]

\* Number is the last value of such a function.
LEMMA NumberIs ==
  ASSUME NEW digits, NEW base
  PROVE  Number(digits, base)
           = (CHOOSE f : Accumulates(f, digits, base, Len(digits)))[Len(digits)]
BY DEF Number, Accumulates

\* There is one for every length.
LEMMA AccumulatorExists ==
  ASSUME NEW digits, NEW base, NEW length \in Nat
  PROVE  \E f : Accumulates(f, digits, base, length)
<1> DEFINE S == { n \in Nat : \E f : Accumulates(f, digits, base, n) }
<1>1. 0 \in S
  <2> DEFINE f == [n \in 0..0 |-> 0]
  <2>1. f = [n \in 0..0 |-> IF n = 0 THEN 0 ELSE base * f[n - 1] + digits[n]]
    OBVIOUS
  <2> QED BY <2>1 DEF Accumulates
<1>2. ASSUME NEW n \in Nat, n \in S PROVE n + 1 \in S
  <2>1. PICK f : Accumulates(f, digits, base, n)
    BY <1>2
  <2> DEFINE g == [k \in 0..(n + 1) |-> IF k <= n THEN f[k] ELSE base * f[n] + digits[n + 1]]
  <2>2. ASSUME NEW k \in 0..(n + 1)
        PROVE  g[k] = IF k = 0 THEN 0 ELSE base * g[k - 1] + digits[k]
    <3>1. CASE k = 0
      BY <2>1, <3>1 DEF Accumulates
    <3>2. CASE k # 0 /\ k <= n
      <4>1. k \in 0..n /\ k - 1 \in 0..(n + 1) /\ k - 1 <= n
        BY <3>2
      <4>2. f[k] = base * f[k - 1] + digits[k]
        BY <2>1, <3>2, <4>1 DEF Accumulates
      <4>3. g[k] = f[k] /\ g[k - 1] = f[k - 1]
        BY <4>1
      <4> QED BY <3>2, <4>2, <4>3
    <3>3. CASE k = n + 1
      <4>1. k # 0 /\ ~(k <= n) /\ k - 1 = n /\ n \in 0..(n + 1) /\ n <= n
        BY <3>3
      <4>2. g[k] = base * f[n] + digits[n + 1] /\ g[k - 1] = f[n]
        BY <4>1
      <4> QED BY <3>3, <4>1, <4>2
    <3> QED BY <3>1, <3>2, <3>3
  <2>3. Accumulates(g, digits, base, n + 1)
    <3>1. g = [k \in 0..(n + 1) |-> g[k]]
      OBVIOUS
    <3> HIDE DEF g
    <3> QED BY <2>2, <3>1 DEF Accumulates
  <2> QED BY <2>3
<1> HIDE DEF S
<1>3. length \in S
  BY <1>1, <1>2, Induction
<1> QED BY <1>3 DEF S

\* Each of its values is a number if the digits are.
LEMMA AccumulatorType ==
  ASSUME NEW digits, NEW base \in Nat, NEW length \in Nat, NEW f,
         \A n \in 1..length : digits[n] \in Nat,
         Accumulates(f, digits, base, length)
  PROVE  \A n \in 0..length : f[n] \in Nat
<1> DEFINE S == { n \in Nat : n <= length => f[n] \in Nat }
<1>1. 0 \in S
  BY DEF Accumulates
<1>2. ASSUME NEW n \in Nat, n \in S PROVE n + 1 \in S
  <2> SUFFICES ASSUME n + 1 <= length PROVE f[n + 1] \in Nat
    OBVIOUS
  <2>1. n + 1 \in 0..length /\ n + 1 \in 1..length /\ (n + 1) - 1 = n /\ n + 1 # 0
    OBVIOUS
  <2>2. f[n] \in Nat
    BY <1>2
  <2>3. f[n + 1] = base * f[n] + digits[n + 1]
    BY <2>1 DEF Accumulates
  <2> QED BY <2>1, <2>2, <2>3
<1> HIDE DEF S
<1>3. Nat \subseteq S
  BY <1>1, <1>2, Induction
<1> QED BY <1>3 DEF S

\* Only the digits so far count.
LEMMA AccumulatorsAgree ==
  ASSUME NEW s, NEW t, NEW base, NEW length \in Nat, NEW more \in Nat,
         NEW f, NEW g, length <= more,
         \A n \in 1..length : s[n] = t[n],
         Accumulates(f, s, base, length), Accumulates(g, t, base, more)
  PROVE  f[length] = g[length]
<1> DEFINE S == { n \in Nat : n <= length => f[n] = g[n] }
<1>1. 0 \in S
  BY DEF Accumulates
<1>2. ASSUME NEW n \in Nat, n \in S PROVE n + 1 \in S
  <2> SUFFICES ASSUME n + 1 <= length PROVE f[n + 1] = g[n + 1]
    OBVIOUS
  <2>1. /\ n + 1 \in 0..length /\ n + 1 \in 0..more /\ n + 1 \in 1..length
        /\ (n + 1) - 1 = n /\ n + 1 # 0
    OBVIOUS
  <2>2. f[n] = g[n]
    BY <1>2
  <2>3. f[n + 1] = base * f[n] + s[n + 1]
    BY <2>1 DEF Accumulates
  <2>4. g[n + 1] = base * g[n] + t[n + 1]
    BY <2>1 DEF Accumulates
  <2> QED BY <2>1, <2>2, <2>3, <2>4
<1> HIDE DEF S
<1>3. Nat \subseteq S
  BY <1>1, <1>2, Induction
<1> QED BY <1>3 DEF S

\* No digits are zero.
LEMMA NumberOfNothing ==
  ASSUME NEW base
  PROVE  Number(<< >>, base) = 0
<1>1. Len(<< >>) = 0
  OBVIOUS
<1> DEFINE f == CHOOSE f : Accumulates(f, << >>, base, 0)
<1>2. Accumulates(f, << >>, base, 0)
  BY AccumulatorExists, Zenon, 0 \in Nat
<1>3. Number(<< >>, base) = f[0]
  BY <1>1, NumberIs
<1> HIDE DEF f
<1> QED BY <1>2, <1>3 DEF Accumulates

\* One more digit.
LEMMA NumberAppend ==
  ASSUME NEW s \in Seq(Nat), NEW d \in Nat, NEW base \in Nat
  PROVE  /\ Number(Append(s, d), base) = base * Number(s, base) + d
         /\ Number(s, base) \in Nat
<1> DEFINE t == Append(s, d)
           n == Len(s)
           f == CHOOSE f : Accumulates(f, s, base, n)
           g == CHOOSE g : Accumulates(g, t, base, n + 1)
<1>1. /\ n \in Nat /\ Len(t) = n + 1 /\ n + 1 \in Nat /\ t[n + 1] = d
      /\ \A i \in 1..n : t[i] = s[i] /\ s[i] \in Nat
  OBVIOUS
<1>2. Accumulates(f, s, base, n)
  BY <1>1, AccumulatorExists
<1>3. Accumulates(g, t, base, n + 1)
  <2> HIDE DEF t, n
  <2> QED BY <1>1, AccumulatorExists
<1>4. Number(s, base) = f[n]
  BY NumberIs
<1>5. Number(t, base) = g[n + 1]
  <2>1. Number(t, base) = (CHOOSE h : Accumulates(h, t, base, Len(t)))[Len(t)]
    BY NumberIs
  <2> HIDE DEF t, n
  <2> QED BY <1>1, <2>1
<1> HIDE DEF t, n, f, g
<1>6. f[n] = g[n]
  BY <1>1, <1>2, <1>3, AccumulatorsAgree
<1>7. g[n + 1] = base * g[n] + t[n + 1]
  <2>1. n + 1 \in 0..(n + 1) /\ (n + 1) - 1 = n /\ n + 1 # 0
    BY <1>1
  <2> QED BY <1>3, <2>1 DEF Accumulates
<1>8. f[n] \in Nat
  BY <1>1, <1>2, AccumulatorType
<1> QED BY <1>1, <1>4, <1>5, <1>6, <1>7, <1>8 DEF t

-----------------------------------------------------------------------------
\* Decimal.

\* f[k] is the text of k.
WritesDecimal(f, n) ==
  f = [k \in 0..n |->
         (IF k < 10 THEN << >> ELSE f[k \div 10]) \o << ZERO + (k % 10) >>]

\* Decimal is the last value of such a function.
LEMMA DecimalIs ==
  ASSUME NEW n
  PROVE  Decimal(n) = (CHOOSE f : WritesDecimal(f, n))[n]
BY DEF Decimal, WritesDecimal

\* What is left of a number without its last digit, and the digit.
LEMMA LastDigit ==
  ASSUME NEW k \in Nat
  PROVE  /\ k \div 10 \in Nat /\ k % 10 \in 0..9
         /\ k = 10 * (k \div 10) + (k % 10)
         /\ k >= 10 => k \div 10 \in 1..(k - 1)
OBVIOUS

\* There is such a function for every number.
LEMMA WriterExists ==
  ASSUME NEW n \in Nat
  PROVE  \E f : WritesDecimal(f, n)
<1> DEFINE S == { m \in Nat : \E f : WritesDecimal(f, m) }
<1>1. 0 \in S
  <2> DEFINE f == [k \in 0..0 |-> << >> \o << ZERO + (0 % 10) >>]
  <2>1. \A k \in 0..0 : k = 0 /\ k < 10
    OBVIOUS
  <2>2. f = [k \in 0..0 |->
               (IF k < 10 THEN << >> ELSE f[k \div 10]) \o << ZERO + (k % 10) >>]
    BY <2>1
  <2> HIDE DEF f
  <2> QED BY <2>2 DEF WritesDecimal
<1>2. ASSUME NEW m \in Nat, m \in S PROVE m + 1 \in S
  <2>1. PICK f : WritesDecimal(f, m)
    BY <1>2
  <2> DEFINE last == (IF m + 1 < 10 THEN << >> ELSE f[(m + 1) \div 10])
                        \o << ZERO + ((m + 1) % 10) >>
             g == [k \in 0..(m + 1) |-> IF k <= m THEN f[k] ELSE last]
  <2>2. ASSUME NEW k \in 0..(m + 1)
        PROVE  g[k] = (IF k < 10 THEN << >> ELSE g[k \div 10]) \o << ZERO + (k % 10) >>
    <3>1. k >= 10 => k \div 10 \in 0..(m + 1) /\ k \div 10 <= m
      <4>1. k \in Nat
        OBVIOUS
      <4> QED BY <4>1, LastDigit
    <3>2. k >= 10 => g[k \div 10] = f[k \div 10]
      BY <3>1
    <3>3. ~(k < 10) <=> k >= 10
      OBVIOUS
    <3>4. CASE k <= m
      <4>1. g[k] = f[k] /\ k \in 0..m
        BY <3>4
      <4>2. f[k] = (IF k < 10 THEN << >> ELSE f[k \div 10]) \o << ZERO + (k % 10) >>
        BY <2>1, <4>1 DEF WritesDecimal
      <4> HIDE DEF g
      <4> QED BY <3>2, <3>3, <4>1, <4>2
    <3>5. CASE k = m + 1
      <4>1. g[k] = last
        BY <3>5
      <4>2. last = (IF k < 10 THEN << >> ELSE f[k \div 10]) \o << ZERO + (k % 10) >>
        BY <3>5
      <4>3. CASE k < 10
        <5> HIDE DEF g, last
        <5> QED BY <4>1, <4>2, <4>3
      <4>4. CASE ~(k < 10)
        <5> HIDE DEF g, last
        <5> QED BY <3>2, <3>3, <4>1, <4>2, <4>4
      <4> QED BY <4>3, <4>4
    <3>6. k <= m \/ k = m + 1
      OBVIOUS
    <3> HIDE DEF g
    <3> QED BY <3>4, <3>5, <3>6
  <2>3. WritesDecimal(g, m + 1)
    <3>1. g = [k \in 0..(m + 1) |-> g[k]]
      OBVIOUS
    <3> HIDE DEF g
    <3> QED BY <2>2, <3>1 DEF WritesDecimal
  <2> QED BY <2>3
<1> HIDE DEF S
<1>3. n \in S
  BY <1>1, <1>2, Induction
<1> QED BY <1>3 DEF S

\* The text of a number depends on nothing else.
LEMMA WritersAgree ==
  ASSUME NEW n \in Nat, NEW m \in Nat, NEW f, NEW g,
         WritesDecimal(f, n), WritesDecimal(g, m)
  PROVE  \A k \in Nat : k <= n /\ k <= m => f[k] = g[k]
<1> DEFINE S == { k \in Nat : k <= n /\ k <= m => f[k] = g[k] }
<1>1. ASSUME NEW k \in Nat, \A j \in 0..(k - 1) : j \in S PROVE k \in S
  <2> SUFFICES ASSUME k <= n, k <= m PROVE f[k] = g[k]
    OBVIOUS
  <2>1. k \in 0..n /\ k \in 0..m /\ (~(k < 10) <=> k >= 10)
    OBVIOUS
  <2>2. k >= 10 => f[k \div 10] = g[k \div 10]
    <3> SUFFICES ASSUME k >= 10 PROVE f[k \div 10] = g[k \div 10]
      OBVIOUS
    <3>1. k \div 10 \in 0..(k - 1) /\ k \div 10 <= n /\ k \div 10 <= m
      BY LastDigit
    <3> QED BY <1>1, <3>1
  <2>3. f[k] = (IF k < 10 THEN << >> ELSE f[k \div 10]) \o << ZERO + (k % 10) >>
    BY <2>1 DEF WritesDecimal
  <2>4. g[k] = (IF k < 10 THEN << >> ELSE g[k \div 10]) \o << ZERO + (k % 10) >>
    BY <2>1 DEF WritesDecimal
  <2> QED BY <2>1, <2>2, <2>3, <2>4
<1> HIDE DEF S
<1>2. Nat \subseteq S
  BY <1>1, StrongInduction
<1> QED BY <1>2 DEF S

\* The text of a number is the text of what is left without the last digit,
\* and the digit.
LEMMA DecimalStep ==
  ASSUME NEW n \in Nat
  PROVE  Decimal(n) = (IF n < 10 THEN << >> ELSE Decimal(n \div 10))
                         \o << ZERO + (n % 10) >>
<1> DEFINE f == CHOOSE f : WritesDecimal(f, n)
           g == CHOOSE g : WritesDecimal(g, n \div 10)
<1>1. WritesDecimal(f, n) /\ Decimal(n) = f[n]
  BY WriterExists, DecimalIs
<1>2. n \div 10 \in Nat
  BY LastDigit
<1>3. WritesDecimal(g, n \div 10) /\ Decimal(n \div 10) = g[n \div 10]
  <2>1. \E h : WritesDecimal(h, n \div 10)
    BY <1>2, WriterExists
  <2> QED BY <2>1, DecimalIs
<1> HIDE DEF f, g
<1>4. f[n] = (IF n < 10 THEN << >> ELSE f[n \div 10]) \o << ZERO + (n % 10) >>
  <2>1. n \in 0..n
    OBVIOUS
  <2> QED BY <1>1, <2>1 DEF WritesDecimal
<1>5. n >= 10 => f[n \div 10] = g[n \div 10]
  <2> SUFFICES ASSUME n >= 10 PROVE f[n \div 10] = g[n \div 10]
    OBVIOUS
  <2>1. n \div 10 <= n /\ n \div 10 <= n \div 10
    BY LastDigit
  <2> HIDE DEF f, g
  <2> QED BY <1>1, <1>2, <1>3, <2>1, WritersAgree
<1>6. ~(n < 10) <=> n >= 10
  OBVIOUS
<1> QED BY <1>1, <1>3, <1>4, <1>5, <1>6

\* Digits are a natural number.
LEMMA NumberType ==
  ASSUME NEW s \in Seq(Nat), NEW base \in Nat
  PROVE  Number(s, base) \in Nat
BY NumberAppend

Digits == ZERO..(ZERO + 9)

\* ReadNumber digit by digit.
LEMMA ReadAppend ==
  ASSUME NEW text \in Seq(Digits), NEW c \in Digits
  PROVE  /\ ReadNumber(text \o << c >>) = 10 * ReadNumber(text) + (c - ZERO)
         /\ ReadNumber(text) \in Nat
<1> DEFINE s == [i \in DOMAIN text |-> text[i] - ZERO]
           t == [i \in DOMAIN (text \o << c >>) |-> (text \o << c >>)[i] - ZERO]
<1>1. Len(text) \in Nat /\ DOMAIN text = 1..Len(text)
  OBVIOUS
<1>2. \A i \in 1..Len(text) : text[i] - ZERO \in Nat
  BY DEF Digits, ZERO
<1>3. s \in Seq(Nat) /\ Len(s) = Len(text) /\ \A i \in 1..Len(text) : s[i] = text[i] - ZERO
  BY <1>1, <1>2
<1>4. c - ZERO \in Nat
  BY DEF Digits, ZERO
<1>5. /\ DOMAIN (text \o << c >>) = 1..(Len(text) + 1)
      /\ \A i \in 1..Len(text) : (text \o << c >>)[i] = text[i]
      /\ (text \o << c >>)[Len(text) + 1] = c
  OBVIOUS
<1>6. t = Append(s, c - ZERO)
  <2>1. /\ DOMAIN Append(s, c - ZERO) = 1..(Len(text) + 1)
        /\ \A i \in 1..Len(text) : Append(s, c - ZERO)[i] = s[i]
        /\ Append(s, c - ZERO)[Len(text) + 1] = c - ZERO
    <3> HIDE DEF s
    <3> QED BY <1>1, <1>3, <1>4
  <2>2. DOMAIN t = 1..(Len(text) + 1)
    BY <1>5
  <2>3. \A i \in 1..(Len(text) + 1) : t[i] = Append(s, c - ZERO)[i]
    <3> TAKE i \in 1..(Len(text) + 1)
    <3>1. t[i] = (text \o << c >>)[i] - ZERO
      BY <1>5
    <3>2. CASE i \in 1..Len(text)
      <4> HIDE DEF s, t
      <4> QED BY <1>3, <1>5, <2>1, <3>1, <3>2
    <3>3. CASE i = Len(text) + 1
      <4> HIDE DEF s, t
      <4> QED BY <1>5, <2>1, <3>1, <3>3
    <3> QED BY <1>1, <3>2, <3>3
  <2>4. t = [i \in 1..(Len(text) + 1) |-> t[i]]
    BY <2>2
  <2>5. Append(s, c - ZERO) = [i \in 1..(Len(text) + 1) |-> Append(s, c - ZERO)[i]]
    <3> HIDE DEF s
    <3>1. Append(s, c - ZERO) \in Seq(Nat)
      BY <1>3, <1>4
    <3> QED BY <2>1, <3>1
  <2> HIDE DEF s, t
  <2> QED BY <2>3, <2>4, <2>5
<1>7. ReadNumber(text) = Number(s, 10) /\ ReadNumber(text \o << c >>) = Number(t, 10)
  BY DEF ReadNumber
<1>8. 10 \in Nat
  OBVIOUS
<1> HIDE DEF s, t
<1>9. Number(Append(s, c - ZERO), 10) = 10 * Number(s, 10) + (c - ZERO) /\ Number(s, 10) \in Nat
  <2>1. \A d \in Nat : Number(Append(s, d), 10) = 10 * Number(s, 10) + d /\ Number(s, 10) \in Nat
    <3> TAKE d \in Nat
    <3>1. Number(Append(s, d), 10) = 10 * Number(s, 10) + d
      BY <1>3, <1>8, NumberAppend, Zenon
    <3>2. Number(s, 10) \in Nat
      BY <1>3, <1>8, NumberType, Zenon
    <3> QED BY <3>1, <3>2
  <2> QED BY <1>4, <2>1
<1> QED BY <1>6, <1>7, <1>9

\* The decimal text of a number consists of digits, has no zero ahead of
\* others and reads as the number.
LEMMA DecimalReads ==
  ASSUME NEW n \in Nat
  PROVE  /\ Decimal(n) \in Seq(Digits) /\ IsNumeral(Decimal(n))
         /\ ReadNumber(Decimal(n)) = n
         /\ n > 0 => Decimal(n)[1] # ZERO
<1> DEFINE P(k) == /\ Decimal(k) \in Seq(Digits) /\ Len(Decimal(k)) > 0
                   /\ (k > 0 => Decimal(k)[1] # ZERO)
                   /\ (k = 0 => Len(Decimal(k)) = 1)
                   /\ ReadNumber(Decimal(k)) = k
           S == { k \in Nat : P(k) }
<1>1. ASSUME NEW k \in Nat, \A j \in 0..(k - 1) : j \in S PROVE k \in S
  <2> DEFINE rest == IF k < 10 THEN << >> ELSE Decimal(k \div 10)
             c == ZERO + (k % 10)
  <2>1. Decimal(k) = rest \o << c >>
    BY DecimalStep
  <2>2. c \in Digits /\ c - ZERO = k % 10
    BY LastDigit DEF Digits, ZERO
  <2>3. CASE k < 10
    <3>1. rest = << >> /\ k % 10 = k /\ c = ZERO + k
      BY <2>3
    <3>2. ReadNumber(<< >>) = 0
      <4>1. [i \in DOMAIN << >> |-> << >>[i] - ZERO] = << >>
        OBVIOUS
      <4> QED BY <4>1, NumberOfNothing DEF ReadNumber
    <3>3. << >> \in Seq(Digits)
      OBVIOUS
    <3>4. ReadNumber(Decimal(k)) = k
      <4>1. ReadNumber(<< >> \o << c >>) = 10 * ReadNumber(<< >>) + (c - ZERO)
        <5> HIDE DEF c
        <5> QED BY <2>2, <3>3, ReadAppend
      <4> HIDE DEF rest, c
      <4> QED BY <2>1, <2>2, <3>1, <3>2, <4>1
    <3>5. Decimal(k) = << c >>
      <4>1. << c >> \in Seq(Digits)
        <5> HIDE DEF c
        <5> QED BY <2>2
      <4> HIDE DEF rest, c
      <4> QED BY <2>1, <3>1, <4>1, ConcatEmptySeq
    <3>6. Decimal(k) \in Seq(Digits) /\ Len(Decimal(k)) = 1 /\ Decimal(k)[1] = c
      <4> HIDE DEF c
      <4> QED BY <2>2, <3>5
    <3>7. k > 0 => c # ZERO
      BY <3>1 DEF ZERO
    <3>8. P(k)
      <4> HIDE DEF c
      <4> QED BY <3>4, <3>6, <3>7
    <3> QED BY <3>8
  <2>4. CASE k >= 10
    <3>1. k \div 10 \in 0..(k - 1) /\ k \div 10 > 0
      BY <2>4, LastDigit
    <3>2. P(k \div 10) /\ rest = Decimal(k \div 10)
      BY <1>1, <2>4, <3>1
    <3> HIDE DEF rest, c
    <3>3. rest \in Seq(Digits) /\ Len(rest) > 0 /\ rest[1] # ZERO /\ ReadNumber(rest) = k \div 10
      BY <3>1, <3>2
    <3>4. ReadNumber(Decimal(k)) = 10 * (k \div 10) + (k % 10)
      BY <2>1, <2>2, <3>3, ReadAppend
    <3>5. ReadNumber(Decimal(k)) = k
      BY <3>4, LastDigit
    <3>6. /\ Decimal(k) \in Seq(Digits) /\ Len(Decimal(k)) > 0
          /\ Decimal(k)[1] = rest[1]
      BY <2>1, <2>2, <3>3
    <3>7. P(k)
      BY <2>4, <3>3, <3>5, <3>6
    <3> QED BY <3>7
  <2> QED BY <2>3, <2>4
<1> HIDE DEF S
<1>2. n \in S
  BY <1>1, StrongInduction
<1>3. P(n)
  BY <1>2 DEF S
<1>4. IsNumber(Decimal(n))
  <2>1. Decimal(n) # << >>
    BY <1>3
  <2>2. \A i \in DOMAIN Decimal(n) : Decimal(n)[i] \in Digits
    BY <1>3
  <2> QED BY <2>1, <2>2 DEF IsNumber, Digits
<1>5. Decimal(n)[1] = ZERO => Len(Decimal(n)) = 1
  BY <1>3
<1> QED BY <1>3, <1>4, <1>5 DEF IsNumeral

-----------------------------------------------------------------------------
\* Memory.

\* The cell of the i-th character.
LEMMA StoredCell ==
  ASSUME NEW m, NEW at \in Int, NEW s, Len(s) \in Nat, NEW i \in 1..Len(s)
  PROVE  Store(m, at, s)[at + i - 1] = s[i]
<1> DEFINE w == at..(at + Len(s) - 1)
<1>1. Store(m, at, s) = [c \in DOMAIN m \cup w |-> IF c \in w THEN s[c - at + 1] ELSE m[c]]
  BY Zenon DEF Store
<1>2. at + i - 1 \in w /\ (at + i - 1) - at + 1 = i
  OBVIOUS
<1> HIDE DEF w
<1> QED BY <1>1, <1>2

\* A store changes the cells from at on, as many as the text has characters,
\* and no other.
LEMMA StoreCells ==
  ASSUME NEW m, NEW at \in Int, NEW s, Len(s) \in Nat
  PROVE  /\ DOMAIN Store(m, at, s) = DOMAIN m \cup at..(at + Len(s) - 1)
         /\ \A i \in DOMAIN m \ at..(at + Len(s) - 1) : Store(m, at, s)[i] = m[i]
<1> DEFINE w == at..(at + Len(s) - 1)
<1>1. Store(m, at, s) = [i \in DOMAIN m \cup w |-> IF i \in w THEN s[i - at + 1] ELSE m[i]]
  BY Zenon DEF Store
<1> HIDE DEF w
<1>2. \A i \in DOMAIN m \ w : Store(m, at, s)[i] = m[i]
  BY <1>1
<1>3. DOMAIN Store(m, at, s) = DOMAIN m \cup w
  BY <1>1
<1> QED BY <1>2, <1>3 DEF w

\* What is read from a place is what stands there up to the first zero.
LEMMA TextIs ==
  ASSUME NEW m, DOMAIN m \subseteq Int, NEW at \in Int, NEW C, NEW s \in Seq(C),
         \A i \in 1..Len(s) : /\ at + i - 1 \in DOMAIN m
                              /\ m[at + i - 1] = s[i] /\ s[i] # NUL,
         at + Len(s) \in DOMAIN m, m[at + Len(s)] = NUL
  PROVE  TextAt(m, at) = s
<1> DEFINE S == { i \in DOMAIN m : i >= at /\ m[i] = NUL }
           stop == at + Len(s)
<1>1. Len(s) \in Nat /\ s = [i \in 1..Len(s) |-> s[i]]
  OBVIOUS
<1>2. stop \in S /\ stop \in Int
  BY <1>1
<1>3. ASSUME NEW j \in S PROVE stop <= j
  <2> SUFFICES ASSUME ~(stop <= j) PROVE FALSE
    OBVIOUS
  <2>1. j \in Int /\ j >= at /\ m[j] = NUL
    OBVIOUS
  <2>2. (j - at) + 1 \in 1..Len(s) /\ at + ((j - at) + 1) - 1 = j
    BY <1>1, <2>1
  <2> QED BY <2>1, <2>2
<1>4. Min(S) = stop
  <2>1. Min(S) \in S /\ \A j \in S : Min(S) <= j
    <3> HIDE DEF S, stop
    <3> QED BY <1>2, <1>3, Zenon DEF Min
  <2>2. Min(S) \in Int
    BY <2>1
  <2> HIDE DEF S, stop
  <2> QED BY <1>2, <1>3, <2>1, <2>2
<1>5. TextAt(m, at) = [i \in 1..(Min(S) - at) |-> m[at + i - 1]]
  BY Zenon DEF TextAt
<1>6. TextAt(m, at) = [i \in 1..Len(s) |-> m[at + i - 1]]
  <2>1. Min(S) - at = Len(s)
    <3> HIDE DEF S
    <3> QED BY <1>1, <1>4
  <2> HIDE DEF S
  <2> QED BY <1>5, <2>1
<1> QED BY <1>1, <1>6

\* The memory has t at a place.
Holds(m, at, t) ==
  \A i \in 1..Len(t) : at + i - 1 \in DOMAIN m /\ m[at + i - 1] = t[i]

\* It has what was stored there last.
LEMMA StoreHolds ==
  ASSUME NEW m, NEW at \in Int, NEW t, Len(t) \in Nat
  PROVE  Holds(Store(m, at, t), at, t)
<1> DEFINE n == Store(m, at, t)
<1>1. \A i \in 1..Len(t) : at + i - 1 \in at..(at + Len(t) - 1)
  OBVIOUS
<1>2. DOMAIN n = DOMAIN m \cup at..(at + Len(t) - 1)
  BY StoreCells, Zenon
<1>3. \A i \in 1..Len(t) : n[at + i - 1] = t[i]
  BY StoredCell
<1> HIDE DEF n
<1>4. Holds(n, at, t)
  BY <1>1, <1>2, <1>3 DEF Holds
<1> QED BY <1>4 DEF n

\* What is stored ahead of it or behind it changes nothing.
LEMMA StoreKeeps ==
  ASSUME NEW m, NEW at \in Int, NEW t, Len(t) \in Nat, Holds(m, at, t),
         NEW b \in Int, NEW u, Len(u) \in Nat,
         b + Len(u) <= at \/ at + Len(t) <= b
  PROVE  Holds(Store(m, b, u), at, t)
<1>1. \A i \in 1..Len(t) : at + i - 1 \notin b..(b + Len(u) - 1)
  OBVIOUS
<1> DEFINE n == Store(m, b, u)
<1>2. /\ DOMAIN n = DOMAIN m \cup b..(b + Len(u) - 1)
      /\ \A i \in DOMAIN m \ b..(b + Len(u) - 1) : n[i] = m[i]
  BY StoreCells, Zenon
<1> HIDE DEF n
<1>3. Holds(n, at, t)
  BY <1>1, <1>2 DEF Holds
<1> QED BY <1>3 DEF n

\* The cells are numbered, with what is stored as well.
LEMMA StoreDomain ==
  ASSUME NEW m, NEW at, NEW s, DOMAIN m \subseteq Int
  PROVE  DOMAIN Store(m, at, s) \subseteq Int
<1> DEFINE w == at..(at + Len(s) - 1)
<1>1. DOMAIN Store(m, at, s) = DOMAIN m \cup w
  BY DEF Store
<1>2. w \subseteq Int
  OBVIOUS
<1> QED BY <1>1, <1>2

\* A terminated text reads as the text.
LEMMA HoldsText ==
  ASSUME NEW m, DOMAIN m \subseteq Int, NEW at \in Int,
         NEW C, NUL \notin C, NEW s \in Seq(C), Holds(m, at, Terminated(s))
  PROVE  TextAt(m, at) = s
<1> DEFINE t == Terminated(s)
<1>1. /\ Len(s) \in Nat /\ Len(t) = Len(s) + 1 /\ t[Len(s) + 1] = NUL
      /\ \A i \in 1..Len(s) : t[i] = s[i] /\ s[i] \in C
  BY DEF Terminated
<1> HIDE DEF t
<1>2. \A i \in 1..(Len(s) + 1) : at + i - 1 \in DOMAIN m /\ m[at + i - 1] = t[i]
  BY <1>1 DEF Holds, t
<1>3. \A i \in 1..Len(s) : /\ at + i - 1 \in DOMAIN m
                            /\ m[at + i - 1] = s[i] /\ s[i] # NUL
  BY <1>1, <1>2
<1>4. at + Len(s) \in DOMAIN m /\ m[at + Len(s)] = NUL
  <2>1. Len(s) + 1 \in 1..(Len(s) + 1) /\ at + (Len(s) + 1) - 1 = at + Len(s)
    BY <1>1
  <2>2. at + (Len(s) + 1) - 1 \in DOMAIN m /\ m[at + (Len(s) + 1) - 1] = NUL
    BY <1>1, <1>2, <2>1
  <2> QED BY <2>1, <2>2
<1> QED BY <1>3, <1>4, TextIs

-----------------------------------------------------------------------------
\* Hex.

Octets    == 0..255
HexDigits == Digits \cup 97..102
Printable == 1..127

\* Texts are not interrupted by a terminator.
LEMMA TextCharacters ==
  /\ Digits \subseteq Printable /\ HexDigits \subseteq Printable
  /\ HexPrefix \in Seq(Printable) /\ Len(HexPrefix) = 2
  /\ NUL \notin Printable
<1>1. Digits \subseteq Printable /\ HexDigits \subseteq Printable /\ NUL \notin Printable
  BY DEF Digits, HexDigits, Printable, ZERO, NUL
<1>2. 48 \in Printable /\ 120 \in Printable
  BY DEF Printable
<1> QED BY <1>1, <1>2 DEF HexPrefix

\* A half byte is written as one digit.
LEMMA HexDigitType ==
  ASSUME NEW n \in 0..15
  PROVE  HexDigit(n) \in HexDigits
BY DEF HexDigit, HexDigits, Digits, ZERO

\* A byte consists of two half bytes.
LEMMA HalfBytes ==
  ASSUME NEW b \in Octets
  PROVE  b \div 16 \in 0..15 /\ b % 16 \in 0..15 /\ 16 * (b \div 16) + (b % 16) = b
BY DEF Octets

\* The hexadecimal text of bytes has two digits for each.
LEMMA HexIs ==
  ASSUME NEW s \in Seq(Octets)
  PROVE  /\ Hex(s) \in Seq(HexDigits) /\ Len(Hex(s)) = 2 * Len(s)
         /\ \A i \in 1..Len(s) : /\ Hex(s)[2 * i - 1] = HexDigit(s[i] \div 16)
                                 /\ Hex(s)[2 * i] = HexDigit(s[i] % 16)
<1>1. Len(s) \in Nat /\ \A i \in 1..Len(s) : s[i] \in Octets
  BY ElementOfSeq
<1> DEFINE h(i) == LET b == s[(i + 1) \div 2]
                   IN HexDigit(IF i % 2 = 1 THEN b \div 16 ELSE b % 16)
<1>2. Hex(s) = [i \in 1..(2 * Len(s)) |-> h(i)]
  BY Zenon DEF Hex
<1>3. ASSUME NEW i \in 1..(2 * Len(s)) PROVE h(i) \in HexDigits
  <2>1. (i + 1) \div 2 \in 1..Len(s)
    BY <1>1
  <2> DEFINE b == s[(i + 1) \div 2]
  <2>2. b \in Octets
    BY <1>1, <2>1
  <2> HIDE DEF b
  <2>3. (IF i % 2 = 1 THEN b \div 16 ELSE b % 16) \in 0..15
    BY <2>2, HalfBytes
  <2>4. HexDigit(IF i % 2 = 1 THEN b \div 16 ELSE b % 16) \in HexDigits
    BY <2>3, HexDigitType
  <2> QED BY <2>4 DEF b
<1>4. ASSUME NEW i \in 1..Len(s)
      PROVE  /\ Hex(s)[2 * i - 1] = HexDigit(s[i] \div 16)
             /\ Hex(s)[2 * i] = HexDigit(s[i] % 16)
  <2>1. /\ 2 * i - 1 \in 1..(2 * Len(s)) /\ 2 * i \in 1..(2 * Len(s))
        /\ (2 * i - 1 + 1) \div 2 = i /\ (2 * i + 1) \div 2 = i
        /\ (2 * i - 1) % 2 = 1 /\ (2 * i) % 2 # 1
    BY <1>1
  <2>2. h(2 * i - 1) = HexDigit(s[i] \div 16)
    BY <2>1
  <2>3. h(2 * i) = HexDigit(s[i] % 16)
    BY <2>1
  <2> HIDE DEF h
  <2> QED BY <1>2, <2>1, <2>2, <2>3
<1>5. Hex(s) \in Seq(HexDigits) /\ Len(Hex(s)) = 2 * Len(s)
  <2>1. 2 * Len(s) \in Nat
    BY <1>1
  <2> HIDE DEF h
  <2> QED BY <1>2, <1>3, <2>1
<1> QED BY <1>4, <1>5
-----------------------------------------------------------------------------
\* Powers of ten, and the length of a decimal text.

\* Another zero makes ten times as much.
LEMMA TenIs ==
  /\ TenTo(0) = 1
  /\ \A n \in Nat : TenTo(n) \in Nat \ {0} /\ TenTo(n + 1) = 10 * TenTo(n)
<1> DEFINE s(n) == [i \in 1..(n + 1) |-> IF i = 1 THEN 1 ELSE 0]
<1>1. ASSUME NEW n \in Nat PROVE s(n) \in Seq(Nat) /\ Len(s(n)) = n + 1
  <2>1. s(n) \in [1..(n + 1) -> Nat] /\ n + 1 \in Nat
    OBVIOUS
  <2> HIDE DEF s
  <2> QED BY <2>1, SeqOfFunction
<1>2. ASSUME NEW n \in Nat PROVE TenTo(n + 1) = 10 * TenTo(n) /\ TenTo(n) \in Nat
  <2>1. s(n + 1) = Append(s(n), 0)
    BY <1>1
  <2>2. TenTo(n) = Number(s(n), 10) /\ TenTo(n + 1) = Number(s(n + 1), 10)
    BY DEF TenTo
  <2> HIDE DEF s
  <2>3. PICK t \in Seq(Nat) : t = s(n)
    BY <1>1
  <2>4. Number(Append(t, 0), 10) = 10 * Number(t, 10) + 0 /\ Number(t, 10) \in Nat
    BY ONLY NumberAppend, t \in Seq(Nat)
  <2>5. PICK v \in Nat : v = Number(t, 10)
    BY <2>4
  <2>6. 10 * v + 0 = 10 * v
    OBVIOUS
  <2> QED BY <2>1, <2>2, <2>3, <2>4, <2>5, <2>6, Zenon
<1>3. TenTo(0) = 1
  <2>1. s(0) = Append(<< >>, 1)
    OBVIOUS
  <2>2. TenTo(0) = Number(s(0), 10)
    BY DEF TenTo
  <2>3. << >> \in Seq(Nat)
    OBVIOUS
  <2>4. Number(Append(<< >>, 1), 10) = 10 * Number(<< >>, 10) + 1
    BY ONLY <2>3, NumberAppend
  <2>5. Number(<< >>, 10) = 0
    BY NumberOfNothing
  <2> HIDE DEF s
  <2> QED BY <2>1, <2>2, <2>4, <2>5
<1> DEFINE S == { n \in Nat : TenTo(n) \in Nat \ {0} }
<1>4. 0 \in S
  BY <1>3
<1>5. ASSUME NEW n \in Nat, n \in S PROVE n + 1 \in S
  BY <1>2, <1>5
<1> HIDE DEF S
<1>6. Nat \subseteq S
  BY <1>4, <1>5, Induction
<1> QED BY <1>2, <1>3, <1>6 DEF S

\* Powers of ten grow.
LEMMA TenGrows ==
  ASSUME NEW a \in Nat, NEW b \in Nat, a <= b
  PROVE  TenTo(a) <= TenTo(b)
<1> DEFINE S == { n \in Nat : TenTo(a) <= TenTo(a + n) }
<1>1. 0 \in S
  <2>1. a + 0 = a /\ TenTo(a) \in Nat
    BY TenIs
  <2> QED BY <2>1
<1>2. ASSUME NEW n \in Nat, n \in S PROVE n + 1 \in S
  <2>1. a + (n + 1) = (a + n) + 1 /\ a + n \in Nat
    OBVIOUS
  <2>2. TenTo((a + n) + 1) = 10 * TenTo(a + n) /\ TenTo(a + n) \in Nat /\ TenTo(a) \in Nat
    BY <2>1, TenIs
  <2>3. TenTo(a) <= TenTo(a + n)
    BY <1>2
  <2> QED BY <2>1, <2>2, <2>3
<1> HIDE DEF S
<1>3. b - a \in S
  BY <1>1, <1>2, Induction
<1> QED BY <1>3 DEF S

\* n has no more than k digits if it is less than a one with k zeros.
LEMMA DecimalLength ==
  ASSUME NEW k \in Nat \ {0}, NEW n \in Nat
  PROVE  /\ Len(Decimal(n)) <= k <=> n < TenTo(k)
         /\ Len(Decimal(n)) \in Nat \ {0}
<1> DEFINE S == { m \in Nat : m > 0 => \A v \in Nat :
                                Len(Decimal(v)) <= m <=> v < TenTo(m) }
<1>0. ASSUME NEW v \in Nat
      PROVE  /\ Len(Decimal(v)) \in Nat \ {0}
             /\ v < 10 => Len(Decimal(v)) = 1
             /\ v >= 10 => /\ Len(Decimal(v)) = Len(Decimal(v \div 10)) + 1
                           /\ Len(Decimal(v \div 10)) \in Nat \ {0} /\ v \div 10 \in Nat
  <2>1. Decimal(v) = (IF v < 10 THEN << >> ELSE Decimal(v \div 10)) \o << ZERO + (v % 10) >>
    BY DecimalStep
  <2>2. v \div 10 \in Nat /\ v % 10 \in 0..9
    BY LastDigit
  <2>3. Decimal(v) \in Seq(Digits) /\ Decimal(v \div 10) \in Seq(Digits)
        /\ Decimal(v) # << >> /\ Decimal(v \div 10) # << >>
    BY <2>2, DecimalReads DEF IsNumeral, IsNumber
  <2>4. Len(Decimal(v)) \in Nat \ {0} /\ Len(Decimal(v \div 10)) \in Nat \ {0}
    BY <2>3, EmptySeq
  <2>5. CASE v < 10
    <3>1. Decimal(v) = << >> \o << ZERO + (v % 10) >>
      BY <2>1, <2>5
    <3>2. Len(<< >> \o << ZERO + (v % 10) >>) = 1
      OBVIOUS
    <3>3. Len(Decimal(v)) = 1
      BY <3>1, <3>2, Zenon
    <3> QED BY <2>4, <2>5, <3>3
  <2>6. CASE ~(v < 10)
    <3>1. Decimal(v) = Decimal(v \div 10) \o << ZERO + (v % 10) >>
      BY <2>1, <2>6
    <3>2. PICK t \in Seq(Digits) : t = Decimal(v \div 10)
      BY <2>3
    <3>3. Len(t \o << ZERO + (v % 10) >>) = Len(t) + 1
      OBVIOUS
    <3>4. Len(Decimal(v)) = Len(Decimal(v \div 10)) + 1
      BY <3>1, <3>2, <3>3, Zenon
    <3> QED BY <2>2, <2>4, <2>6, <3>4
  <2> QED BY <2>5, <2>6
<1>1. 0 \in S
  OBVIOUS
<1>2. ASSUME NEW m \in Nat, m \in S PROVE m + 1 \in S
  <2> SUFFICES ASSUME NEW v \in Nat
               PROVE  Len(Decimal(v)) <= m + 1 <=> v < TenTo(m + 1)
    OBVIOUS
  <2>1. TenTo(m + 1) = 10 * TenTo(m) /\ TenTo(m) \in Nat \ {0} /\ TenTo(0) = 1
    BY TenIs
  <2>2. CASE v < 10
    <3>1. Len(Decimal(v)) = 1
      BY <1>0, <2>2
    <3> QED BY <2>1, <2>2, <3>1
  <2>3. CASE v >= 10
    <3>1. Len(Decimal(v)) = Len(Decimal(v \div 10)) + 1
          /\ Len(Decimal(v \div 10)) \in Nat \ {0} /\ v \div 10 \in Nat
      BY <1>0, <2>3
    <3>2. CASE m = 0
      BY <2>1, <2>3, <3>1, <3>2
    <3>3. CASE m > 0
      <4>1. Len(Decimal(v \div 10)) <= m <=> v \div 10 < TenTo(m)
        BY <1>2, <3>1, <3>3
      <4>2. v \div 10 < TenTo(m) <=> v < 10 * TenTo(m)
        <5>1. PICK t \in Nat : t = TenTo(m)
          BY <2>1
        <5>2. v \div 10 < t <=> v < 10 * t
          OBVIOUS
        <5> QED BY <5>1, <5>2
      <4> QED BY <2>1, <3>1, <4>1, <4>2
    <3> QED BY <3>2, <3>3
  <2> QED BY <2>2, <2>3
<1> HIDE DEF S
<1>3. k \in S
  BY <1>1, <1>2, Induction
<1> QED BY <1>0, <1>3 DEF S

\* Digits behind others count for less.
ReadsJoined(a, b) ==
  ReadNumber(a \o b) = ReadNumber(a) * TenTo(Len(b)) + ReadNumber(b)

\* So it is for all digits.
LEMMA ReadJoined ==
  ASSUME NEW a \in Seq(Digits), NEW b \in Seq(Digits)
  PROVE  ReadsJoined(a, b)
<1> DEFINE S == { n \in Nat : \A t \in Seq(Digits) : Len(t) = n => ReadsJoined(a, t) }
<1>0. << >> \in Seq(Digits) /\ 48 \in Digits /\ ReadNumber(<< >>) = 0 /\ ReadNumber(a) \in Nat
  <2>1. 48 \in Digits
    BY DEF Digits, ZERO
  <2>2. ReadNumber(<< >>) = 0
    <3>1. [i \in DOMAIN << >> |-> << >>[i] - ZERO] = << >>
      OBVIOUS
    <3> QED BY <3>1, NumberOfNothing DEF ReadNumber
  <2>3. ReadNumber(a) \in Nat
    BY <2>1, ReadAppend
  <2> QED BY <2>1, <2>2, <2>3
<1>1. 0 \in S
  <2> SUFFICES ASSUME NEW t \in Seq(Digits), Len(t) = 0 PROVE ReadsJoined(a, t)
    OBVIOUS
  <2>1. t = << >> /\ a \o << >> = a
    BY EmptySeq
  <2>2. PICK r \in Nat : r = ReadNumber(a)
    BY <1>0
  <2>3. r * 1 + 0 = r
    OBVIOUS
  <2> QED BY <1>0, <2>1, <2>2, <2>3, TenIs DEF ReadsJoined
<1>2. ASSUME NEW n \in Nat, n \in S PROVE n + 1 \in S
  <2> SUFFICES ASSUME NEW t \in Seq(Digits), Len(t) = n + 1 PROVE ReadsJoined(a, t)
    OBVIOUS
  <2>0. SubSeq(t, 1, n) \in Seq(Digits) /\ t[n + 1] \in Digits
    BY ElementOfSeq
  <2>1. PICK u \in Seq(Digits), c \in Digits : u = SubSeq(t, 1, n) /\ c = t[n + 1]
    BY <2>0
  <2>2. t = u \o << c >> /\ Len(u) = n
    BY <2>1
  <2>3. a \o t = (a \o u) \o << c >> /\ a \o u \in Seq(Digits)
    BY <2>2
  <2>4. ReadsJoined(a, u)
    BY <1>2, <2>2
  <2>5. ReadNumber(a \o u) = ReadNumber(a) * TenTo(n) + ReadNumber(u)
    BY <2>2, <2>4, Zenon DEF ReadsJoined
  <2>6. /\ ReadNumber(a \o t) = 10 * ReadNumber(a \o u) + (c - ZERO)
        /\ ReadNumber(t) = 10 * ReadNumber(u) + (c - ZERO)
        /\ ReadNumber(u) \in Nat /\ ReadNumber(a \o u) \in Nat
    <3>1. PICK w \in Seq(Digits) : w = a \o u
      BY <2>3
    <3>2. ReadNumber(w \o << c >>) = 10 * ReadNumber(w) + (c - ZERO) /\ ReadNumber(w) \in Nat
      BY ReadAppend
    <3>3. ReadNumber(u \o << c >>) = 10 * ReadNumber(u) + (c - ZERO) /\ ReadNumber(u) \in Nat
      BY ReadAppend
    <3> QED BY <2>2, <2>3, <3>1, <3>2, <3>3, Zenon
  <2>7. PICK x \in Nat, y \in Nat, p \in Nat, d \in Int, z \in Nat :
          /\ x = ReadNumber(a) /\ y = ReadNumber(u) /\ p = TenTo(n) /\ d = c - ZERO
          /\ z = ReadNumber(a \o u)
    <3>1. c - ZERO \in Int
      BY DEF Digits, ZERO
    <3>2. TenTo(n) \in Nat
      BY TenIs
    <3> QED BY <1>0, <2>6, <3>1, <3>2
  <2>8. TenTo(n + 1) = 10 * p
    BY <2>7, TenIs
  <2>9. 10 * (x * p + y) + d = x * (10 * p) + (10 * y + d)
    OBVIOUS
  <2> QED BY <2>5, <2>6, <2>7, <2>8, <2>9, Zenon DEF ReadsJoined
<1> HIDE DEF S
<1>3. Len(b) \in S
  BY <1>1, <1>2, Induction
<1> QED BY <1>3 DEF S

\* Zeros count nothing.
LEMMA ReadZeros ==
  ASSUME NEW z \in Seq(Digits), \A i \in 1..Len(z) : z[i] = ZERO
  PROVE  ReadNumber(z) = 0
<1> DEFINE S == { n \in Nat : \A t \in Seq(Digits) :
                    Len(t) = n /\ (\A i \in 1..n : t[i] = ZERO) => ReadNumber(t) = 0 }
<1>1. 0 \in S
  <2> SUFFICES ASSUME NEW t \in Seq(Digits), Len(t) = 0 PROVE ReadNumber(t) = 0
    OBVIOUS
  <2>1. t = << >>
    BY EmptySeq
  <2>2. [i \in DOMAIN << >> |-> << >>[i] - ZERO] = << >>
    OBVIOUS
  <2> QED BY <2>1, <2>2, NumberOfNothing DEF ReadNumber
<1>2. ASSUME NEW n \in Nat, n \in S PROVE n + 1 \in S
  <2> SUFFICES ASSUME NEW t \in Seq(Digits), Len(t) = n + 1,
                      \A i \in 1..(n + 1) : t[i] = ZERO
               PROVE  ReadNumber(t) = 0
    OBVIOUS
  <2>0. SubSeq(t, 1, n) \in Seq(Digits)
    OBVIOUS
  <2>1. PICK u \in Seq(Digits) : u = SubSeq(t, 1, n)
    BY <2>0
  <2>2. t = u \o << ZERO >> /\ Len(u) = n /\ \A i \in 1..n : u[i] = ZERO
    BY <2>1
  <2>3. ReadNumber(u) = 0
    BY <1>2, <2>2
  <2>4. ZERO \in Digits /\ ZERO - ZERO = 0
    BY DEF Digits, ZERO
  <2>5. ReadNumber(u \o << ZERO >>) = 10 * ReadNumber(u) + (ZERO - ZERO)
    BY <2>4, ReadAppend
  <2> QED BY <2>2, <2>3, <2>4, <2>5
<1> HIDE DEF S
<1>3. Len(z) \in S
  BY <1>1, <1>2, Induction
<1> QED BY <1>3 DEF S

============================================================================
