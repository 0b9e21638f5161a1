-------------------------- MODULE KeyReportsProofs --------------------------
(***************************************************************************)
(* Proofs about KeyReports, for every set of requests, every width of a    *)
(* word and every size of the fields: the host gets each full signature    *)
(* unchanged; the hash and the length of a message are those that were     *)
(* sent; the variables keep their types and the texts their place; the     *)
(* path on the screen is the path of the key; and each address on the      *)
(* screen reads as the one that was meant, on the network that was meant.  *)
(***************************************************************************)
EXTENDS KeyReportsProps, CfxAddressProofs

FullScalars == { x \in Scalars : IsFull(x) }

\* One more byte than the number has if its first byte would be a sign.
Sign(x) == IF x[1] > 127 THEN 1 ELSE 0

\* A number that begins with its first byte is written in full.
LEMMA FirstByte ==
  ASSUME NEW x \in FullScalars
  PROVE  Min({ i \in 1..ScalarLength : x[i] # 0 }) = 1
<1> DEFINE S == { i \in 1..ScalarLength : x[i] # 0 }
<1>1. 1 \in S /\ \A i \in S : i \in Int /\ 1 <= i
  BY DerAssumption DEF FullScalars, IsFull
<1>2. \E i \in S : \A j \in S : i <= j
  BY <1>1
<1>3. Min(S) \in S /\ \A j \in S : Min(S) <= j
  <2> HIDE DEF S
  <2> QED BY <1>2, Zenon DEF Min
<1> HIDE DEF S
<1>4. Min(S) = 1
  BY <1>1, <1>3
<1> QED BY <1>4 DEF S

LEMMA DerNumberFull ==
  ASSUME NEW x \in FullScalars
  PROVE  /\ DerNumber(x) \in Seq(Int)
         /\ Len(DerNumber(x)) = ScalarLength + Sign(x)
         /\ \A i \in 1..ScalarLength : DerNumber(x)[i + Sign(x)] = x[i]
<1>1. ScalarLength \in Nat \ {0} /\ x \in [1..ScalarLength -> Int]
  <2>1. Byte \subseteq Int
    BY DEF Byte
  <2>2. x \in [1..ScalarLength -> Byte]
    BY DEF FullScalars, Scalars
  <2> QED BY <2>1, <2>2, DerAssumption
<1>2. x \in Seq(Int) /\ Len(x) = ScalarLength /\ SubSeq(x, 1, ScalarLength) = x
  BY <1>1
<1>3. DerNumber(x) = (IF x[1] > 127 THEN << 0 >> ELSE << >>) \o x
  BY <1>2, FirstByte DEF DerNumber
<1>4. CASE x[1] > 127
  <2>1. DerNumber(x) = << 0 >> \o x /\ Sign(x) = 1
    BY <1>3, <1>4 DEF Sign
  <2> QED BY <1>1, <1>2, <2>1
<1>5. CASE ~(x[1] > 127)
  <2>1. DerNumber(x) = << >> \o x /\ Sign(x) = 0
    BY <1>3, <1>5 DEF Sign
  <2> QED BY <1>1, <1>2, <2>1
<1> QED BY <1>4, <1>5

\* Where Der puts what.
LEMMA DerLayout ==
  ASSUME NEW r \in FullScalars, NEW s \in FullScalars
  PROVE  LET R == DerNumber(r)
             S == DerNumber(s)
             D == Der(r, s)
         IN /\ Len(D) = 6 + Len(R) + Len(S)
            /\ D[4] = Len(R)
            /\ \A i \in 1..Len(R) : D[4 + i] = R[i]
            /\ D[6 + Len(R)] = Len(S)
            /\ \A i \in 1..Len(S) : D[6 + Len(R) + i] = S[i]
<1> DEFINE R == DerNumber(r)
           S == DerNumber(s)
           head == << 48, Len(R) + Len(S) + 4, 2, Len(R) >>
           mid  == << 2, Len(S) >>
<1>3. R \in Seq(Int) /\ S \in Seq(Int) /\ Len(R) \in Nat /\ Len(S) \in Nat
  BY DerNumberFull
<1>4. head \in Seq(Int) /\ Len(head) = 4 /\ head[4] = Len(R)
  BY <1>3
<1>5. mid \in Seq(Int) /\ Len(mid) = 2 /\ mid[2] = Len(S)
  BY <1>3
<1>6. Der(r, s) = ((head \o R) \o mid) \o S
  BY DEF Der
<1> HIDE DEF R, S, head, mid
<1> DEFINE hr == head \o R
           hrm == hr \o mid
<1>7. /\ hr \in Seq(Int) /\ Len(hr) = Len(head) + Len(R)
      /\ \A i \in 1..Len(head) : hr[i] = head[i]
      /\ \A i \in 1..Len(R) : hr[Len(head) + i] = R[i]
  <2>1. hr \in Seq(Int) /\ Joins(hr, head, R)
    BY <1>3, <1>4, Concatenated
  <2> QED BY <2>1 DEF Joins
<1> HIDE DEF hr
<1>8. /\ hrm \in Seq(Int) /\ Len(hrm) = Len(hr) + Len(mid)
      /\ \A i \in 1..Len(hr) : hrm[i] = hr[i]
      /\ \A i \in 1..Len(mid) : hrm[Len(hr) + i] = mid[i]
  <2>1. hrm \in Seq(Int) /\ Joins(hrm, hr, mid)
    BY <1>5, <1>7, Concatenated
  <2> QED BY <2>1 DEF Joins
<1> HIDE DEF hrm
<1>9. Der(r, s) = hrm \o S
  BY <1>6 DEF hr, hrm
<1> DEFINE D == Der(r, s)
<1>10. /\ Len(D) = Len(hrm) + Len(S)
       /\ \A i \in 1..Len(hrm) : D[i] = hrm[i]
       /\ \A i \in 1..Len(S) : D[Len(hrm) + i] = S[i]
  <2>1. D = hrm \o S
    BY <1>9
  <2> HIDE DEF D
  <2>2. Joins(hrm \o S, hrm, S)
    BY <1>3, <1>8, Concatenated
  <2> QED BY <2>1, <2>2 DEF Joins
<1> HIDE DEF D
<1>11. Len(hr) = 4 + Len(R) /\ Len(hrm) = 6 + Len(R)
  BY <1>3, <1>4, <1>5, <1>7, <1>8
<1>12. Len(D) = 6 + Len(R) + Len(S)
  BY <1>3, <1>10, <1>11
<1>13. D[4] = Len(R)
  BY <1>3, <1>4, <1>7, <1>8, <1>10, <1>11
<1>14. ASSUME NEW i \in 1..Len(R) PROVE D[4 + i] = R[i]
  <2>1. hr[4 + i] = R[i]
    BY <1>4, <1>7
  <2>2. 4 + i \in 1..Len(hr) /\ 4 + i \in 1..Len(hrm)
    BY <1>3, <1>11
  <2> QED BY <1>8, <1>10, <2>1, <2>2
<1>15. D[6 + Len(R)] = Len(S)
  <2>1. hrm[Len(hr) + 2] = mid[2]
    BY <1>5, <1>8
  <2>2. Len(hr) + 2 = 6 + Len(R) /\ 6 + Len(R) \in 1..Len(hrm)
    BY <1>3, <1>11
  <2> QED BY <1>5, <1>10, <2>1, <2>2
<1>16. ASSUME NEW i \in 1..Len(S) PROVE D[6 + Len(R) + i] = S[i]
  BY <1>10, <1>11
<1> QED BY <1>12, <1>13, <1>14, <1>15, <1>16 DEF R, S, D

\* What DER says of two full numbers is what the host gets.
LEMMA FullSignature ==
  ASSUME NEW r \in FullScalars, NEW s \in FullScalars, NEW v
  PROVE  ResponseSig(Signed(r, s), v) = << v >> \o r \o s
<1> DEFINE N == ScalarLength
           D == Der(r, s)
           m == Signed(r, s)
           R == DerNumber(r)
           S == DerNumber(s)
           at == SkipZero(m, 4)
           behind == SkipZero(m, at + N + 2)
<1>1. N \in Nat \ {0} /\ Sign(r) \in {0, 1} /\ Sign(s) \in {0, 1}
  BY DerAssumption DEF Sign
<1>2. Len(R) = N + Sign(r) /\ Len(S) = N + Sign(s) /\ Len(R) \in Nat /\ Len(S) \in Nat
  BY <1>1, DerNumberFull
<1>3. Len(D) = 6 + Len(R) + Len(S) /\ Len(D) \in Nat
  BY <1>1, <1>2, DerLayout
<1>4. \A i \in 1..Len(D) : m[i - 1] = D[i]
  <2>1. m = [i \in DOMAIN NoSignature \cup 0..(0 + Len(D) - 1) |->
               IF i \in 0..(0 + Len(D) - 1) THEN D[i - 0 + 1] ELSE NoSignature[i]]
    BY Zenon DEF Signed, Store
  <2> TAKE i \in 1..Len(D)
  <2>2. i - 1 \in 0..(0 + Len(D) - 1) /\ (i - 1) - 0 + 1 = i
    BY <1>3
  <2> HIDE DEF m, D
  <2> QED BY <2>1, <2>2
<1>5. m[3] = Len(R)
  <2>1. 4 \in 1..Len(D) /\ 4 - 1 = 3
    BY <1>1, <1>2, <1>3
  <2> QED BY <1>4, <2>1, DerLayout
<1>6. at = 4 + Sign(r)
  <2> HIDE DEF m, R
  <2> QED BY <1>1, <1>2, <1>5 DEF SkipZero
<1>7. m[(at + N + 2) - 1] = Len(S)
  <2>1. 6 + Len(R) \in 1..Len(D) /\ (at + N + 2) - 1 = (6 + Len(R)) - 1
    <3> HIDE DEF N, m, R, S, D, at
    <3>1. 6 + Len(R) \in 1..Len(D)
      BY <1>1, <1>2, <1>3
    <3>2. N \in Int /\ Sign(r) \in Int /\ Len(R) = N + Sign(r) /\ at = 4 + Sign(r)
      BY <1>1, <1>2, <1>6
    <3>3. (at + N + 2) - 1 = (6 + Len(R)) - 1
      BY <3>2
    <3> QED BY <3>1, <3>3
  <2>2. D[6 + Len(R)] = Len(S)
    BY DerLayout
  <2> HIDE DEF m, R, S, D, at
  <2> QED BY <1>4, <2>1, <2>2
<1>8. behind = 6 + Len(R) + Sign(s)
  <2>1. at + N + 2 = 6 + Len(R)
    <3> HIDE DEF N, m, R, S, at
    <3>1. N \in Int /\ Sign(r) \in Int /\ Len(R) = N + Sign(r) /\ at = 4 + Sign(r)
      BY <1>1, <1>2, <1>6
    <3> QED BY <3>1
  <2>2. behind = IF m[(at + N + 2) - 1] = N + 1 THEN (at + N + 2) + 1 ELSE at + N + 2
    BY Zenon DEF SkipZero
  <2> HIDE DEF m, R, S, at, behind
  <2> QED BY <1>1, <1>2, <1>7, <2>1, <2>2
<1>9. \A i \in 1..N : m[at + i - 1] = r[i]
  <2> TAKE i \in 1..N
  <2>1. D[4 + (i + Sign(r))] = R[i + Sign(r)]
    <3>1. i + Sign(r) \in 1..Len(R)
      BY <1>1, <1>2
    <3> QED BY <3>1, DerLayout
  <2>2. R[i + Sign(r)] = r[i]
    BY DerNumberFull
  <2>3. 4 + (i + Sign(r)) \in 1..Len(D) /\ at + i - 1 = (4 + (i + Sign(r))) - 1
    <3> HIDE DEF N, m, R, S, D, at
    <3>1. 4 + (i + Sign(r)) \in 1..Len(D)
      BY <1>1, <1>2, <1>3, SMTT(30)
    <3>2. at + i - 1 = (4 + (i + Sign(r))) - 1
      BY <1>1, <1>2, <1>6
    <3> QED BY <3>1, <3>2
  <2> HIDE DEF m, R, S, D, at
  <2> QED BY <1>4, <2>1, <2>2, <2>3
<1>10. \A i \in 1..N : m[behind + i - 1] = s[i]
  <2> TAKE i \in 1..N
  <2>1. D[6 + Len(R) + (i + Sign(s))] = S[i + Sign(s)]
    <3>1. i + Sign(s) \in 1..Len(S)
      BY <1>1, <1>2
    <3> QED BY <3>1, DerLayout
  <2>2. S[i + Sign(s)] = s[i]
    BY DerNumberFull
  <2>3. /\ 6 + Len(R) + (i + Sign(s)) \in 1..Len(D)
        /\ behind + i - 1 = (6 + Len(R) + (i + Sign(s))) - 1
    <3> HIDE DEF N, m, R, S, D, at, behind
    <3>1. 6 + Len(R) + (i + Sign(s)) \in 1..Len(D)
      <4>1. /\ N \in Int /\ Sign(s) \in {0, 1} /\ Len(R) \in Nat
            /\ Len(D) = 6 + Len(R) + (N + Sign(s))
        BY <1>1, <1>2, <1>3
      <4>2. i \in Int /\ 1 <= i /\ i <= N
        BY <1>1
      <4> QED BY <4>1, <4>2
    <3>2. i \in Int /\ Len(R) \in Int /\ Sign(s) \in Int
      BY <1>1, <1>2
    <3>3. behind + i - 1 = (6 + Len(R) + (i + Sign(s))) - 1
      BY <1>8, <3>2
    <3> QED BY <3>1, <3>3
  <2> HIDE DEF m, R, S, D, at, behind
  <2> QED BY <1>4, <2>1, <2>2, <2>3
<1>11. r \in [1..N -> Byte] /\ s \in [1..N -> Byte]
  BY DEF FullScalars, Scalars
<1>12. ResponseSig(m, v) = << v >> \o BytesAt(m, at, N) \o BytesAt(m, behind, N)
  BY DEF ResponseSig
<1> HIDE DEF m, R, S, D, at, behind
<1>13. BytesAt(m, at, N) = r
  BY <1>9, <1>11 DEF BytesAt
<1>14. BytesAt(m, behind, N) = s
  BY <1>10, <1>11 DEF BytesAt
<1> QED BY <1>12, <1>13, <1>14 DEF m

-----------------------------------------------------------------------------
\* A reply to a signing request is what helper_send_response_sig makes of the
\* signature that was made.
FromSignature ==
  SigningReplied =>
    /\ made.r \in Scalars /\ made.s \in Scalars
    /\ reply.data = ResponseSig(Signed(made.r, made.s), made.v)

\* Every signature of two full numbers, and of whatever bytes they consist,
\* reaches the host as v, r and s: FullSignaturesExact holds in every state.
THEOREM FullSignaturesExactAlways == Spec => []FullSignaturesExact
<1>1. Init => FromSignature
  BY DEF Init, FromSignature, SigningReplied, Replied
<1>2. FromSignature /\ [Next]_vars => FromSignature'
  <2> SUFFICES ASSUME FromSignature, [Next]_vars
               PROVE  FromSignature'
    OBVIOUS
  <2>1. ASSUME NEW req \in Requests, ReplyAtOnce(req) PROVE FromSignature'
    BY <2>1 DEF ReplyAtOnce, Answer, NotShown, FromSignature, SigningReplied, Replied
  <2>2. ASSUME NEW req \in Requests, Review(req) PROVE FromSignature'
    BY <2>2 DEF Review, FromSignature, SigningReplied, Replied
  <2>3. ASSUME NEW req \in Requests, RenderFails(req) PROVE FromSignature'
    BY <2>3 DEF RenderFails, Answer, FromSignature, SigningReplied, Replied
  <2>4. CASE ApprovePubkey
    BY <2>4 DEF ApprovePubkey, Answer, FromSignature, SigningReplied, Replied
  <2>5. CASE ApproveSigning
    <3>1. PICK r \in SigningScalars, s \in SigningScalars, v \in { 0, 1 } :
            /\ made' = [v |-> v, r |-> r, s |-> s]
            /\ Answer(request, "SW_OK", ResponseSig(Signed(r, s), v))
      BY <2>5 DEF ApproveSigning
    <3>2. r \in Scalars /\ s \in Scalars
      BY ReportsAssumption
    <3>3. made'.r = r /\ made'.s = s /\ made'.v = v
      BY <3>1
    <3>4. reply'.data = ResponseSig(Signed(r, s), v)
      BY <3>1 DEF Answer
    <3> QED BY <3>2, <3>3, <3>4, Zenon DEF FromSignature
  <2>6. CASE SigningFails
    BY <2>6 DEF SigningFails, Answer, FromSignature, SigningReplied, Replied
  <2>7. CASE Reject
    BY <2>7 DEF Reject, Answer, FromSignature, SigningReplied, Replied
  <2>8. CASE UNCHANGED vars
    BY <2>8 DEF vars, FromSignature, SigningReplied, Replied
  <2> QED BY <2>1, <2>2, <2>3, <2>4, <2>5, <2>6, <2>7, <2>8 DEF Next
<1>3. FromSignature => FullSignaturesExact
  BY FullSignature DEF FromSignature, FullSignaturesExact, FullScalars
<1> QED BY <1>1, <1>2, <1>3, PTL DEF Spec

-----------------------------------------------------------------------------
\* The hash and the length of a message.

\* A digit reads as the number it was written for.
LEMMA HexDigitReads ==
  ASSUME NEW n \in 0..15
  PROVE  HexValue(HexDigit(n)) = n
BY DEF HexValue, HexDigit, ZERO

\* The text is "0x" and reads as the hash.
ReadsHash(text, h) ==
  /\ Len(text) = 66 /\ SubSeq(text, 1, 2) = HexPrefix
  /\ \A i \in 1..32 :
       16 * HexValue(text[2 * i + 1]) + HexValue(text[2 * i + 2]) = h[i]

\* "0x" and the hexadecimal text of a hash.
LEMMA HashText ==
  ASSUME NEW h \in [1..32 -> Byte]
  PROVE  LET text == HexPrefix \o Hex(h)
         IN /\ text \in Seq(Printable) /\ ReadsHash(text, h)
            /\ HexPrefix \o Terminated(Hex(h)) = Terminated(text)
<1> DEFINE x == Hex(h)
           text == HexPrefix \o x
<1>1. h \in Seq(Octets) /\ Len(h) = 32 /\ \A i \in 1..32 : h[i] \in Octets
  <2>1. h \in Seq(Byte) /\ Len(h) = 32 /\ \A i \in 1..32 : h[i] \in Byte
    <3>1. 32 \in Nat
      OBVIOUS
    <3> QED BY <3>1, SeqOfFunction
  <2> QED BY <2>1, Zenon DEF Byte, Octets
<1>2. /\ x \in Seq(HexDigits) /\ Len(x) = 64
      /\ \A i \in 1..32 : x[2 * i - 1] = HexDigit(h[i] \div 16) /\ x[2 * i] = HexDigit(h[i] % 16)
  <2>1. /\ x \in Seq(HexDigits) /\ Len(x) = 2 * Len(h)
        /\ \A i \in 1..Len(h) : /\ x[2 * i - 1] = HexDigit(h[i] \div 16)
                                 /\ x[2 * i] = HexDigit(h[i] % 16)
    BY <1>1, HexIs, Zenon
  <2> HIDE DEF x
  <2> QED BY <1>1, <2>1
<1>3. HexDigits \subseteq Printable /\ HexPrefix \in Seq(Printable) /\ Len(HexPrefix) = 2
  BY TextCharacters
<1> HIDE DEF x
<1>4. x \in Seq(Printable)
  BY <1>2, <1>3, SeqMonotonic
<1>5. /\ text \in Seq(Printable) /\ Len(text) = 66
      /\ \A i \in 1..64 : text[2 + i] = x[i]
      /\ SubSeq(text, 1, 2) = HexPrefix
  <2>1. text \in Seq(Printable) /\ Joins(text, HexPrefix, x)
    BY <1>3, <1>4, Concatenated
  <2> HIDE DEF text
  <2> QED BY <1>2, <1>3, <2>1 DEF Joins
<1>6. HexPrefix \o Terminated(x) = Terminated(text)
  BY <1>3, <1>4, TerminatedBehind
<1> HIDE DEF text
<1>7. ASSUME NEW i \in 1..32
      PROVE  16 * HexValue(text[2 * i + 1]) + HexValue(text[2 * i + 2]) = h[i]
  <2>1. 2 * i - 1 \in 1..64 /\ 2 * i \in 1..64 /\ 2 + (2 * i - 1) = 2 * i + 1 /\ 2 + 2 * i = 2 * i + 2
    OBVIOUS
  <2>2. text[2 * i + 1] = x[2 * i - 1] /\ text[2 * i + 2] = x[2 * i]
    <3>1. text[2 + (2 * i - 1)] = x[2 * i - 1] /\ text[2 + 2 * i] = x[2 * i]
      BY <1>5, <2>1
    <3> QED BY <2>1, <3>1
  <2>3. h[i] \div 16 \in 0..15 /\ h[i] % 16 \in 0..15 /\ 16 * (h[i] \div 16) + (h[i] % 16) = h[i]
    BY <1>1, HalfBytes
  <2>4. x[2 * i - 1] = HexDigit(h[i] \div 16) /\ x[2 * i] = HexDigit(h[i] % 16)
    BY <1>2
  <2>5. HexValue(text[2 * i + 1]) = h[i] \div 16 /\ HexValue(text[2 * i + 2]) = h[i] % 16
    BY <2>2, <2>3, <2>4, HexDigitReads
  <2> QED BY <2>3, <2>5
<1> QED BY <1>5, <1>6, <1>7 DEF text, x, ReadsHash

\* The length that is hashed ahead of a message reads as its length.
LEMMA LengthReads ==
  ASSUME NEW n \in Nat, n < Hardened
  PROVE  IsNumeral(LengthText(n)) /\ ReadNumber(LengthText(n)) = n
<1> DEFINE text == Decimal(n)
<1>1. Len(text) < LenStrSize
  <2>1. n \in 0..(Hardened - 1)
    BY LenStrAssumption
  <2> QED BY <2>1, LenStrAssumption
<1>2. text \in Seq(Digits) /\ IsNumeral(text) /\ ReadNumber(text) = n
  BY DecimalReads
<1>3. LengthText(n) = SubSeq(text, 1, Min({ Len(text), LenStrSize - 1 }))
  BY DEF LengthText
<1> HIDE DEF text
<1>4. Len(text) \in Int /\ LenStrSize - 1 \in Int /\ Len(text) <= LenStrSize - 1
  BY <1>1, <1>2, ReportsAssumption
<1>5. Min({ Len(text), LenStrSize - 1 }) = Len(text)
  BY <1>4, MinOfTwo
<1>6. SubSeq(text, 1, Len(text)) = text
  BY <1>2
<1> QED BY <1>2, <1>3, <1>5, <1>6

\* The review of a message shows its hash.
LEMMA MessageShown ==
  ASSUME NEW req \in Requests, req.ins = "SIGN_PERSONAL", DOMAIN strings \subseteq Int,
         LengthFits(req.chain, AddressSize)
  PROVE  TextAt(RenderSignPersonal(req).strings, HashAt) = HexPrefix \o Hex(req.hash)
<1> DEFINE h == req.hash
           m == Store(strings, SignerAt, PathAddress(req.path, req.chain))
           text == HexPrefix \o Hex(h)
<1>1. h \in [1..32 -> Byte]
  BY RequestsAssumption
<1>2. Len(h) = 32
  BY <1>1
<1>3. FormatHex(h, HashSize - 2) = Terminated(Hex(h))
  BY <1>2, ReportsAssumption DEF FormatHex
<1>4. RenderSignPersonal(req).strings = Store(m, HashAt, HexPrefix \o FormatHex(h, HashSize - 2))
  BY DEF RenderSignPersonal
<1>5. DOMAIN m \subseteq Int
  BY StoreDomain
<1>6. HashAt \in Int
  BY ReportsAssumption DEF HashAt
<1> HIDE DEF h, m
<1>7. text \in Seq(Printable) /\ HexPrefix \o Terminated(Hex(h)) = Terminated(text)
  BY <1>1, HashText
<1> HIDE DEF text
<1>8. Len(Terminated(text)) \in Nat
  BY <1>7 DEF Terminated
<1>9. /\ Holds(Store(m, HashAt, Terminated(text)), HashAt, Terminated(text))
      /\ DOMAIN Store(m, HashAt, Terminated(text)) \subseteq Int
  BY <1>5, <1>6, <1>8, StoreHolds, StoreDomain
<1>10. NUL \notin Printable
  BY DEF NUL, Printable
<1>11. TextAt(Store(m, HashAt, Terminated(text)), HashAt) = text
  BY <1>6, <1>7, <1>9, <1>10, HoldsText
<1> QED BY <1>3, <1>4, <1>7, <1>11 DEF text, h

\* A review that is on the screen changes neither its texts nor its request;
\* the cells of the strings are numbered.
MessageInv == MessageExact /\ DOMAIN strings \subseteq Int

\* The texts of a review lie in numbered cells.
LEMMA RenderDomain ==
  ASSUME NEW req \in Requests, DOMAIN strings \subseteq Int
  PROVE  DOMAIN Render(req).strings \subseteq Int
<1>1. CASE req.ins = "GET_PUBLIC_KEY"
  <2>1. Render(req) = RenderGetPubkey(req)
    BY <1>1 DEF Render
  <2>2. DOMAIN RenderGetPubkey(req).strings \subseteq Int
    BY StoreDomain DEF RenderGetPubkey
  <2> QED BY <2>1, <2>2
<1>2. CASE req.ins = "SIGN_TX"
  <2>1. Render(req) = RenderSignTx(req)
    BY <1>2 DEF Render
  <2>2. DOMAIN RenderSignTx(req).strings \subseteq Int
    BY StoreDomain DEF RenderSignTx
  <2> QED BY <2>1, <2>2
<1>3. CASE req.ins = "SIGN_PERSONAL"
  <2>1. Render(req) = RenderSignPersonal(req)
    BY <1>3 DEF Render
  <2>2. DOMAIN RenderSignPersonal(req).strings \subseteq Int
    BY StoreDomain DEF RenderSignPersonal
  <2> QED BY <2>1, <2>2
<1> QED BY <1>1, <1>2, <1>3, RequestsAssumption

\* The hash on the screen is the hash of the message, and the length hashed
\* ahead of it reads as its length: MessageExact holds in every state.
THEOREM MessageExactAlways == Spec => []MessageExact
<1>1. Init => MessageInv
  <2> SUFFICES ASSUME Init PROVE MessageInv
    OBVIOUS
  <2>1. DOMAIN strings \subseteq Int
    BY DEF Init, Strings
  <2> QED BY <2>1 DEF Init, MessageInv, MessageExact, Reviewing
<1>2. MessageInv /\ [Next]_vars => MessageInv'
  <2> SUFFICES ASSUME MessageInv, [Next]_vars PROVE MessageInv'
    OBVIOUS
  <2>1. ASSUME NEW req \in Requests, ReplyAtOnce(req) PROVE MessageInv'
    BY <2>1 DEF ReplyAtOnce, MessageInv, MessageExact, Reviewing
  <2>2. ASSUME NEW req \in Requests, Review(req) PROVE MessageInv'
    <3>1. /\ Render(req).sw = "SW_OK" /\ strings' = Render(req).strings /\ request' = req
          /\ announced' = IF req.ins = "SIGN_PERSONAL" THEN LengthText(req.length) ELSE << >>
      BY <2>2 DEF Review
    <3>2. (DOMAIN strings)' \subseteq Int
      BY <3>1, RenderDomain DEF MessageInv
    <3>3. CASE req.ins # "SIGN_PERSONAL"
      BY <3>1, <3>2, <3>3 DEF MessageInv, MessageExact, Reviewing
    <3>4. CASE req.ins = "SIGN_PERSONAL"
      <4>1. Render(req) = RenderSignPersonal(req)
        BY <3>4 DEF Render
      <4>2. LengthFits(req.chain, AddressSize)
        BY <3>1, <4>1 DEF RenderSignPersonal
      <4>3. TextAt(strings', HashAt) = HexPrefix \o Hex(req.hash)
        BY <3>1, <3>4, <4>1, <4>2, MessageShown DEF MessageInv
      <4>4. req.hash \in [1..32 -> Byte] /\ req.length \in Nat
        <5>1. { req.chain, req.length } \subseteq 0..(2^WordBits - 1) /\ req.hash \in [1..32 -> Byte]
          BY <3>4, RequestsAssumption, Zenon
        <5>2. req.length \in 0..(2^WordBits - 1)
          BY <5>1, Zenon
        <5> QED BY <5>1, <5>2
      <4>5. ReadsHash(HexPrefix \o Hex(req.hash), req.hash)
        BY <4>4, HashText
      <4>6. req.length < Hardened => IsNumeral(announced') /\ ReadNumber(announced') = req.length
        BY <3>1, <3>4, <4>4, LengthReads
      <4>7. MessageExact'
        <5> DEFINE text == HexPrefix \o Hex(req.hash)
        <5>1. ReadsHash(text, req.hash)
          BY <4>5
        <5>2. TextAt(strings', HashAt) = text
          BY <4>3
        <5> HIDE DEF text
        <5> QED BY <3>1, <4>6, <5>1, <5>2 DEF MessageExact, ReadsHash
      <4> QED BY <3>2, <4>7 DEF MessageInv
    <3> QED BY <3>3, <3>4
  <2>3. ASSUME NEW req \in Requests, RenderFails(req) PROVE MessageInv'
    <3>1. strings' = Render(req).strings /\ pc' = "menu"
      BY <2>3 DEF RenderFails, ResetContext
    <3>2. (DOMAIN strings)' \subseteq Int
      BY <3>1, RenderDomain DEF MessageInv
    <3> QED BY <3>1, <3>2 DEF MessageInv, MessageExact, Reviewing
  <2>4. CASE ApprovePubkey
    BY <2>4 DEF ApprovePubkey, ResetContext, MessageInv, MessageExact, Reviewing
  <2>5. CASE ApproveSigning
    BY <2>5 DEF ApproveSigning, ResetContext, MessageInv, MessageExact, Reviewing
  <2>6. CASE SigningFails
    BY <2>6 DEF SigningFails, ResetContext, MessageInv, MessageExact, Reviewing
  <2>7. CASE Reject
    BY <2>7 DEF Reject, ResetContext, MessageInv, MessageExact, Reviewing
  <2>8. CASE UNCHANGED vars
    BY <2>8 DEF vars, MessageInv, MessageExact, Reviewing
  <2> QED BY <2>1, <2>2, <2>3, <2>4, <2>5, <2>6, <2>7, <2>8 DEF Next
<1>3. MessageInv => MessageExact
  BY DEF MessageInv
<1> QED BY <1>1, <1>2, <1>3, PTL DEF Spec

-----------------------------------------------------------------------------
\* FlattenSeq.

\* f flattens the first of the sequences.
Flattens(f, seqs) ==
  f = [i \in 1..Len(seqs) |-> IF i = 1 THEN seqs[i] ELSE f[i - 1] \o seqs[i]]

\* FlattenSeq as a function of the number of sequences.
LEMMA FlattenIs ==
  ASSUME NEW seqs
  PROVE  FlattenSeq(seqs) = IF Len(seqs) = 0 THEN seqs
                            ELSE (CHOOSE f : Flattens(f, seqs))[Len(seqs)]
BY DEF FlattenSeq, Flattens

\* There is such a function.
LEMMA FlattenerExists ==
  ASSUME NEW S, NEW seqs \in Seq(Seq(S))
  PROVE  \E f \in [1..Len(seqs) -> Seq(S)] : Flattens(f, seqs)
<1> DEFINE n == Len(seqs)
           step == [p \in (1..n) \X Seq(S) |-> p[2] \o seqs[p[1]]]
<1>1. n \in Nat /\ \A i \in 1..n : seqs[i] \in Seq(S)
  OBVIOUS
<1> HIDE DEF n
<1>2. step \in [(1..n) \X Seq(S) -> Seq(S)]
  <2> SUFFICES ASSUME NEW i \in 1..n, NEW s \in Seq(S) PROVE s \o seqs[i] \in Seq(S)
    OBVIOUS
  <2> QED BY <1>1
<1>3. << >> \in Seq(S)
  OBVIOUS
<1>4. PICK g \in [0..n -> Seq(S)] : g[0] = << >> /\ \A k \in 1..n : g[k] = step[<< k, g[k - 1] >>]
  <2> DEFINE A == Seq(S)
  <2>1. << >> \in A /\ step \in [(1..n) \X A -> A]
    BY <1>2, <1>3
  <2> HIDE DEF A, step
  <2>2. \E f \in [0..n -> A] : Recurs(f, << >>, n, step)
    BY <1>1, <2>1, Recursion
  <2> QED BY <2>2 DEF A, Recurs
<1> DEFINE f == [i \in 1..n |-> g[i]]
<1>5. f \in [1..n -> Seq(S)]
  OBVIOUS
<1>6. ASSUME NEW i \in 1..n PROVE g[i] = IF i = 1 THEN seqs[i] ELSE f[i - 1] \o seqs[i]
  <2>1. i - 1 \in 0..n /\ g[i - 1] \in Seq(S)
    BY <1>1
  <2>2. g[i] = g[i - 1] \o seqs[i]
    <3>1. << i, g[i - 1] >> \in (1..n) \X Seq(S)
      BY <2>1
    <3>2. g[i] = step[<< i, g[i - 1] >>]
      BY <1>4
    <3> QED BY <3>1, <3>2
  <2>3. CASE i = 1
    <3>1. g[i - 1] = << >>
      BY <1>4, <2>3
    <3>2. << >> \o seqs[i] = seqs[i]
      BY <1>1
    <3> QED BY <2>2, <2>3, <3>1, <3>2
  <2>4. CASE i # 1
    <3>1. i - 1 \in 1..n
      BY <1>1, <2>4
    <3>2. f[i - 1] = g[i - 1]
      BY <3>1
    <3> QED BY <2>2, <2>4, <3>2
  <2> QED BY <2>3, <2>4
<1>7. Flattens(f, seqs)
  <2> DEFINE h == [i \in 1..n |-> IF i = 1 THEN seqs[i] ELSE f[i - 1] \o seqs[i]]
  <2>1. f = h
    BY <1>6
  <2> QED BY <2>1 DEF Flattens, n
<1> HIDE DEF f
<1> QED BY <1>5, <1>7 DEF n

\* It depends on the sequences so far only.
LEMMA FlattenersAgree ==
  ASSUME NEW a, NEW b, NEW f, NEW g, NEW n \in Nat, Len(a) \in Nat, Len(b) \in Nat,
         n <= Len(a), n <= Len(b), Agree(a, b, n),
         Flattens(f, a), Flattens(g, b)
  PROVE  Agree(f, g, n)
<1> DEFINE T == { m \in Nat : m + 1 <= n => f[m + 1] = g[m + 1] }
<1>1. ASSUME NEW k \in 1..n
      PROVE  /\ f[k] = IF k = 1 THEN a[k] ELSE f[k - 1] \o a[k]
             /\ g[k] = IF k = 1 THEN b[k] ELSE g[k - 1] \o b[k]
             /\ a[k] = b[k]
  <2>1. k \in 1..Len(a) /\ k \in 1..Len(b) /\ a[k] = b[k]
    BY DEF Agree
  <2>2. f[k] = IF k = 1 THEN a[k] ELSE f[k - 1] \o a[k]
    <3> DEFINE h == [i \in 1..Len(a) |-> IF i = 1 THEN a[i] ELSE f[i - 1] \o a[i]]
    <3>1. f = h
      BY DEF Flattens
    <3>2. h[k] = IF k = 1 THEN a[k] ELSE f[k - 1] \o a[k]
      BY <2>1
    <3> HIDE DEF h
    <3> QED BY <3>1, <3>2
  <2>3. g[k] = IF k = 1 THEN b[k] ELSE g[k - 1] \o b[k]
    <3> DEFINE h == [i \in 1..Len(b) |-> IF i = 1 THEN b[i] ELSE g[i - 1] \o b[i]]
    <3>1. g = h
      BY DEF Flattens
    <3>2. h[k] = IF k = 1 THEN b[k] ELSE g[k - 1] \o b[k]
      BY <2>1
    <3> HIDE DEF h
    <3> QED BY <3>1, <3>2
  <2> QED BY <2>1, <2>2, <2>3
<1>2. 0 \in T
  <2> SUFFICES ASSUME 1 <= n PROVE f[1] = g[1]
    OBVIOUS
  <2>1. 1 \in 1..n
    OBVIOUS
  <2> QED BY <1>1, <2>1
<1>3. ASSUME NEW m \in Nat, m \in T PROVE m + 1 \in T
  <2> SUFFICES ASSUME m + 2 <= n PROVE f[m + 2] = g[m + 2]
    OBVIOUS
  <2>1. m + 2 \in 1..n /\ m + 2 # 1 /\ (m + 2) - 1 = m + 1
    OBVIOUS
  <2>2. f[m + 1] = g[m + 1]
    BY <1>3
  <2> QED BY <1>1, <2>1, <2>2
<1> HIDE DEF T
<1>4. Nat \subseteq T
  BY <1>2, <1>3, Induction
<1> SUFFICES ASSUME NEW k \in 1..n PROVE f[k] = g[k]
  BY DEF Agree
<1>5. k - 1 \in T /\ (k - 1) + 1 = k /\ k <= n
  BY <1>4
<1> QED BY <1>5 DEF T

\* One sequence more is put behind.
LEMMA FlattenAppend ==
  ASSUME NEW S, NEW seqs \in Seq(Seq(S)), NEW s \in Seq(S)
  PROVE  /\ FlattenSeq(seqs) \in Seq(S)
         /\ FlattenSeq(Append(seqs, s)) = FlattenSeq(seqs) \o s
<1> DEFINE n == Len(seqs)
           more == Append(seqs, s)
           F == CHOOSE f : Flattens(f, seqs)
           G == CHOOSE f : Flattens(f, more)
<1>1. /\ n \in Nat /\ more \in Seq(Seq(S)) /\ Len(more) = n + 1 /\ more[n + 1] = s
      /\ \A i \in 1..n : more[i] = seqs[i]
  OBVIOUS
<1>2. PICK f \in [1..n -> Seq(S)] : Flattens(f, seqs)
  BY FlattenerExists
<1>3. PICK g : Flattens(g, more)
  <2> HIDE DEF more
  <2> QED BY <1>1, FlattenerExists
<1>4. Flattens(F, seqs) /\ Flattens(G, more)
  BY <1>2, <1>3, Zenon
<1> HIDE DEF F, G, more
<1>5. \A k \in 1..n : F[k] = f[k] /\ G[k] = F[k]
  <2>1. n <= Len(seqs) /\ Len(seqs) \in Nat /\ n <= Len(more) /\ Len(more) \in Nat
    BY <1>1
  <2>2. Agree(seqs, seqs, n) /\ Agree(more, seqs, n)
    BY <1>1 DEF Agree
  <2> HIDE DEF n
  <2>3. Agree(F, f, n) /\ Agree(G, F, n)
    BY <1>1, <1>2, <1>4, <2>1, <2>2, FlattenersAgree
  <2> QED BY <2>3 DEF Agree
<1>6. G[n + 1] = IF n + 1 = 1 THEN s ELSE G[n] \o s
  <2> DEFINE h == [i \in 1..Len(more) |-> IF i = 1 THEN more[i] ELSE G[i - 1] \o more[i]]
  <2>1. G = h
    BY <1>4 DEF Flattens
  <2>2. n + 1 \in 1..Len(more) /\ (n + 1) - 1 = n
    BY <1>1
  <2>3. h[n + 1] = IF n + 1 = 1 THEN more[n + 1] ELSE G[n] \o more[n + 1]
    BY <2>2
  <2> HIDE DEF h
  <2> QED BY <1>1, <2>1, <2>3
<1>7. FlattenSeq(more) = G[n + 1]
  BY <1>1, FlattenIs DEF G
<1>8. CASE n = 0
  <2>1. FlattenSeq(seqs) = seqs /\ seqs = << >>
    BY <1>8, FlattenIs
  <2>2. << >> \o s = s
    OBVIOUS
  <2> QED BY <1>6, <1>7, <1>8, <2>1, <2>2 DEF more
<1>9. CASE n # 0
  <2>1. n \in 1..n /\ n + 1 # 1
    BY <1>1, <1>9
  <2>2. FlattenSeq(seqs) = F[n]
    BY <1>9, FlattenIs DEF F
  <2>3. F[n] \in Seq(S) /\ G[n] = F[n]
    BY <1>2, <1>5, <2>1
  <2> QED BY <1>6, <1>7, <2>1, <2>2, <2>3 DEF more
<1> QED BY <1>8, <1>9

\* Nothing is flattened to nothing.
LEMMA FlattenNothing == FlattenSeq(<< >>) = << >>
BY FlattenIs

-----------------------------------------------------------------------------
\* What is cut where a text ends.

\* Characters of the first pieces.
Upto(pieces, m) == Len(FlattenSeq(SubSeq(pieces, 1, m)))

\* Each piece adds its characters.
LEMMA UptoIs ==
  ASSUME NEW C, NEW pieces \in Seq(Seq(C))
  PROVE  /\ Upto(pieces, 0) = 0
         /\ \A m \in 0..Len(pieces) : Upto(pieces, m) \in Nat
         /\ \A m \in 1..Len(pieces) :
              Upto(pieces, m) = Upto(pieces, m - 1) + Len(pieces[m])
         /\ Upto(pieces, Len(pieces)) = Len(FlattenSeq(pieces))
<1> DEFINE n == Len(pieces)
<1>1. n \in Nat
  OBVIOUS
<1>2. Upto(pieces, 0) = 0
  <2>1. SubSeq(pieces, 1, 0) = << >> /\ Len(<< >>) = 0
    OBVIOUS
  <2> QED BY <2>1, FlattenNothing DEF Upto
<1>3. ASSUME NEW m \in 0..n PROVE Upto(pieces, m) \in Nat
  <2> DEFINE D == Seq(C)
             x == SubSeq(pieces, 1, m)
  <2>1. x \in Seq(D)
    OBVIOUS
  <2>2. << >> \in D
    OBVIOUS
  <2> HIDE DEF x
  <2>3. FlattenSeq(x) \in Seq(C)
    BY <2>1, <2>2, FlattenAppend
  <2> QED BY <2>3 DEF Upto, x
<1>4. ASSUME NEW m \in 1..n PROVE Upto(pieces, m) = Upto(pieces, m - 1) + Len(pieces[m])
  <2> DEFINE D == Seq(C)
             x == SubSeq(pieces, 1, m - 1)
             s == pieces[m]
  <2>1. x \in Seq(D) /\ s \in D
    OBVIOUS
  <2>2. SubSeq(pieces, 1, m) = Append(x, s)
    <3> HIDE DEF D
    <3> DEFINE a == SubSeq(pieces, 1, m)
               b == Append(x, s)
    <3>0. pieces \in Seq(D)
      BY DEF D
    <3>1. a \in Seq(D) /\ Len(a) = m /\ \A i \in 1..m : a[i] = pieces[i]
      BY <1>1, <3>0
    <3>2. b \in Seq(D) /\ Len(b) = m /\ \A i \in 1..m : b[i] = pieces[i]
      BY <1>1, <2>1, <3>0
    <3> HIDE DEF a, b
    <3>3. a = b
      BY <3>1, <3>2
    <3> QED BY <3>3 DEF a, b
  <2> HIDE DEF x, s
  <2>3. FlattenSeq(x) \in Seq(C) /\ FlattenSeq(Append(x, s)) = FlattenSeq(x) \o s
    BY <2>1, FlattenAppend
  <2>4. PICK y : y = FlattenSeq(x)
    OBVIOUS
  <2>5. Len(y \o s) = Len(y) + Len(s)
    BY <2>1, <2>3, <2>4
  <2> QED BY <2>2, <2>3, <2>4, <2>5 DEF Upto, x, s
<1>5. SubSeq(pieces, 1, n) = pieces
  <2> DEFINE D == Seq(C)
  <2>1. pieces \in Seq(D)
    OBVIOUS
  <2> HIDE DEF D
  <2> QED BY <2>1
<1> QED BY <1>2, <1>3, <1>4, <1>5 DEF Upto

\* f is where each piece ends in the field.
Offsets(f, pieces) ==
  f = [k \in 0..Len(pieces) |->
         IF k = 0 THEN 0 ELSE Min({ f[k - 1] + Len(pieces[k]), PathSize - 1 })]

\* PathText with the ends of the pieces.
LEMMA PathTextIs ==
  ASSUME NEW path
  PROVE  LET pieces == Pieces(path)
             offset == CHOOSE f : Offsets(f, pieces)
         IN PathText(path)
              = [ text |-> SubSeq(FlattenSeq(pieces), 1, offset[Len(pieces)]),
                  ok   |-> \A k \in DOMAIN pieces : offset[k] > offset[k - 1] ]
BY DEF PathText, Offsets

\* There is such a function.
LEMMA OffsetterExists ==
  ASSUME NEW C, NEW pieces \in Seq(Seq(C))
  PROVE  \E f : Offsets(f, pieces)
<1> DEFINE n == Len(pieces)
           next(x, k) == Min({ x + Len(pieces[k]), PathSize - 1 })
           step == [p \in (1..n) \X Nat |-> next(p[2], p[1])]
<1>1. n \in Nat
  OBVIOUS
<1>2. ASSUME NEW x \in Nat, NEW k \in 1..n PROVE next(x, k) \in Nat
  <2>1. PathSize - 1 \in Nat
    <3>1. PathSize \in Nat \ {0}
      BY ReportsAssumption
    <3> QED BY <3>1
  <2>2. x + Len(pieces[k]) \in Nat
    OBVIOUS
  <2>3. PICK a, b : a = x + Len(pieces[k]) /\ b = PathSize - 1
    OBVIOUS
  <2>4. a \in Nat /\ b \in Nat
    BY <2>1, <2>2, <2>3
  <2>5. Min({ a, b }) = IF a <= b THEN a ELSE b
    BY <2>4, MinOfTwo
  <2>6. Min({ a, b }) \in Nat
    BY <2>4, <2>5
  <2> QED BY <2>3, <2>6
<1> HIDE DEF n, next
<1>3. step \in [(1..n) \X Nat -> Nat]
  BY <1>2
<1>4. \A x \in Nat, k \in 1..n : step[<< k, x >>] = next(x, k)
  OBVIOUS
<1> HIDE DEF step
<1>5. PICK g \in [0..n -> Nat] : Recurs(g, 0, n, step)
  BY <1>1, <1>3, Recursion
<1>6. ASSUME NEW k \in 0..n PROVE g[k] = IF k = 0 THEN 0 ELSE next(g[k - 1], k)
  <2>1. CASE k = 0
    BY <1>5, <2>1 DEF Recurs
  <2>2. CASE k # 0
    <3>1. k \in 1..n /\ k - 1 \in 0..n
      BY <1>1, <2>2
    <3>2. g[k] = step[<< k, g[k - 1] >>]
      BY <1>5, <3>1 DEF Recurs
    <3>3. g[k - 1] \in Nat
      BY <3>1
    <3> QED BY <1>4, <2>2, <3>1, <3>2, <3>3
  <2> QED BY <2>1, <2>2
<1>7. g = [k \in 0..n |-> IF k = 0 THEN 0 ELSE next(g[k - 1], k)]
  <2> DEFINE h == [k \in 0..n |-> IF k = 0 THEN 0 ELSE next(g[k - 1], k)]
  <2>1. g = h
    BY <1>6
  <2> QED BY <2>1
<1> QED BY <1>7 DEF Offsets, n, next

\* As long as there is room, the offset is the length so far.
LEMMA OffsetsAre ==
  ASSUME NEW C, NEW pieces \in Seq(Seq(C)), NEW f, Offsets(f, pieces),
         NEW m \in 0..Len(pieces)
  PROVE  f[m] = IF Upto(pieces, m) <= PathSize - 1 THEN Upto(pieces, m) ELSE PathSize - 1
<1> DEFINE n == Len(pieces)
           u(k) == Upto(pieces, k)
           Right(k) == f[k] = IF u(k) <= PathSize - 1 THEN u(k) ELSE PathSize - 1
           T == { k \in Nat : k <= n => Right(k) }
<1>1. /\ n \in Nat /\ u(0) = 0 /\ \A k \in 0..n : u(k) \in Nat
      /\ \A k \in 1..n : u(k) = u(k - 1) + Len(pieces[k])
  BY UptoIs
<1>2. PathSize \in Nat \ {0}
  BY ReportsAssumption
<1>3. ASSUME NEW k \in 0..n
      PROVE  f[k] = IF k = 0 THEN 0 ELSE Min({ f[k - 1] + Len(pieces[k]), PathSize - 1 })
  <2> DEFINE h == [j \in 0..Len(pieces) |->
                     IF j = 0 THEN 0 ELSE Min({ f[j - 1] + Len(pieces[j]), PathSize - 1 })]
  <2>1. f = h
    BY DEF Offsets
  <2>2. h[k] = IF k = 0 THEN 0 ELSE Min({ f[k - 1] + Len(pieces[k]), PathSize - 1 })
    OBVIOUS
  <2> HIDE DEF h
  <2> QED BY <2>1, <2>2
<1>4. \A k \in 1..n : Len(pieces[k]) \in Nat
  OBVIOUS
<1> HIDE DEF n, u
<1>5. 0 \in T
  <2>1. 0 \in 0..n /\ 0 <= PathSize - 1
    BY <1>1, <1>2
  <2>2. f[0] = 0
    BY <1>3, <2>1
  <2> QED BY <1>1, <2>1, <2>2
<1>6. ASSUME NEW k \in Nat, k \in T PROVE k + 1 \in T
  <2> SUFFICES ASSUME k + 1 <= n PROVE Right(k + 1)
    OBVIOUS
  <2>1. k \in 0..n /\ k + 1 \in 1..n /\ k + 1 \in 0..n /\ k + 1 # 0 /\ (k + 1) - 1 = k
    BY <1>1
  <2>2. PICK a, b, c, d : a = u(k) /\ b = u(k + 1) /\ c = f[k] /\ d = Len(pieces[k + 1])
    OBVIOUS
  <2>3. a \in Nat /\ b = a + d /\ d \in Nat
    BY <1>1, <1>4, <2>1, <2>2
  <2>4. c = IF a <= PathSize - 1 THEN a ELSE PathSize - 1
    BY <1>6, <2>1, <2>2
  <2>5. c \in Nat
    BY <1>2, <2>3, <2>4
  <2>6. f[k + 1] = Min({ c + d, PathSize - 1 })
    BY <1>3, <2>1, <2>2
  <2>7. Min({ c + d, PathSize - 1 }) = IF c + d <= PathSize - 1 THEN c + d ELSE PathSize - 1
    <3>1. PICK i, j : i = c + d /\ j = PathSize - 1
      OBVIOUS
    <3>2. i \in Int /\ j \in Int
      BY <1>2, <2>3, <2>5, <3>1
    <3>3. Min({ i, j }) = IF i <= j THEN i ELSE j
      BY <3>2, MinOfTwo
    <3> QED BY <3>1, <3>3
  <2>8. f[k + 1] = IF b <= PathSize - 1 THEN b ELSE PathSize - 1
    BY <1>2, <2>3, <2>4, <2>6, <2>7
  <2> QED BY <2>2, <2>8
<1> HIDE DEF T
<1>7. Nat \subseteq T
  BY <1>5, <1>6, Induction
<1>8. m \in T /\ m \in Nat /\ m <= n
  BY <1>1, <1>7 DEF n
<1> QED BY <1>8 DEF T, u

\* The text of a path with x and then y as its pieces.
CutIn(path, x, y) ==
  LET whole == FlattenSeq(x) \o y
      long  == Len(FlattenSeq(x))
  IN /\ FlattenSeq(Pieces(path)) = whole
     /\ Len(whole) = long + Len(y) /\ long \in Nat
     /\ PathText(path).ok =>
          /\ long < PathSize - 1
          /\ PathText(path).text
               = SubSeq(whole, 1, IF Len(whole) <= PathSize - 1 THEN Len(whole)
                                  ELSE PathSize - 1)
     /\ PathText(path).ok \/ Len(whole) >= PathSize

\* The room is used up by the last piece at the earliest, or the text is too
\* long.
LEMMA CutAtTheEnd ==
  ASSUME NEW C, NEW x \in Seq(Seq(C) \ {<< >>}),
         NEW y \in Seq(C) \ {<< >>}, NEW path,
         Pieces(path) = Append(x, y)
  PROVE  CutIn(path, x, y)
<1> DEFINE p == Append(x, y)
           n == Len(x)
           F == CHOOSE f : Offsets(f, p)
           u(k) == Upto(p, k)
           ok == \A k \in 1..(n + 1) : F[k] > F[k - 1]
<1>1. /\ p \in Seq(Seq(C)) /\ n \in Nat /\ Len(p) = n + 1 /\ DOMAIN p = 1..(n + 1)
      /\ x \in Seq(Seq(C)) /\ \A k \in 1..(n + 1) : p[k] # << >> /\ p[k] \in Seq(C)
      /\ p[n + 1] = y
  <2> DEFINE D == Seq(C)
             E == D \ {<< >>}
  <2>1. x \in Seq(E) /\ y \in E /\ E \subseteq D
    OBVIOUS
  <2> HIDE DEF D, E
  <2>2. p \in Seq(E) /\ n \in Nat /\ Len(p) = n + 1 /\ DOMAIN p = 1..(n + 1) /\ p[n + 1] = y
    BY <2>1
  <2>3. p \in Seq(D) /\ x \in Seq(D) /\ \A k \in 1..(n + 1) : p[k] \in E
    BY <2>1, <2>2
  <2> QED BY <2>2, <2>3 DEF D, E
<1>2. /\ FlattenSeq(x) \in Seq(C) /\ FlattenSeq(p) = FlattenSeq(x) \o y
  BY <1>1, FlattenAppend
<1>3. /\ \A k \in 0..(n + 1) : u(k) \in Nat
      /\ \A k \in 1..(n + 1) : u(k) = u(k - 1) + Len(p[k]) /\ Len(p[k]) \in Nat \ {0}
      /\ u(n + 1) = Len(FlattenSeq(p))
  <2>1. \A k \in 1..(n + 1) : Len(p[k]) \in Nat \ {0}
    BY <1>1
  <2> HIDE DEF p
  <2> QED BY <1>1, <2>1, UptoIs
<1>4. /\ PathText(path).text = SubSeq(FlattenSeq(p), 1, F[n + 1])
      /\ PathText(path).ok = ok
  <2>1. PathText(path) = [ text |-> SubSeq(FlattenSeq(p), 1, F[Len(p)]),
                           ok   |-> \A k \in DOMAIN p : F[k] > F[k - 1] ]
    BY PathTextIs
  <2>2. PICK a, b : /\ a = SubSeq(FlattenSeq(p), 1, F[Len(p)])
                    /\ b = (\A k \in DOMAIN p : F[k] > F[k - 1])
    OBVIOUS
  <2>3. PathText(path).text = a /\ PathText(path).ok = b
    <3>1. PathText(path) = [text |-> a, ok |-> b]
      BY <2>1, <2>2, Zenon
    <3> QED BY <3>1
  <2> HIDE DEF p, F
  <2>4. PathText(path).text = SubSeq(FlattenSeq(p), 1, F[n + 1])
    BY <1>1, <2>2, <2>3, Zenon
  <2>5. b = ok
    BY <1>1, <2>2, Zenon
  <2> QED BY <2>3, <2>4, <2>5, Zenon
<1>5. Offsets(F, p)
  <2> HIDE DEF p
  <2> QED BY <1>1, OffsetterExists, Zenon
<1> HIDE DEF p, F
<1>6. ASSUME NEW k \in 0..(n + 1)
      PROVE  F[k] = IF u(k) <= PathSize - 1 THEN u(k) ELSE PathSize - 1
  BY <1>1, <1>5, OffsetsAre
<1>7. u(n) = Len(FlattenSeq(x)) /\ u(n + 1) = u(n) + Len(y) /\ PathSize \in Nat \ {0}
  <2>1. SubSeq(p, 1, n) = x
    <3> DEFINE D == Seq(C)
    <3>1. x \in Seq(D) /\ y \in D
      BY <1>1
    <3> HIDE DEF D
    <3> QED BY <3>1 DEF p
  <2>2. n + 1 \in 1..(n + 1) /\ (n + 1) - 1 = n
    BY <1>1
  <2> QED BY <1>1, <1>3, <2>1, <2>2, ReportsAssumption DEF Upto
<1> HIDE DEF n, u
<1>8. ASSUME ok PROVE u(n) < PathSize - 1
  <2>1. n \in 0..(n + 1) /\ n + 1 \in 1..(n + 1) /\ n + 1 \in 0..(n + 1) /\ (n + 1) - 1 = n
    BY <1>1
  <2>2. F[n + 1] > F[n]
    BY <1>8, <2>1
  <2>3. PICK a, b : a = u(n + 1) /\ b = u(n)
    OBVIOUS
  <2>4. a \in Nat /\ b \in Nat
    BY <1>3, <2>1, <2>3
  <2>5. /\ F[n + 1] = IF a <= PathSize - 1 THEN a ELSE PathSize - 1
        /\ F[n] = IF b <= PathSize - 1 THEN b ELSE PathSize - 1
    BY <1>6, <2>1, <2>3
  <2>6. b < PathSize - 1
    BY <1>7, <2>2, <2>4, <2>5
  <2> QED BY <2>3, <2>6
<1>9. ASSUME ~ok PROVE u(n + 1) >= PathSize
  <2>1. PICK k \in 1..(n + 1) : ~(F[k] > F[k - 1])
    BY <1>9
  <2>2. k \in 0..(n + 1) /\ k - 1 \in 0..(n + 1)
    BY <1>1
  <2>3. u(k) >= PathSize
    <3>1. PICK a, b : a = u(k) /\ b = u(k - 1)
      OBVIOUS
    <3>2. a \in Nat /\ b \in Nat /\ a > b
      <4>1. PICK c : c = Len(p[k])
        OBVIOUS
      <4>2. a \in Nat /\ b \in Nat
        BY <1>3, <2>2, <3>1, Zenon
      <4>3. a = b + c /\ c \in Nat \ {0}
        BY <1>3, <3>1, <4>1, Zenon
      <4> QED BY <4>2, <4>3
    <3>3. /\ F[k] = IF a <= PathSize - 1 THEN a ELSE PathSize - 1
          /\ F[k - 1] = IF b <= PathSize - 1 THEN b ELSE PathSize - 1
      BY <1>6, <2>2, <3>1
    <3>4. a >= PathSize
      BY <1>7, <2>1, <3>2, <3>3
    <3> QED BY <3>1, <3>4
  <2>4. u(k) <= u(n + 1)
    <3> DEFINE T == { j \in Nat : k + j <= n + 1 => u(k) <= u(k + j) }
    <3>1. 0 \in T
      BY <1>3, <2>2
    <3>2. ASSUME NEW j \in Nat, j \in T PROVE j + 1 \in T
      <4> SUFFICES ASSUME k + (j + 1) <= n + 1 PROVE u(k) <= u(k + (j + 1))
        OBVIOUS
      <4>1. k + (j + 1) \in 1..(n + 1) /\ (k + (j + 1)) - 1 = k + j /\ k + j <= n + 1 /\ k + j \in 0..(n + 1)
        BY <1>1
      <4>2. u(k) <= u(k + j)
        BY <3>2, <4>1
      <4>3. u(k + (j + 1)) = u(k + j) + Len(p[k + (j + 1)]) /\ Len(p[k + (j + 1)]) \in Nat
        BY <1>3, <4>1
      <4>4. u(k) \in Nat /\ u(k + j) \in Nat
        BY <1>3, <2>2, <4>1
      <4> QED BY <4>2, <4>3, <4>4
    <3> HIDE DEF T
    <3>3. Nat \subseteq T
      BY <3>1, <3>2, Induction
    <3>4. n + 1 - k \in T /\ k + (n + 1 - k) = n + 1
      BY <1>1, <3>3
    <3> QED BY <1>1, <3>4 DEF T
  <2>5. u(k) \in Nat /\ u(n + 1) \in Nat
    <3>1. n + 1 \in 0..(n + 1)
      BY <1>1
    <3> QED BY <1>3, <2>2, <3>1, Zenon
  <2> QED BY <1>7, <2>3, <2>4, <2>5
<1>10. ok => F[n + 1] = IF u(n + 1) <= PathSize - 1 THEN u(n + 1) ELSE PathSize - 1
  BY <1>1, <1>6
<1> HIDE DEF ok
<1> QED BY <1>2, <1>3, <1>4, <1>7, <1>8, <1>9, <1>10 DEF p, CutIn

-----------------------------------------------------------------------------
\* The components of a path.

\* The words of WordBits bits.
Words == 0..(2^WordBits - 1)

\* Texts with something in them.
PieceTexts == Seq(Printable) \ {<< >>}

\* What is printed of one word.
Component(word) ==
  Decimal(Index(word)) \o (IF word >= Hardened THEN << 39 >> ELSE << >>)

\* Half of the words are hardened.
LEMMA HardenedIs == Hardened \in Nat \ {0} /\ 2^WordBits = 2 * Hardened
<1>1. WordBits \in Nat /\ WordBits # 0
  <2>1. WordBits \in Nat /\ 2^WordBits > 1029
    BY WordAssumption DEF CFXADDR_MAINNET_ID
  <2>2. 2^0 = 1
    OBVIOUS
  <2>3. WordBits # 0
    <3> SUFFICES ASSUME WordBits = 0 PROVE FALSE
      OBVIOUS
    <3>1. 2^WordBits = 1
      BY <2>2
    <3> QED BY <2>1, <3>1
  <2> QED BY <2>1, <2>3
<1>2. PICK n \in Nat : n = WordBits - 1 /\ n + 1 = WordBits
  BY <1>1
<1>3. 2^n \in Nat \ {0} /\ 2^(n + 1) = 2 * 2^n
  BY PowerType, PowerDoubles
<1> QED BY <1>2, <1>3 DEF Hardened

\* A word is its index and the hardened bit.
LEMMA IndexIs ==
  ASSUME NEW word \in Words
  PROVE  /\ Index(word) \in 0..(Hardened - 1) /\ word \in Nat
         /\ word >= Hardened => word = Index(word) + Hardened
         /\ word < Hardened => word = Index(word)
<1>1. PICK h : h = Hardened
  OBVIOUS
<1>2. h \in Nat \ {0} /\ word \in 0..(2 * h - 1)
  BY <1>1, HardenedIs DEF Words
<1>3. word % h \in 0..(h - 1)
  BY <1>2
<1>4. word >= h => word % h = word - h
  <2> SUFFICES ASSUME word >= h PROVE word % h = word - h
    OBVIOUS
  <2>1. word = h * 1 + (word - h) /\ word - h \in 0..(h - 1)
    BY <1>2
  <2> QED BY <1>2, <2>1
<1>5. word < h => word % h = word
  BY <1>2
<1> QED BY <1>1, <1>2, <1>3, <1>4, <1>5 DEF Index

\* A component reads as its word, and has no separator.
LEMMA ComponentReads ==
  ASSUME NEW word \in Words
  PROVE  /\ Component(word) \in PieceTexts
         /\ Lacks(Component(word), 47, 1, Len(Component(word)))
         /\ ReadsAs(Component(word), word)
         /\ Len(Component(word)) = Len(Decimal(word % Hardened))
                                    + (IF word >= Hardened THEN 1 ELSE 0)
<1>1. PICK d : d = Decimal(Index(word))
  OBVIOUS
<1>2. /\ d \in Seq(Digits) /\ IsNumeral(d) /\ ReadNumber(d) = Index(word) /\ d # << >>
      /\ word \in Nat
  <2>1. Index(word) \in Nat /\ word \in Nat
    BY IndexIs, HardenedIs
  <2>2. d \in Seq(Digits) /\ IsNumeral(d) /\ ReadNumber(d) = Index(word)
    BY <1>1, <2>1, DecimalReads
  <2> QED BY <2>1, <2>2 DEF IsNumeral, IsNumber
<1>3. Digits \subseteq Printable /\ Digits = 48..57 /\ Printable = 1..127
  BY TextCharacters DEF Digits, ZERO, Printable
<1>4. CASE word >= Hardened
  <2>1. PICK c : c = d \o << 39 >>
    OBVIOUS
  <2>2. c = Component(word)
    BY <1>1, <1>4, <2>1 DEF Component
  <2>3. /\ c \in Seq(Printable) /\ Len(c) = Len(d) + 1 /\ c[Len(c)] = 39
        /\ \A i \in 1..Len(d) : c[i] = d[i]
    <3>1. d \in Seq(Printable) /\ 39 \in Printable
      BY <1>2, <1>3
    <3> QED BY <2>1, <3>1
  <2>4. c # << >> /\ Len(d) \in Nat
    BY <1>2, <2>3
  <2>5. SubSeq(c, 1, Len(c) - 1) = d
    <3> DEFINE x == SubSeq(c, 1, Len(c) - 1)
    <3>1. x \in Seq(Printable) /\ Len(x) = Len(d) /\ \A i \in 1..Len(d) : x[i] = c[i]
      BY <2>3, <2>4
    <3>2. d \in Seq(Printable)
      BY <1>2, <1>3
    <3> HIDE DEF x
    <3>3. x = d
      BY <2>3, <3>1, <3>2
    <3> QED BY <3>3 DEF x
  <2>6. IsHardened(c) /\ Numeral(c) = d
    BY <2>3, <2>4, <2>5 DEF IsHardened, Numeral, Last, Front
  <2>7. ReadsAs(c, word)
    <3>1. word = Index(word) + Hardened
      BY <1>4, IndexIs
    <3>2. ReadsAs(c, word) <=> (IsNumeral(d) /\ word = ReadNumber(d) + Hardened)
      BY <2>6 DEF ReadsAs
    <3> QED BY <1>2, <3>1, <3>2
  <2>8. Lacks(c, 47, 1, Len(c))
    <3> SUFFICES ASSUME NEW i \in 1..Len(c) PROVE c[i] # 47
      BY DEF Lacks
    <3>1. CASE i = Len(c)
      BY <2>3, <3>1
    <3>2. CASE i # Len(c)
      <4>1. i \in 1..Len(d)
        BY <2>3, <2>4, <3>2
      <4>2. d[i] \in Digits
        BY <1>2, <4>1
      <4> QED BY <1>3, <2>3, <4>1, <4>2
    <3> QED BY <3>1, <3>2
  <2>9. Len(c) = Len(Decimal(word % Hardened)) + (IF word >= Hardened THEN 1 ELSE 0)
    BY <1>1, <1>4, <2>3 DEF Index
  <2> QED BY <2>2, <2>3, <2>4, <2>7, <2>8, <2>9 DEF PieceTexts
<1>5. CASE ~(word >= Hardened)
  <2>1. d = Component(word)
    <3>1. d \o << >> = d
      BY <1>2
    <3> QED BY <1>1, <1>5, <3>1 DEF Component
  <2>2. d \in Seq(Printable) /\ Len(d) \in Nat /\ Len(d) # 0
    BY <1>2, <1>3
  <2>3. Lacks(d, 47, 1, Len(d))
    <3> SUFFICES ASSUME NEW i \in 1..Len(d) PROVE d[i] # 47
      BY DEF Lacks
    <3>1. d[i] \in Digits
      BY <1>2
    <3> QED BY <1>3, <3>1
  <2>4. ~IsHardened(d) /\ Numeral(d) = d
    <3>1. d[Len(d)] \in Digits
      BY <1>2, <2>2
    <3> QED BY <1>3, <3>1 DEF IsHardened, Numeral, Last
  <2>5. ReadsAs(d, word)
    <3>1. word = Index(word) + 0
      BY <1>2, <1>5, IndexIs, HardenedIs
    <3>2. ReadsAs(d, word) <=> (IsNumeral(d) /\ word = ReadNumber(d) + 0)
      BY <2>4 DEF ReadsAs
    <3> QED BY <1>2, <3>1, <3>2
  <2>6. Len(d) = Len(Decimal(word % Hardened)) + (IF word >= Hardened THEN 1 ELSE 0)
    BY <1>1, <1>5, <2>2 DEF Index
  <2> QED BY <1>2, <2>1, <2>2, <2>3, <2>5, <2>6 DEF PieceTexts
<1> QED BY <1>4, <1>5

-----------------------------------------------------------------------------
\* The pieces of a path.

\* The pieces of one component.
Group(path, k) ==
  << Decimal(Index(path[k])) >>
    \o (IF path[k] >= Hardened THEN << << 39 >> >> ELSE << >>)
    \o (IF k < Len(path) THEN << << 47 >> >> ELSE << >>)

\* The pieces, one component after the other.
Grouped(path) == [k \in DOMAIN path |-> Group(path, k)]

\* The pieces of the first components.
PiecesTo(path, k) == FlattenSeq(SubSeq(Grouped(path), 1, k))

\* Putting one element behind is appending it.
LEMMA OneMore ==
  ASSUME NEW D, NEW x \in Seq(D), NEW y \in D
  PROVE  /\ x \o << y >> = Append(x, y) /\ Append(x, y) \in Seq(D)
         /\ x \o << >> = x
OBVIOUS

\* A group is one to three pieces.
LEMMA GroupIs ==
  ASSUME NEW path \in Seq(Words), NEW k \in 1..Len(path)
  PROVE  /\ Group(path, k) \in Seq(PieceTexts)
         /\ \A x \in Seq(PieceTexts) :
              x \o Group(path, k) =
                LET d == Append(x, Decimal(Index(path[k])))
                    h == IF path[k] >= Hardened THEN Append(d, << 39 >>) ELSE d
                IN IF k < Len(path) THEN Append(h, << 47 >>) ELSE h
<1> DEFINE D == PieceTexts
           a == Decimal(Index(path[k]))
           b == IF path[k] >= Hardened THEN << << 39 >> >> ELSE << >>
           c == IF k < Len(path) THEN << << 47 >> >> ELSE << >>
<1>1. path[k] \in Words
  OBVIOUS
<1>2. a \in D
  <2>1. a \in Seq(Digits) /\ IsNumeral(a)
    <3>1. PICK i \in Nat : i = Index(path[k])
      BY <1>1, IndexIs, HardenedIs
    <3>2. Decimal(i) \in Seq(Digits) /\ IsNumeral(Decimal(i))
      BY DecimalReads
    <3> QED BY <3>1, <3>2
  <2>2. a # << >>
    BY <2>1 DEF IsNumeral, IsNumber
  <2> HIDE DEF a
  <2> QED BY <2>1, <2>2, TextCharacters DEF PieceTexts
<1>3. << 39 >> \in D /\ << 47 >> \in D
  <2>1. 39 \in Printable /\ 47 \in Printable
    BY DEF Printable
  <2> QED BY <2>1 DEF PieceTexts
<1>4. << a >> \in Seq(D) /\ b \in Seq(D) /\ c \in Seq(D)
  <2> HIDE DEF D, a
  <2> QED BY <1>2, <1>3
<1> HIDE DEF D, a
<1>5. << a >> \o b \o c \in Seq(D)
  <2> HIDE DEF b, c
  <2> QED BY <1>4
<1>6. ASSUME NEW x \in Seq(D)
      PROVE  x \o (<< a >> \o b \o c) =
                LET d == Append(x, a)
                    h == IF path[k] >= Hardened THEN Append(d, << 39 >>) ELSE d
                IN IF k < Len(path) THEN Append(h, << 47 >>) ELSE h
  <2> DEFINE d == Append(x, a)
             h == IF path[k] >= Hardened THEN Append(d, << 39 >>) ELSE d
  <2>1. x \o (<< a >> \o b \o c) = ((x \o << a >>) \o b) \o c
    <3> HIDE DEF b, c
    <3>1. PICK e \in Seq(D), y \in Seq(D), z \in Seq(D) : e = << a >> /\ y = b /\ z = c
      BY <1>4
    <3>2. PICK u \in Seq(D) : u = e \o y
      BY ConcatType
    <3>3. (x \o e) \o y = x \o (e \o y) /\ (x \o e) \o y \in Seq(D)
      BY ConcatAssociates
    <3>4. (x \o u) \o z = x \o (u \o z) /\ (x \o u) \o z \in Seq(D)
      BY ConcatAssociates
    <3> QED BY <3>1, <3>2, <3>3, <3>4, Zenon
  <2>2. x \o << a >> = d /\ d \in Seq(D)
    BY <1>2, OneMore
  <2> HIDE DEF d
  <2>3. d \o b = h /\ h \in Seq(D)
    BY <1>3, <2>2, OneMore
  <2> HIDE DEF h
  <2>4. h \o c = IF k < Len(path) THEN Append(h, << 47 >>) ELSE h
    BY <1>3, <2>3, OneMore
  <2> HIDE DEF b, c
  <2> QED BY <2>1, <2>2, <2>3, <2>4 DEF h, d
<1> QED BY <1>5, <1>6 DEF Group, D, a

\* What a group adds to the text.
LEMMA GroupFlattens ==
  ASSUME NEW path \in Seq(Words), NEW k \in 1..Len(path), NEW x \in Seq(PieceTexts)
  PROVE  /\ x \o Group(path, k) \in Seq(PieceTexts)
         /\ FlattenSeq(x) \in Seq(Printable)
         /\ FlattenSeq(x \o Group(path, k))
              = (FlattenSeq(x) \o Component(path[k]))
                  \o (IF k < Len(path) THEN << 47 >> ELSE << >>)
<1> DEFINE a == Decimal(Index(path[k]))
           d == Append(x, a)
           h == IF path[k] >= Hardened THEN Append(d, << 39 >>) ELSE d
           t == FlattenSeq(x)
<1>1. a \in Seq(Printable) /\ path[k] \in Words
  <2>1. path[k] \in Words
    OBVIOUS
  <2>2. a \in Seq(Digits)
    <3>1. PICK i \in Nat : i = Index(path[k])
      BY <2>1, IndexIs, HardenedIs
    <3>2. Decimal(i) \in Seq(Digits)
      BY DecimalReads
    <3> QED BY <3>1, <3>2
  <2> HIDE DEF a
  <2> QED BY <2>1, <2>2, TextCharacters
<1> HIDE DEF a
<1>2. << 39 >> \in Seq(Printable) /\ << 47 >> \in Seq(Printable) /\ x \in Seq(Seq(Printable))
  BY DEF Printable, PieceTexts
<1>3. x \o Group(path, k) = IF k < Len(path) THEN Append(h, << 47 >>) ELSE h
  BY GroupIs DEF a
<1>4. d \in Seq(Seq(Printable)) /\ t \in Seq(Printable) /\ FlattenSeq(d) = t \o a
  <2>1. d \in Seq(Seq(Printable))
    <3> DEFINE D == Seq(Printable)
    <3> HIDE DEF D
    <3>1. x \in Seq(D) /\ a \in D
      BY <1>1, <1>2 DEF D
    <3> QED BY <3>1 DEF D
  <2> QED BY <1>1, <1>2, <2>1, FlattenAppend
<1> HIDE DEF d
<1>5. /\ h \in Seq(Seq(Printable))
      /\ FlattenSeq(h) = (t \o a) \o (IF path[k] >= Hardened THEN << 39 >> ELSE << >>)
  <2>1. Append(d, << 39 >>) \in Seq(Seq(Printable))
    <3> DEFINE D == Seq(Printable)
    <3> HIDE DEF D
    <3>1. d \in Seq(D) /\ << 39 >> \in D
      BY <1>2, <1>4 DEF D
    <3> QED BY <3>1 DEF D
  <2>2. FlattenSeq(Append(d, << 39 >>)) = FlattenSeq(d) \o << 39 >>
    BY <1>2, <1>4, FlattenAppend
  <2>3. (t \o a) \o << >> = t \o a
    <3> HIDE DEF t
    <3> QED BY <1>1, <1>4
  <2> HIDE DEF t
  <2> QED BY <1>4, <2>1, <2>2, <2>3
<1> HIDE DEF h, t
<1>6. FlattenSeq(h) = t \o Component(path[k]) /\ FlattenSeq(h) \in Seq(Printable)
  <2>1. PICK q \in Seq(Printable) : q = IF path[k] >= Hardened THEN << 39 >> ELSE << >>
    <3>1. << >> \in Seq(Printable)
      OBVIOUS
    <3> QED BY <1>2, <3>1, Zenon
  <2>2. (t \o a) \o q = t \o (a \o q) /\ (t \o a) \o q \in Seq(Printable)
    <3>1. t \in Seq(Printable) /\ a \in Seq(Printable)
      BY <1>1, <1>4
    <3> QED BY <3>1, ConcatAssociates, Zenon
  <2>3. Component(path[k]) = a \o q
    BY <2>1 DEF Component, a
  <2> QED BY <1>5, <2>1, <2>2, <2>3
<1>7. FlattenSeq(x \o Group(path, k))
              = (t \o Component(path[k])) \o (IF k < Len(path) THEN << 47 >> ELSE << >>)
  <2>1. FlattenSeq(Append(h, << 47 >>)) = FlattenSeq(h) \o << 47 >>
    BY <1>2, <1>5, FlattenAppend
  <2>2. FlattenSeq(h) \o << >> = FlattenSeq(h)
    BY <1>6
  <2> QED BY <1>3, <1>6, <2>1, <2>2
<1>8. x \o Group(path, k) \in Seq(PieceTexts)
  <2> DEFINE D == PieceTexts
             g == Group(path, k)
  <2>1. g \in Seq(D)
    BY GroupIs
  <2> HIDE DEF D, g
  <2>2. x \o g \in Seq(D)
    BY <2>1 DEF D
  <2> QED BY <2>2 DEF D, g
<1> QED BY <1>4, <1>7, <1>8 DEF t

\* The text of the first components, without a cut.
Body(path, k) == FlattenSeq(PiecesTo(path, k))

\* What is between two components.
Slash == << 47 >>

\* The pieces, group by group.
LEMMA PiecesToIs ==
  ASSUME NEW path \in Seq(Words)
  PROVE  /\ PiecesTo(path, 0) = << >>
         /\ \A k \in 0..Len(path) : PiecesTo(path, k) \in Seq(PieceTexts)
         /\ \A k \in 1..Len(path) : PiecesTo(path, k) = PiecesTo(path, k - 1) \o Group(path, k)
         /\ Pieces(path) = PiecesTo(path, Len(path))
<1> DEFINE n == Len(path)
           g == Grouped(path)
           D == PieceTexts
           E == Seq(D)
<1>1. n \in Nat /\ DOMAIN path = 1..n
  OBVIOUS
<1>2. g \in Seq(E) /\ Len(g) = n /\ \A k \in 1..n : g[k] = Group(path, k) /\ g[k] \in E
  <2>1. \A k \in 1..n : Group(path, k) \in E
    BY GroupIs
  <2>2. g = [k \in 1..n |-> Group(path, k)]
    BY <1>1 DEF Grouped
  <2> HIDE DEF g, n, E
  <2>3. g \in [1..n -> E]
    BY <2>1, <2>2
  <2> QED BY <1>1, <2>2, <2>3, SeqOfFunction
<1>3. Pieces(path) = FlattenSeq(g)
  BY DEF Pieces, Grouped, Group
<1> HIDE DEF g, n, E
<1>4. SubSeq(g, 1, 0) = << >> /\ SubSeq(g, 1, n) = g
  BY <1>1, <1>2
<1>5. ASSUME NEW k \in 0..n PROVE SubSeq(g, 1, k) \in Seq(E)
  BY <1>1, <1>2
<1>6. ASSUME NEW k \in 1..n
      PROVE  SubSeq(g, 1, k) = Append(SubSeq(g, 1, k - 1), Group(path, k))
  <2>1. PICK x : x = SubSeq(g, 1, k - 1)
    OBVIOUS
  <2>2. PICK a : a = SubSeq(g, 1, k)
    OBVIOUS
  <2>3. a \in Seq(E) /\ Len(a) = k /\ \A i \in 1..k : a[i] = g[i]
    BY <1>1, <1>2, <2>2
  <2>4. x \in Seq(E) /\ Len(x) = k - 1 /\ \A i \in 1..(k - 1) : x[i] = g[i]
    BY <1>1, <1>2, <2>1
  <2>5. PICK b : b = Append(x, g[k])
    OBVIOUS
  <2>6. g[k] \in E
    BY <1>2
  <2>7. b \in Seq(E) /\ Len(b) = k /\ \A i \in 1..k : b[i] = g[i]
    BY <1>1, <2>4, <2>5, <2>6
  <2>8. a = b
    BY <2>3, <2>7
  <2> QED BY <1>2, <2>1, <2>2, <2>5, <2>8
<1>7. ASSUME NEW k \in 0..n PROVE PiecesTo(path, k) \in Seq(D)
  <2>1. PICK x \in Seq(E) : x = SubSeq(g, 1, k)
    BY <1>5
  <2>2. << >> \in Seq(D)
    OBVIOUS
  <2>3. FlattenSeq(x) \in Seq(D)
    BY <2>1, <2>2, FlattenAppend DEF E
  <2> QED BY <2>1, <2>3 DEF PiecesTo, g
<1>8. ASSUME NEW k \in 1..n PROVE PiecesTo(path, k) = PiecesTo(path, k - 1) \o Group(path, k)
  <2>1. k - 1 \in 0..n
    BY <1>1
  <2>2. PICK x \in Seq(E) : x = SubSeq(g, 1, k - 1)
    BY <1>5, <2>1
  <2>3. PICK b \in Seq(D) : b = Group(path, k)
    BY <1>2 DEF E
  <2>4. FlattenSeq(Append(x, b)) = FlattenSeq(x) \o b
    BY <2>2, <2>3, FlattenAppend DEF E
  <2> QED BY <1>6, <2>2, <2>3, <2>4 DEF PiecesTo, g
<1>9. PiecesTo(path, 0) = << >>
  BY <1>4, FlattenNothing DEF PiecesTo, g
<1>10. PiecesTo(path, n) = Pieces(path)
  BY <1>3, <1>4 DEF PiecesTo, g
<1> QED BY <1>7, <1>8, <1>9, <1>10 DEF n

\* The text, component by component.
LEMMA BodyIs ==
  ASSUME NEW path \in Seq(Words)
  PROVE  /\ Body(path, 0) = << >>
         /\ \A k \in 0..Len(path) : Body(path, k) \in Seq(Printable)
         /\ \A k \in 1..Len(path) :
              Body(path, k) = (Body(path, k - 1) \o Component(path[k]))
                                 \o (IF k < Len(path) THEN Slash ELSE << >>)
         /\ FlattenSeq(Pieces(path)) = Body(path, Len(path))
<1>1. Body(path, 0) = << >>
  BY PiecesToIs, FlattenNothing DEF Body
<1>2. ASSUME NEW k \in 0..Len(path) PROVE Body(path, k) \in Seq(Printable)
  <2>1. PICK x \in Seq(PieceTexts) : x = PiecesTo(path, k)
    BY PiecesToIs
  <2>2. x \in Seq(Seq(Printable)) /\ << >> \in Seq(Printable)
    BY DEF PieceTexts
  <2> QED BY <2>1, <2>2, FlattenAppend DEF Body
<1>3. ASSUME NEW k \in 1..Len(path)
      PROVE  Body(path, k) = (Body(path, k - 1) \o Component(path[k]))
                                 \o (IF k < Len(path) THEN Slash ELSE << >>)
  <2>1. k - 1 \in 0..Len(path)
    OBVIOUS
  <2>2. PICK x \in Seq(PieceTexts) : x = PiecesTo(path, k - 1)
    BY <2>1, PiecesToIs
  <2>3. PiecesTo(path, k) = x \o Group(path, k)
    BY <2>2, PiecesToIs
  <2>4. FlattenSeq(x \o Group(path, k))
              = (FlattenSeq(x) \o Component(path[k]))
                  \o (IF k < Len(path) THEN << 47 >> ELSE << >>)
    BY GroupFlattens
  <2> QED BY <2>2, <2>3, <2>4 DEF Body, Slash
<1>4. FlattenSeq(Pieces(path)) = Body(path, Len(path))
  BY PiecesToIs DEF Body
<1> QED BY <1>1, <1>2, <1>3, <1>4

\* The first components.
Components(path, k) == [i \in 1..k |-> Component(path[i])]

\* What follows the first components is a part behind them.
ReadsOn(path, k) ==
  \A a \in Seq(Printable) :
    Lacks(a, 47, 1, Len(a)) => Parts(Body(path, k) \o a, 47) = Append(Components(path, k), a)

\* Each word adds a component.
LEMMA ComponentsAre ==
  ASSUME NEW path \in Seq(Words)
  PROVE  /\ Components(path, 0) = << >>
         /\ \A k \in 0..Len(path) : Components(path, k) \in Seq(PieceTexts)
         /\ \A k \in 1..Len(path) :
              Components(path, k) = Append(Components(path, k - 1), Component(path[k]))
<1> DEFINE D == PieceTexts
<1>1. ASSUME NEW k \in 0..Len(path)
      PROVE  /\ Components(path, k) \in Seq(D) /\ Len(Components(path, k)) = k
             /\ \A i \in 1..k : Components(path, k)[i] = Component(path[i])
  <2>1. \A i \in 1..k : path[i] \in Words
    OBVIOUS
  <2>2. \A i \in 1..k : Component(path[i]) \in D
    BY <2>1, ComponentReads
  <2> HIDE DEF D
  <2>3. Components(path, k) \in [1..k -> D]
    BY <2>2 DEF Components
  <2>4. Components(path, k) \in Seq(D) /\ Len(Components(path, k)) = k
    BY <2>3, SeqOfFunction
  <2> QED BY <2>4 DEF Components
<1>2. Components(path, 0) = << >>
  <2>1. 0 \in 0..Len(path)
    OBVIOUS
  <2> HIDE DEF D
  <2> QED BY <1>1, <2>1
<1>3. ASSUME NEW k \in 1..Len(path)
      PROVE  Components(path, k) = Append(Components(path, k - 1), Component(path[k]))
  <2>1. k \in 0..Len(path) /\ k - 1 \in 0..Len(path)
    OBVIOUS
  <2>2. Component(path[k]) \in D
    BY ComponentReads
  <2> HIDE DEF D
  <2>3. PICK x, y, c : x = Components(path, k) /\ y = Components(path, k - 1) /\ c = Component(path[k])
    OBVIOUS
  <2>4. x \in Seq(D) /\ Len(x) = k /\ \A i \in 1..k : x[i] = Component(path[i])
    BY <1>1, <2>1, <2>3
  <2>5. y \in Seq(D) /\ Len(y) = k - 1 /\ \A i \in 1..(k - 1) : y[i] = Component(path[i])
    BY <1>1, <2>1, <2>3
  <2>6. x = Append(y, c)
    <3>1. PICK z : z = Append(y, c)
      OBVIOUS
    <3>2. z \in Seq(D) /\ Len(z) = k /\ \A i \in 1..k : z[i] = Component(path[i])
      BY <2>2, <2>3, <2>5, <3>1
    <3>3. x = z
      BY <2>4, <3>2
    <3> QED BY <3>1, <3>3
  <2> QED BY <2>3, <2>6
<1> QED BY <1>1, <1>2, <1>3

\* The text of the first components ends in a separator.
LEMMA BodyReads ==
  ASSUME NEW path \in Seq(Words), NEW k \in 0..(Len(path) - 1)
  PROVE  ReadsOn(path, k)
<1> DEFINE T == { m \in Nat : m < Len(path) => ReadsOn(path, m) }
<1>1. Len(path) \in Nat
  OBVIOUS
<1>2. 0 \in T
  <2> SUFFICES ASSUME NEW a \in Seq(Printable), Lacks(a, 47, 1, Len(a))
               PROVE  Parts(Body(path, 0) \o a, 47) = Append(Components(path, 0), a)
    BY DEF ReadsOn
  <2>1. << >> \o a = a /\ Append(<< >>, a) = << a >>
    OBVIOUS
  <2>2. Parts(a, 47) = << a >>
    BY PartsOne
  <2>3. Body(path, 0) = << >> /\ Components(path, 0) = << >>
    BY BodyIs, ComponentsAre
  <2> QED BY <2>1, <2>2, <2>3
<1>3. ASSUME NEW m \in Nat, m \in T PROVE m + 1 \in T
  <2> SUFFICES ASSUME m + 1 < Len(path), NEW a \in Seq(Printable), Lacks(a, 47, 1, Len(a))
               PROVE  Parts(Body(path, m + 1) \o a, 47) = Append(Components(path, m + 1), a)
    BY DEF ReadsOn
  <2>1. m \in 0..Len(path) /\ m + 1 \in 1..Len(path) /\ (m + 1) - 1 = m /\ m < Len(path)
    BY <1>1
  <2>2. ReadsOn(path, m)
    BY <1>3, <2>1
  <2>3. PICK c : c = Component(path[m + 1])
    OBVIOUS
  <2>4. c \in Seq(Printable) /\ Lacks(c, 47, 1, Len(c))
    <3>1. path[m + 1] \in Words
      BY <2>1
    <3> QED BY <2>3, <3>1, ComponentReads DEF PieceTexts
  <2>5. PICK b \in Seq(Printable) : b = Body(path, m)
    BY <2>1, BodyIs
  <2>6. Parts(b \o c, 47) = Append(Components(path, m), c)
    BY <2>2, <2>4, <2>5 DEF ReadsOn
  <2>7. Body(path, m + 1) = (b \o c) \o << 47 >>
    <3>1. Body(path, m + 1) = (Body(path, (m + 1) - 1) \o Component(path[m + 1]))
                                 \o (IF m + 1 < Len(path) THEN Slash ELSE << >>)
      BY <2>1, BodyIs
    <3> QED BY <2>1, <2>3, <2>5, <3>1 DEF Slash
  <2>8. PICK t \in Seq(Printable) : t = b \o c
    <3>1. b \o c \in Seq(Printable)
      BY <2>4
    <3> QED BY <3>1
  <2>9. Parts(t \o << 47 >> \o a, 47) = Append(Parts(t, 47), a)
    <3>1. 47 \in Printable
      BY DEF Printable
    <3> QED BY <3>1, PartsAppend
  <2>10. Components(path, m + 1) = Append(Components(path, m), c)
    BY <2>1, <2>3, ComponentsAre
  <2> QED BY <2>6, <2>7, <2>8, <2>9, <2>10
<1> HIDE DEF T
<1>4. Nat \subseteq T
  BY <1>2, <1>3, Induction
<1>5. k \in T /\ k \in Nat /\ k < Len(path)
  BY <1>1, <1>4
<1> QED BY <1>5 DEF T

-----------------------------------------------------------------------------
\* The length of the text.

\* Characters of one component.
Written(word) == Len(Decimal(word % Hardened)) + (IF word >= Hardened THEN 1 ELSE 0)

\* f counts the characters so far, with a separator behind each component.
Counts(f, path) ==
  f = [k \in 0..Len(path) |-> IF k = 0 THEN 0 ELSE f[k - 1] + Written(path[k]) + 1]

\* WrittenLength as a function of the number of components.
LEMMA WrittenLengthIs ==
  ASSUME NEW path
  PROVE  WrittenLength(path) = (CHOOSE f : Counts(f, path))[Len(path)] - 1
BY DEF WrittenLength, Counts, Written

\* There is such a function.
LEMMA CounterExists ==
  ASSUME NEW path \in Seq(Words)
  PROVE  \E f : Counts(f, path)
<1> DEFINE n == Len(path)
           step == [p \in (1..n) \X Nat |-> p[2] + Written(path[p[1]]) + 1]
<1>1. n \in Nat
  OBVIOUS
<1>2. ASSUME NEW k \in 1..n PROVE Written(path[k]) \in Nat
  <2>1. path[k] \in Words
    OBVIOUS
  <2>2. Component(path[k]) \in Seq(Printable) /\ Len(Component(path[k])) = Written(path[k])
    BY <2>1, ComponentReads DEF Written, PieceTexts
  <2>3. Len(Component(path[k])) \in Nat
    BY <2>2
  <2> QED BY <2>2, <2>3
<1> HIDE DEF n
<1>3. step \in [(1..n) \X Nat -> Nat] /\ \A x \in Nat, k \in 1..n : step[<< k, x >>] = x + Written(path[k]) + 1
  <2>1. \A p \in (1..n) \X Nat : p[2] + Written(path[p[1]]) + 1 \in Nat
    <3> SUFFICES ASSUME NEW k \in 1..n, NEW x \in Nat PROVE x + Written(path[k]) + 1 \in Nat
      OBVIOUS
    <3> QED BY <1>2
  <2>2. step \in [(1..n) \X Nat -> Nat]
    BY <2>1
  <2>3. ASSUME NEW k \in 1..n, NEW x \in Nat PROVE step[<< k, x >>] = x + Written(path[k]) + 1
    OBVIOUS
  <2> QED BY <2>2, <2>3
<1> HIDE DEF step
<1>4. PICK g \in [0..n -> Nat] : Recurs(g, 0, n, step)
  BY <1>1, <1>3, Recursion
<1>5. ASSUME NEW k \in 0..n PROVE g[k] = IF k = 0 THEN 0 ELSE g[k - 1] + Written(path[k]) + 1
  <2>1. CASE k = 0
    BY <1>4, <2>1 DEF Recurs
  <2>2. CASE k # 0
    <3>1. k \in 1..n /\ k - 1 \in 0..n
      BY <1>1, <2>2
    <3>2. g[k] = step[<< k, g[k - 1] >>]
      BY <1>4, <3>1 DEF Recurs
    <3>3. g[k - 1] \in Nat
      BY <3>1
    <3> QED BY <1>3, <2>2, <3>1, <3>2, <3>3
  <2> QED BY <2>1, <2>2
<1>6. g = [k \in 0..n |-> IF k = 0 THEN 0 ELSE g[k - 1] + Written(path[k]) + 1]
  <2> DEFINE h == [k \in 0..n |-> IF k = 0 THEN 0 ELSE g[k - 1] + Written(path[k]) + 1]
  <2>1. g = h
    BY <1>5
  <2> QED BY <2>1
<1> QED BY <1>6 DEF Counts, n

\* It is the length of the text without a cut.
LEMMA WrittenIs ==
  ASSUME NEW path \in Seq(Words), path # << >>
  PROVE  Len(FlattenSeq(Pieces(path))) = WrittenLength(path)
<1> DEFINE n == Len(path)
           F == CHOOSE f : Counts(f, path)
           T == { m \in Nat : m < n => Len(Body(path, m)) = F[m] }
<1>1. n \in Nat \ {0}
  OBVIOUS
<1>2. ASSUME NEW k \in 0..n PROVE F[k] = IF k = 0 THEN 0 ELSE F[k - 1] + Written(path[k]) + 1
  <2>1. Counts(F, path)
    BY CounterExists, Zenon
  <2> HIDE DEF F
  <2> DEFINE h == [j \in 0..Len(path) |-> IF j = 0 THEN 0 ELSE F[j - 1] + Written(path[j]) + 1]
  <2>2. F = h
    BY <2>1 DEF Counts
  <2>3. h[k] = IF k = 0 THEN 0 ELSE F[k - 1] + Written(path[k]) + 1
    OBVIOUS
  <2> HIDE DEF h
  <2> QED BY <2>2, <2>3
<1>3. WrittenLength(path) = F[n] - 1
  BY WrittenLengthIs
<1> HIDE DEF F
<1>4. ASSUME NEW k \in 1..n
      PROVE  LET s == IF k < n THEN Slash ELSE << >>
             IN /\ Len(Body(path, k)) = Len(Body(path, k - 1)) + Written(path[k]) + Len(s)
                /\ Len(Body(path, k - 1)) \in Nat /\ Written(path[k]) \in Nat
  <2>1. PICK s : s = IF k < n THEN Slash ELSE << >>
    OBVIOUS
  <2>2. s \in Seq(Printable)
    <3>1. << 47 >> \in Seq(Printable) /\ << >> \in Seq(Printable)
      BY DEF Printable
    <3> QED BY <2>1, <3>1, Zenon DEF Slash
  <2>3. PICK c : c = Component(path[k])
    OBVIOUS
  <2>4. c \in Seq(Printable) /\ Len(c) = Written(path[k])
    <3>1. path[k] \in Words
      OBVIOUS
    <3> QED BY <2>3, <3>1, ComponentReads DEF PieceTexts, Written
  <2>5. PICK b \in Seq(Printable) : b = Body(path, k - 1)
    <3>1. k - 1 \in 0..n
      BY <1>1
    <3> QED BY <3>1, BodyIs
  <2>6. Body(path, k) = (b \o c) \o s
    BY <2>1, <2>3, <2>5, BodyIs
  <2>7. Len((b \o c) \o s) = Len(b) + Len(c) + Len(s) /\ Len(b) \in Nat /\ Len(c) \in Nat
    <3> HIDE DEF n
    <3>1. b \o c \in Seq(Printable) /\ Len(b \o c) = Len(b) + Len(c)
      BY <2>4, ConcatType, Zenon
    <3>2. PICK x : x = b \o c
      OBVIOUS
    <3>3. Len(x \o s) = Len(x) + Len(s)
      BY <2>2, <3>1, <3>2
    <3> QED BY <2>4, <3>1, <3>2, <3>3
  <2> QED BY <2>1, <2>4, <2>5, <2>6, <2>7
<1> HIDE DEF n
<1>5. 0 \in T
  <2>1. Len(<< >>) = 0 /\ 0 \in 0..n
    BY <1>1
  <2> QED BY <1>2, <2>1, BodyIs
<1>6. ASSUME NEW m \in Nat, m \in T PROVE m + 1 \in T
  <2> SUFFICES ASSUME m + 1 < n PROVE Len(Body(path, m + 1)) = F[m + 1]
    OBVIOUS
  <2>1. m + 1 \in 1..n /\ m + 1 \in 0..n /\ m + 1 # 0 /\ (m + 1) - 1 = m /\ m < n
    BY <1>1
  <2>2. Len(Body(path, m)) = F[m]
    BY <1>6, <2>1
  <2>3. F[m + 1] = F[m] + Written(path[m + 1]) + 1
    BY <1>2, <2>1
  <2>4. Len(Slash) = 1
    BY DEF Slash
  <2>5. Len(Body(path, m + 1)) = Len(Body(path, m)) + Written(path[m + 1]) + 1
    BY <1>4, <2>1, <2>4
  <2> QED BY <2>2, <2>3, <2>5
<1> HIDE DEF T
<1>7. Nat \subseteq T
  BY <1>5, <1>6, Induction
<1>8. Len(Body(path, n - 1)) = F[n - 1]
  <2>1. n - 1 \in Nat /\ n - 1 < n
    BY <1>1
  <2> QED BY <1>7, <2>1 DEF T
<1>9. F[n] = F[n - 1] + Written(path[n]) + 1
  BY <1>1, <1>2
<1>10. /\ Len(Body(path, n)) = Len(Body(path, n - 1)) + Written(path[n]) + 0
       /\ Len(Body(path, n - 1)) \in Nat /\ Written(path[n]) \in Nat
  <2>1. n \in 1..n /\ ~(n < n)
    BY <1>1
  <2>2. Len(<< >>) = 0
    OBVIOUS
  <2> QED BY <1>4, <2>1, <2>2
<1>11. FlattenSeq(Pieces(path)) = Body(path, n)
  BY BodyIs DEF n
<1> QED BY <1>3, <1>8, <1>9, <1>10, <1>11

\* A text shows a path.
PathReads(text, path) ==
  LET parts == Parts(text, 47)
  IN /\ Len(parts) = Len(path)
     /\ \A k \in DOMAIN path :
          \/ ReadsAs(parts[k], path[k])
          \/ /\ k = Len(path) /\ CutShort(parts[k], path[k])
             /\ Len(text) = PathSize - 1 /\ WrittenLength(path) >= PathSize

\* What may be the last part.
LastReads(a, text, path) ==
  \/ ReadsAs(a, path[Len(path)])
  \/ /\ CutShort(a, path[Len(path)])
     /\ Len(text) = PathSize - 1 /\ WrittenLength(path) >= PathSize

\* If the last part is right, the text shows the path.
LEMMA LastIsRead ==
  ASSUME NEW path \in Seq(Words), path # << >>, NEW a \in Seq(Printable), NEW text,
         Lacks(a, 47, 1, Len(a)), text = Body(path, Len(path) - 1) \o a,
         LastReads(a, text, path)
  PROVE  PathReads(text, path)
<1> DEFINE n == Len(path)
<1>1. n \in Nat \ {0} /\ n - 1 \in 0..n /\ n - 1 \in 0..(Len(path) - 1) /\ DOMAIN path = 1..n
  OBVIOUS
<1>2. Parts(text, 47) = Append(Components(path, n - 1), a)
  <2>1. ReadsOn(path, n - 1)
    BY <1>1, BodyReads
  <2> QED BY <2>1 DEF ReadsOn
<1>3. PICK c : c = Components(path, n - 1)
  OBVIOUS
<1>4. c \in Seq(PieceTexts) /\ Len(c) = n - 1 /\ \A k \in 1..(n - 1) : c[k] = Component(path[k])
  <2>1. c \in Seq(PieceTexts)
    BY <1>1, <1>3, ComponentsAre
  <2>2. c = [k \in 1..(n - 1) |-> Component(path[k])]
    BY <1>3 DEF Components
  <2> HIDE DEF n
  <2>3. DOMAIN c = 1..(n - 1) /\ \A k \in 1..(n - 1) : c[k] = Component(path[k])
    BY <2>2
  <2>4. Len(c) = n - 1
    BY <1>1, <2>1, <2>3
  <2> QED BY <2>1, <2>3, <2>4
<1>5. PICK p : p = Parts(text, 47)
  OBVIOUS
<1>6. p = Append(c, a)
  BY <1>2, <1>3, <1>5
<1>7. Len(p) = n /\ p[n] = a /\ \A k \in 1..(n - 1) : p[k] = c[k]
  <2> DEFINE D == Seq(Printable)
  <2>1. c \in Seq(D) /\ a \in D
    BY <1>4 DEF PieceTexts
  <2> HIDE DEF D, n
  <2> QED BY <1>1, <1>4, <1>6, <2>1
<1>8. ASSUME NEW k \in 1..n, k # n PROVE ReadsAs(p[k], path[k])
  <2>1. k \in 1..(n - 1) /\ path[k] \in Words
    <3>1. path[k] \in Words
      OBVIOUS
    <3> HIDE DEF n
    <3> QED BY <1>1, <1>8, <3>1
  <2> QED BY <1>4, <1>7, <2>1, ComponentReads
<1>9. LastReads(p[n], text, path)
  BY <1>7
<1>10. ASSUME NEW k \in DOMAIN path
       PROVE  \/ ReadsAs(p[k], path[k])
              \/ /\ k = Len(path) /\ CutShort(p[k], path[k])
                 /\ Len(text) = PathSize - 1 /\ WrittenLength(path) >= PathSize
  <2>1. CASE k = n
    BY <1>9, <2>1 DEF LastReads
  <2>2. CASE k # n
    BY <1>1, <1>8, <2>2
  <2> QED BY <2>1, <2>2
<1> QED BY <1>5, <1>7, <1>10 DEF PathReads

\* What there is behind the other components.
LEMMA LastPieces ==
  ASSUME NEW path \in Seq(Words), path # << >>
  PROVE  LET x == PiecesTo(path, Len(path) - 1)
             w == path[Len(path)]
             d == Decimal(Index(w))
         IN /\ x \in Seq(PieceTexts) /\ w \in Words /\ d \in PieceTexts
            /\ FlattenSeq(x) = Body(path, Len(path) - 1)
            /\ FlattenSeq(x) \in Seq(Printable)
            /\ Pieces(path) = IF w >= Hardened THEN Append(Append(x, d), << 39 >>)
                              ELSE Append(x, d)
            /\ FlattenSeq(Append(x, d)) = FlattenSeq(x) \o d
<1> DEFINE n == Len(path)
           w == path[n]
           d == Decimal(Index(w))
<1>1. n \in 1..n /\ n - 1 \in 0..n /\ w \in Words /\ ~(n < n)
  OBVIOUS
<1>2. PICK x : x = PiecesTo(path, n - 1)
  OBVIOUS
<1>3. x \in Seq(PieceTexts) /\ Pieces(path) = x \o Group(path, n)
  BY <1>1, <1>2, PiecesToIs
<1>4. Pieces(path) = IF w >= Hardened THEN Append(Append(x, d), << 39 >>) ELSE Append(x, d)
  BY <1>1, <1>3, GroupIs
<1>5. FlattenSeq(x) = Body(path, n - 1) /\ FlattenSeq(x) \in Seq(Printable)
  BY <1>1, <1>2, BodyIs DEF Body
<1>6. d \in PieceTexts
  <2>1. PICK i \in Nat : i = Index(w)
    BY <1>1, IndexIs, HardenedIs
  <2>2. Decimal(i) \in Seq(Digits) /\ IsNumeral(Decimal(i))
    BY DecimalReads
  <2>3. Decimal(i) # << >>
    BY <2>2 DEF IsNumeral, IsNumber
  <2> QED BY <2>1, <2>2, <2>3, TextCharacters DEF PieceTexts
<1>7. FlattenSeq(Append(x, d)) = FlattenSeq(x) \o d
  <2>1. x \in Seq(Seq(Printable)) /\ d \in Seq(Printable)
    BY <1>3, <1>6 DEF PieceTexts
  <2> HIDE DEF d
  <2> QED BY <2>1, FlattenAppend
<1> QED BY <1>1, <1>2, <1>3, <1>4, <1>5, <1>6, <1>7 DEF n

\* What becomes of a path: its text, or it is refused.
Shown(path) ==
  /\ PathText(path).ok =>
       /\ PathText(path).text \in Seq(Printable)
       /\ Len(PathText(path).text) <= PathSize - 1
       /\ PathReads(PathText(path).text, path)
  /\ ~PathText(path).ok => WrittenLength(path) >= PathSize

\* A path is shown as it is, but for the end of a number that has no room, and it
\* is refused only if it has no room.
LEMMA PathShown ==
  ASSUME NEW path \in Seq(Words), path # << >>
  PROVE  Shown(path)
<1> DEFINE n == Len(path)
           w == path[n]
           d == Decimal(Index(w))
           text == PathText(path).text
<1>1. PICK x : x = PiecesTo(path, n - 1)
  OBVIOUS
<1>2. PICK b : b = FlattenSeq(x)
  OBVIOUS
<1>3. /\ x \in Seq(PieceTexts) /\ w \in Words /\ d \in PieceTexts
      /\ b = Body(path, n - 1) /\ b \in Seq(Printable)
      /\ Pieces(path) = IF w >= Hardened THEN Append(Append(x, d), << 39 >>) ELSE Append(x, d)
      /\ FlattenSeq(Append(x, d)) = b \o d
  BY <1>1, <1>2, LastPieces
<1>4. PICK c : c = Component(w)
  OBVIOUS
<1>5. c \in Seq(Printable) /\ Lacks(c, 47, 1, Len(c)) /\ ReadsAs(c, w)
  BY <1>3, <1>4, ComponentReads DEF PieceTexts
<1>6. PathSize \in Nat \ {0}
  BY ReportsAssumption
<1>7. PICK whole : whole = b \o c
  OBVIOUS
<1>8. /\ whole \in Seq(Printable) /\ Len(whole) = Len(b) + Len(c) /\ Len(b) \in Nat /\ Len(c) \in Nat
      /\ \A i \in 1..Len(b) : whole[i] = b[i]
      /\ \A i \in 1..Len(c) : whole[Len(b) + i] = c[i]
      /\ SubSeq(whole, 1, Len(whole)) = whole
  <2>1. whole \in Seq(Printable) /\ Joins(whole, b, c)
    BY <1>3, <1>5, <1>7, Concatenated
  <2>2. SubSeq(whole, 1, Len(whole)) = whole
    BY <2>1
  <2> QED BY <2>1, <2>2 DEF Joins
<1>9. ASSUME text = whole PROVE PathReads(text, path)
  <2>1. LastReads(c, text, path)
    BY <1>5 DEF LastReads
  <2>2. text = Body(path, Len(path) - 1) \o c
    BY <1>3, <1>7, <1>9
  <2> HIDE DEF text
  <2> QED BY <1>5, <2>1, <2>2, LastIsRead
<1>10. CASE w >= Hardened
  <2>1. PICK y : y = Append(x, d)
    OBVIOUS
  <2>2. Pieces(path) = Append(y, << 39 >>) /\ FlattenSeq(y) = b \o d /\ c = d \o << 39 >>
    BY <1>3, <1>4, <1>10, <2>1 DEF Component
  <2>3. y \in Seq(PieceTexts)
    <3> DEFINE D == PieceTexts
    <3> HIDE DEF D, d
    <3>1. x \in Seq(D) /\ d \in D
      BY <1>3 DEF D
    <3> QED BY <2>1, <3>1 DEF D
  <2>4. << 39 >> \in PieceTexts
    BY DEF PieceTexts, Printable
  <2>5. FlattenSeq(y) \o << 39 >> = whole
    <3> HIDE DEF d
    <3>1. d \in Seq(Printable) /\ << 39 >> \in Seq(Printable)
      BY <1>3, <2>4 DEF PieceTexts
    <3>2. (b \o d) \o << 39 >> = b \o (d \o << 39 >>)
      <4>1. PICK e \in Seq(Printable), h \in Seq(Printable), g \in Seq(Printable) :
              e = b /\ h = d /\ g = << 39 >>
        BY <1>3, <3>1, Zenon
      <4>2. (e \o h) \o g = e \o (h \o g)
        BY ConcatAssociates
      <4> QED BY <4>1, <4>2, Zenon
    <3> QED BY <1>7, <2>2, <3>2
  <2>6. PICK long : long = Len(FlattenSeq(y))
    OBVIOUS
  <2>7. PICK ok : ok = PathText(path).ok
    OBVIOUS
  <2>8. /\ FlattenSeq(Pieces(path)) = whole /\ Len(whole) = long + 1 /\ long \in Nat
        /\ ok => /\ long < PathSize - 1
                 /\ text = SubSeq(whole, 1, IF Len(whole) <= PathSize - 1 THEN Len(whole)
                                            ELSE PathSize - 1)
        /\ ok \/ Len(whole) >= PathSize
    <3>1. Len(<< 39 >>) = 1
      OBVIOUS
    <3>2. x \in Seq(Seq(Printable) \ {<< >>}) /\ y \in Seq(Seq(Printable) \ {<< >>}) /\ << 39 >> \in Seq(Printable) \ {<< >>}
      BY <1>3, <2>3, <2>4 DEF PieceTexts
    <3>3. CutIn(path, y, << 39 >>)
      BY <2>2, <3>2, CutAtTheEnd, Zenon
    <3> HIDE DEF text
    <3>4. PICK q : q = << 39 >>
      OBVIOUS
    <3>5. CutIn(path, y, q) /\ FlattenSeq(y) \o q = whole /\ Len(q) = 1
      BY <2>5, <3>1, <3>3, <3>4, Zenon
    <3> QED BY <2>6, <2>7, <3>5, Zenon DEF CutIn, text
  <2>9. ASSUME ok PROVE text = whole /\ Len(whole) <= PathSize - 1
    <3>1. long < PathSize - 1
      BY <2>8, <2>9
    <3>2. Len(whole) <= PathSize - 1
      BY <1>6, <2>8, <3>1
    <3> QED BY <1>8, <2>8, <2>9, <3>2
  <2>10. Len(whole) = WrittenLength(path)
    BY <2>8, WrittenIs
  <2> QED BY <1>8, <1>9, <2>7, <2>8, <2>9, <2>10 DEF Shown
<1>11. CASE ~(w >= Hardened)
  <2>1. Pieces(path) = Append(x, d) /\ c = d
    <3>1. d \o << >> = d
      <4> HIDE DEF d
      <4> QED BY <1>3 DEF PieceTexts
    <3> QED BY <1>3, <1>4, <1>11, <3>1 DEF Component
  <2>2. PICK ok : ok = PathText(path).ok
    OBVIOUS
  <2>3. /\ FlattenSeq(Pieces(path)) = whole
        /\ ok => /\ Len(b) < PathSize - 1
                 /\ text = SubSeq(whole, 1, IF Len(whole) <= PathSize - 1 THEN Len(whole)
                                            ELSE PathSize - 1)
        /\ ok \/ Len(whole) >= PathSize
    <3>1. x \in Seq(Seq(Printable) \ {<< >>}) /\ c \in Seq(Printable) \ {<< >>}
      BY <1>3, <2>1 DEF PieceTexts
    <3> HIDE DEF d
    <3>2. Pieces(path) = Append(x, c)
      BY <2>1
    <3>3. CutIn(path, x, c)
      BY <3>1, <3>2, CutAtTheEnd, Zenon
    <3>4. FlattenSeq(x) \o c = whole
      BY <1>2, <1>7
    <3> QED BY <1>2, <2>2, <3>3, <3>4, Zenon DEF CutIn
  <2>4. Len(whole) = WrittenLength(path)
    BY <2>3, WrittenIs
  <2>5. ASSUME ok, Len(whole) <= PathSize - 1
        PROVE  text = whole
    BY <1>8, <2>3, <2>5
  <2>6. ASSUME ok, ~(Len(whole) <= PathSize - 1)
        PROVE  text \in Seq(Printable) /\ Len(text) = PathSize - 1 /\ PathReads(text, path)
    <3>1. text = SubSeq(whole, 1, PathSize - 1) /\ Len(b) < PathSize - 1
      BY <2>3, <2>6
    <3>2. PICK m \in Nat : m = PathSize - 1 - Len(b) /\ m > 0 /\ m < Len(c) /\ Len(b) + m = PathSize - 1
      <4>1. Len(b) \in Nat /\ Len(c) \in Nat /\ Len(whole) = Len(b) + Len(c)
        BY <1>8
      <4>2. PICK m : m = PathSize - 1 - Len(b)
        OBVIOUS
      <4>3. m \in Nat /\ m > 0 /\ m < Len(c) /\ Len(b) + m = PathSize - 1
        BY <1>6, <2>6, <3>1, <4>1, <4>2
      <4> QED BY <4>2, <4>3
    <3>3. PICK a : a = SubSeq(c, 1, m)
      OBVIOUS
    <3>4. a \in Seq(Printable) /\ Len(a) = m /\ \A i \in 1..m : a[i] = c[i]
      BY <1>5, <3>2, <3>3
    <3>5. PICK t : t = SubSeq(whole, 1, PathSize - 1)
      OBVIOUS
    <3>6. t \in Seq(Printable) /\ Len(t) = PathSize - 1 /\ \A i \in 1..(PathSize - 1) : t[i] = whole[i]
      BY <1>6, <1>8, <2>6, <3>5
    <3>7. t = b \o a
      <4>1. PICK j : j = b \o a
        OBVIOUS
      <4>2. j \in Seq(Printable) /\ Joins(j, b, a)
        BY <1>3, <3>4, <4>1, Concatenated
      <4>3. Len(j) = PathSize - 1 
              /\ (\A i \in 1..Len(b) : j[i] = b[i]) /\ (\A i \in 1..m : j[Len(b) + i] = a[i])
        BY <3>2, <3>4, <4>2 DEF Joins
      <4>4. ASSUME NEW i \in 1..(PathSize - 1) PROVE t[i] = j[i]
        <5>1. CASE i <= Len(b)
          <6>1. i \in 1..Len(b)
            BY <1>8, <5>1
          <6> QED BY <1>8, <3>6, <4>3, <6>1
        <5>2. CASE ~(i <= Len(b))
          <6>1. PICK k : k = i - Len(b)
            OBVIOUS
          <6>2. k \in 1..m /\ Len(b) + k = i /\ k \in 1..Len(c)
            BY <1>6, <1>8, <3>2, <5>2, <6>1
          <6>3. whole[Len(b) + k] = c[k] /\ j[Len(b) + k] = a[k] /\ a[k] = c[k]
            <7>1. whole[Len(b) + k] = c[k]
              <8>1. \A l \in 1..Len(c) : whole[Len(b) + l] = c[l]
                BY <1>8
              <8> QED BY <6>2, <8>1
            <7>2. j[Len(b) + k] = a[k]
              <8>1. \A l \in 1..m : j[Len(b) + l] = a[l]
                BY <4>3
              <8> QED BY <6>2, <8>1
            <7> QED BY <3>4, <6>2, <7>1, <7>2
          <6> QED BY <3>6, <6>2, <6>3
        <5> QED BY <5>1, <5>2
      <4>5. t = j
        BY <3>6, <4>2, <4>3, <4>4
      <4> QED BY <4>1, <4>5
    <3>8. Lacks(a, 47, 1, Len(a))
      <4>1. \A i \in 1..m : i \in 1..Len(c)
        BY <1>8, <3>2
      <4>2. \A i \in 1..Len(c) : c[i] # 47
        BY <1>5 DEF Lacks
      <4>3. \A i \in 1..m : a[i] # 47
        BY <3>4, <4>1, <4>2
      <4> QED BY <3>4, <4>3 DEF Lacks
    <3>9. CutShort(a, w)
      <4>1. w < Hardened /\ w = Index(w)
        <5>1. w \in Words /\ w \in Nat /\ Hardened \in Nat /\ ~(w >= Hardened)
          BY <1>3, <1>11, IndexIs, HardenedIs
        <5>2. w < Hardened
          BY <5>1
        <5> QED BY <5>1, <5>2, IndexIs
      <4>2. Decimal(w) = c
        BY <2>1, <4>1
      <4>3. a # << >> /\ a # c
        BY <3>2, <3>4
      <4>4. IsPrefix(a, c)
        <5>1. SubSeq(a, 1, Len(a)) = a /\ SubSeq(c, 1, Len(a)) = a
          BY <3>3, <3>4
        <5> QED BY <3>2, <3>4, <5>1 DEF IsPrefix
      <4> QED BY <4>1, <4>2, <4>3, <4>4 DEF CutShort, IsStrictPrefix
    <3>10. WrittenLength(path) >= PathSize
      BY <1>6, <1>8, <2>4, <2>6
    <3>11. LastReads(a, t, path)
      BY <3>6, <3>9, <3>10 DEF LastReads
    <3>12. t = Body(path, Len(path) - 1) \o a
      BY <1>3, <3>7
    <3>13. PathReads(t, path)
      BY <3>4, <3>8, <3>11, <3>12, LastIsRead
    <3> QED BY <3>1, <3>5, <3>6, <3>13
  <2>7. PathSize - 1 <= PathSize - 1
    BY <1>6
  <2> HIDE DEF text
  <2> QED BY <1>8, <1>9, <2>2, <2>3, <2>4, <2>5, <2>6, <2>7 DEF Shown, text
<1> QED BY <1>10, <1>11

-----------------------------------------------------------------------------
\* The replies.

\* A number that signing can come up with.
Nonzero(x) == x \in Scalars /\ \E i \in 1..ScalarLength : x[i] # 0

\* A number takes at most one byte more than a word of the curve.
LEMMA DerNumberType ==
  ASSUME NEW x, Nonzero(x)
  PROVE  DerNumber(x) \in Seq(Byte) /\ Len(DerNumber(x)) \in 1..(ScalarLength + 1)
<1> DEFINE S == { i \in 1..ScalarLength : x[i] # 0 }
           first == Min(S)
           digits == SubSeq(x, first, ScalarLength)
           pad == IF x[first] > 127 THEN << 0 >> ELSE << >>
<1>1. S \subseteq Nat /\ S # {}
  BY DerAssumption DEF Nonzero
<1>2. first \in S
  <2> HIDE DEF S
  <2> QED BY <1>1, Least
<1>3. first \in 1..ScalarLength /\ ScalarLength \in Nat \ {0}
  BY <1>2, DerAssumption
<1> HIDE DEF first
<1>4. x \in Seq(Byte) /\ Len(x) = ScalarLength
  BY DerAssumption, SeqOfFunction DEF Nonzero, Scalars
<1>5. digits \in Seq(Byte) /\ Len(digits) = ScalarLength - first + 1
  <2> HIDE DEF S
  <2> QED BY <1>3, <1>4
<1>6. pad \in Seq(Byte) /\ Len(pad) \in 0..1
  <2>1. << 0 >> \in Seq(Byte) /\ Len(<< 0 >>) = 1 /\ << >> \in Seq(Byte) /\ Len(<< >>) = 0
    BY DEF Byte
  <2> QED BY <2>1
<1>7. DerNumber(x) = pad \o digits
  BY DEF DerNumber, first
<1> HIDE DEF pad, digits
<1>8. pad \o digits \in Seq(Byte) /\ Len(pad \o digits) = Len(pad) + Len(digits)
  BY <1>5, <1>6, ConcatType
<1>9. Len(pad) + Len(digits) \in 1..(ScalarLength + 1)
  <2>1. PICK p \in Nat, d \in Nat, l \in Nat, f \in Nat :
          /\ p = Len(pad) /\ d = Len(digits) /\ l = ScalarLength /\ f = first
          /\ p \in 0..1 /\ f \in 1..l /\ d = l - f + 1
    <3>1. Len(pad) \in Nat
      BY <1>6
    <3>2. Len(digits) \in Nat
      BY <1>5
    <3>3. first \in Nat /\ ScalarLength \in Nat
      BY <1>3
    <3>4. Len(pad) \in 0..1
      BY <1>6
    <3>5. first \in 1..ScalarLength
      BY <1>3
    <3>6. Len(digits) = ScalarLength - first + 1
      BY <1>5
    <3> QED BY <3>1, <3>2, <3>3, <3>4, <3>5, <3>6, Zenon
  <2>2. p + d \in 1..(l + 1)
    BY <2>1
  <2> QED BY <2>1, <2>2
<1> QED BY <1>7, <1>8, <1>9

\* DER is a sequence of bytes.
LEMMA DerType ==
  ASSUME NEW r, NEW s, Nonzero(r), Nonzero(s)
  PROVE  Der(r, s) \in Seq(Byte)
<1>1. PICK a, b : a = DerNumber(r) /\ b = DerNumber(s)
  OBVIOUS
<1>2. /\ a \in Seq(Byte) /\ Len(a) \in 1..(ScalarLength + 1)
      /\ b \in Seq(Byte) /\ Len(b) \in 1..(ScalarLength + 1)
  BY <1>1, DerNumberType
<1>3. ScalarLength \in Nat /\ ScalarLength <= 49
  BY DerAssumption, ReportsAssumption
<1>4. PICK h, i : h = << 48, Len(a) + Len(b) + 4, 2, Len(a) >> /\ i = << 2, Len(b) >>
  OBVIOUS
<1>5. Len(a) \in Byte /\ Len(b) \in Byte /\ Len(a) + Len(b) + 4 \in Byte /\ 48 \in Byte /\ 2 \in Byte
  <2>1. PICK m \in Nat, n \in Nat, l \in Nat :
          m = Len(a) /\ n = Len(b) /\ l = ScalarLength /\ m <= l + 1 /\ n <= l + 1 /\ l <= 49
    BY <1>2, <1>3
  <2>2. m <= 255 /\ n <= 255 /\ m + n + 4 <= 255 /\ m + n + 4 \in Nat
    BY <2>1
  <2>6. m <= 255 /\ n <= 255
    BY <2>2
  <2>3. m \in 0..255 /\ n \in 0..255
    BY <2>6
  <2>4. m + n + 4 \in 0..255
    BY <2>2
  <2>5. 48 \in 0..255 /\ 2 \in 0..255
    OBVIOUS
  <2> QED BY <2>1, <2>3, <2>4, <2>5 DEF Byte
<1>6. h \in Seq(Byte) /\ i \in Seq(Byte)
  BY <1>4, <1>5
<1>7. h \o a \in Seq(Byte)
  BY <1>2, <1>6, ConcatType
<1>8. (h \o a) \o i \in Seq(Byte)
  BY <1>6, <1>7, ConcatType
<1>9. ((h \o a) \o i) \o b \in Seq(Byte)
  BY <1>2, <1>8, ConcatType
<1>10. Der(r, s) = h \o a \o i \o b
  BY <1>1, <1>4, Zenon DEF Der
<1> QED BY <1>9, <1>10

\* helper_send_response_sig reads bytes within the signature.
LEMMA SignedType ==
  ASSUME NEW r, NEW s, Nonzero(r), Nonzero(s)
  PROVE  \A i \in 0..(MAX_DER_SIG_LEN - 1) : Signed(r, s)[i] \in Byte
<1>1. PICK d \in Seq(Byte) : d = Der(r, s)
  BY DerType
<1>2. PICK n \in Nat : n = Len(d)
  OBVIOUS
<1> SUFFICES ASSUME NEW i \in 0..(MAX_DER_SIG_LEN - 1) PROVE Store(NoSignature, 0, d)[i] \in Byte
  BY <1>1 DEF Signed
<1>3. /\ DOMAIN NoSignature = 0..(MAX_DER_SIG_LEN - 1) /\ NoSignature[i] \in Byte
      /\ MAX_DER_SIG_LEN \in Nat
  BY DerAssumption DEF NoSignature, Byte
<1>4. CASE i \in 0..(n - 1)
  <2>1. i + 1 \in 1..Len(d) /\ 0 + (i + 1) - 1 = i
    BY <1>2, <1>4
  <2>2. d[i + 1] \in Byte
    BY <2>1, ElementType
  <2>3. Store(NoSignature, 0, d)[0 + (i + 1) - 1] = d[i + 1]
    BY <1>2, <2>1, StoredCell
  <2> QED BY <2>1, <2>2, <2>3
<1>5. CASE i \notin 0..(n - 1)
  <2>1. i \in DOMAIN NoSignature \ 0..(0 + Len(d) - 1)
    BY <1>2, <1>3, <1>5
  <2>2. Store(NoSignature, 0, d)[i] = NoSignature[i]
    <3>1. Len(d) \in Nat /\ 0 \in Int
      OBVIOUS
    <3> QED BY <2>1, <3>1, StoreCells
  <2> QED BY <1>3, <2>2
<1> QED BY <1>4, <1>5

\* The reply with a signature is bytes, and fits.
LEMMA ResponseSigType ==
  ASSUME NEW r, NEW s, Nonzero(r), Nonzero(s), NEW v \in {0, 1}
  PROVE  /\ ResponseSig(Signed(r, s), v) \in Seq(Byte)
         /\ Len(ResponseSig(Signed(r, s), v)) <= 99
<1> DEFINE m == Signed(r, s)
           a == SkipZero(m, 4)
           b == SkipZero(m, a + ScalarLength + 2)
<1>1. ScalarLength \in Nat /\ 2 * ScalarLength + 8 <= MAX_DER_SIG_LEN /\ MAX_DER_SIG_LEN \in Nat
      /\ 1 + 2 * ScalarLength <= 99
  BY DerAssumption, ReportsAssumption
<1>2. \A i \in 0..(MAX_DER_SIG_LEN - 1) : m[i] \in Byte
  BY SignedType
<1> HIDE DEF m
<1>3. a \in 4..5
  BY DEF SkipZero
<1>4. b \in (a + ScalarLength + 2)..(a + ScalarLength + 3)
  <2> HIDE DEF a
  <2> QED BY <1>1, <1>3 DEF SkipZero
<1> HIDE DEF a, b
<1>5. ASSUME NEW at \in 0..(ScalarLength + 8)
      PROVE  BytesAt(m, at, ScalarLength) \in Seq(Byte) /\ Len(BytesAt(m, at, ScalarLength)) = ScalarLength
  <2>1. \A i \in 1..ScalarLength : at + i - 1 \in 0..(MAX_DER_SIG_LEN - 1)
    BY <1>1
  <2>2. BytesAt(m, at, ScalarLength) \in [1..ScalarLength -> Byte]
    BY <1>2, <2>1 DEF BytesAt
  <2> QED BY <1>1, <2>2, SeqOfFunction
<1>6. a \in 0..(ScalarLength + 8) /\ b \in 0..(ScalarLength + 8)
  BY <1>1, <1>3, <1>4
<1>7. PICK x, y, w : x = BytesAt(m, a, ScalarLength) /\ y = BytesAt(m, b, ScalarLength) /\ w = << v >>
  OBVIOUS
<1>8. x \in Seq(Byte) /\ Len(x) = ScalarLength /\ y \in Seq(Byte) /\ Len(y) = ScalarLength
  BY <1>5, <1>6, <1>7
<1>9. w \in Seq(Byte) /\ Len(w) = 1
  BY <1>7 DEF Byte
<1>10. w \o x \in Seq(Byte) /\ Len(w \o x) = 1 + ScalarLength
  <2>1. w \o x \in Seq(Byte) /\ Len(w \o x) = Len(w) + Len(x)
    BY <1>8, <1>9, ConcatType, Zenon
  <2> QED BY <1>8, <1>9, <2>1, Zenon
<1>11. (w \o x) \o y \in Seq(Byte) /\ Len((w \o x) \o y) = 1 + ScalarLength + ScalarLength
  <2>1. (w \o x) \o y \in Seq(Byte) /\ Len((w \o x) \o y) = Len(w \o x) + Len(y)
    BY <1>8, <1>10, ConcatType, Zenon
  <2> QED BY <1>8, <1>10, <2>1, Zenon
<1>12. ResponseSig(m, v) = w \o x \o y
  BY <1>7, Zenon DEF ResponseSig, a, b
<1> QED BY <1>1, <1>11, <1>12 DEF m

\* The reply with a public key is bytes, and fits.
LEMMA ResponsePubkeyType ==
  ASSUME NEW req \in Requests
  PROVE  ResponsePubkey(req) \in Seq(Byte) /\ Len(ResponsePubkey(req)) <= 99
<1>1. PICK k, c : k = PublicKey(req.path) /\ c = ChainCode(req.path)
  OBVIOUS
<1>2. k \in [1..64 -> Byte] /\ c \in [1..32 -> Byte]
  BY <1>1, RequestsAssumption
<1>3. k \in Seq(Byte) /\ Len(k) = 64 /\ c \in Seq(Byte) /\ Len(c) = 32
  <2>1. k \in Seq(Byte) /\ Len(k) = 64
    <3>1. 64 \in Nat /\ k \in [1..64 -> Byte]
      BY <1>2
    <3> QED BY <3>1, SeqOfFunction, Zenon
  <2>2. c \in Seq(Byte) /\ Len(c) = 32
    <3>1. 32 \in Nat /\ c \in [1..32 -> Byte]
      BY <1>2
    <3> QED BY <3>1, SeqOfFunction, Zenon
  <2> QED BY <2>1, <2>2
<1>4. PICK a, b : a = << 65, 4 >> /\ b = << 32 >>
  OBVIOUS
<1>5. a \in Seq(Byte) /\ Len(a) = 2 /\ b \in Seq(Byte) /\ Len(b) = 1 /\ << >> \in Seq(Byte) /\ Len(<< >>) = 0
  BY <1>4 DEF Byte
<1>6. b \o c \in Seq(Byte) /\ Len(b \o c) = 33
  <2>1. b \o c \in Seq(Byte) /\ Len(b \o c) = Len(b) + Len(c)
    <3>1. b \in Seq(Byte) /\ c \in Seq(Byte)
      BY <1>3, <1>5, Zenon
    <3> QED BY <3>1, ConcatType, Zenon
  <2> QED BY <1>3, <1>5, <2>1
<1>7. PICK d : d = IF req.chaincode THEN b \o c ELSE << >>
  OBVIOUS
<1>8. d \in Seq(Byte) /\ Len(d) <= 33 /\ Len(d) \in Nat
  BY <1>5, <1>6, <1>7
<1>9. a \o k \in Seq(Byte) /\ Len(a \o k) = 66
  <2>1. a \o k \in Seq(Byte) /\ Len(a \o k) = Len(a) + Len(k)
    <3>1. a \in Seq(Byte) /\ k \in Seq(Byte)
      BY <1>3, <1>5, Zenon
    <3> QED BY <3>1, ConcatType, Zenon
  <2> QED BY <1>3, <1>5, <2>1
<1>10. (a \o k) \o d \in Seq(Byte) /\ Len((a \o k) \o d) = Len(a \o k) + Len(d)
  BY <1>8, <1>9, ConcatType
<1>11. ResponsePubkey(req) = a \o k \o d
  BY <1>1, <1>4, <1>7, Zenon DEF ResponsePubkey
<1> QED BY <1>8, <1>9, <1>10, <1>11

\* len_str
LEMMA LengthTextType ==
  ASSUME NEW n \in Words
  PROVE  /\ LengthText(n) \in Seq({ MINUS } \cup ZERO..(ZERO + 9))
         /\ Len(LengthText(n)) < LenStrSize
<1> DEFINE A == { MINUS } \cup ZERO..(ZERO + 9)
           text == IF n < Hardened THEN Decimal(n) ELSE << MINUS >> \o Decimal(2^WordBits - n)
<1>1. Digits \subseteq A /\ << MINUS >> \in Seq(A)
  BY DEF Digits
<1>2. text \in Seq(A)
  <2>1. n \in Nat /\ 2^WordBits - n \in Nat
    BY WordLimitType DEF Words, WordLimit
  <2>2. Decimal(n) \in Seq(Digits)
    BY <2>1, DecimalReads
  <2>3. Decimal(2^WordBits - n) \in Seq(Digits)
    <3>1. PICK k \in Nat : k = 2^WordBits - n
      BY <2>1
    <3>2. Decimal(k) \in Seq(Digits)
      BY DecimalReads
    <3> QED BY <3>1, <3>2
  <2> HIDE DEF A
  <2>4. Decimal(n) \in Seq(A) /\ Decimal(2^WordBits - n) \in Seq(A)
    BY <1>1, <2>2, <2>3, SeqMonotone
  <2>5. << MINUS >> \o Decimal(2^WordBits - n) \in Seq(A)
    BY <1>1, <2>4, ConcatType
  <2> QED BY <2>4, <2>5
<1>3. LengthText(n) = SubSeq(text, 1, Min({ Len(text), LenStrSize - 1 }))
  BY DEF LengthText
<1> HIDE DEF text, A
<1>4. PICK a \in Nat : a = Len(text)
  BY <1>2
<1>5. PICK b \in Nat : b = LenStrSize - 1
  BY ReportsAssumption
<1>6. Min({ a, b }) = IF a <= b THEN a ELSE b
  BY MinOfTwo
<1>7. PICK m \in Nat : m = Min({ a, b }) /\ m <= a /\ m <= b
  BY <1>6
<1>8. SubSeq(text, 1, m) \in Seq(A) /\ Len(SubSeq(text, 1, m)) = m
  <2>1. m <= Len(text)
    BY <1>4, <1>7
  <2> QED BY <1>2, <2>1, PrefixOfType
<1>9. LengthText(n) = SubSeq(text, 1, m)
  BY <1>3, <1>4, <1>5, <1>7
<1>10. m < LenStrSize
  <2>1. PICK l \in Nat : l = LenStrSize /\ b = l - 1
    BY <1>5, ReportsAssumption
  <2> QED BY <1>7, <2>1
<1> QED BY <1>8, <1>9, <1>10 DEF A

-----------------------------------------------------------------------------
\* The memory of the texts.

\* What a cell holds: a character or the terminator.
Cells == 0..127

\* The union of the strings, and nothing but it.
Memory(m) == DOMAIN m = Strings /\ \A i \in Strings : m[i] \in Cells

\* Its size.
Room == AddressSize + Max({ PathSize, AddressSize, HashSize })

\* The union is as large as its largest member.
LEMMA RoomIs ==
  /\ Room \in Nat /\ Strings = 0..(Room - 1)
  /\ AddressSize + PathSize <= Room /\ 2 * AddressSize <= Room
  /\ AddressSize + HashSize <= Room
<1> DEFINE S == { PathSize, AddressSize, HashSize }
<1>1. PathSize \in Nat /\ AddressSize \in Nat /\ HashSize \in Nat
  BY ReportsAssumption
<1>2. \E x \in S : \A y \in S : x >= y
  <2>1. CASE PathSize >= AddressSize /\ PathSize >= HashSize
    BY <1>1, <2>1
  <2>2. CASE AddressSize >= PathSize /\ AddressSize >= HashSize
    BY <1>1, <2>2
  <2>3. CASE HashSize >= PathSize /\ HashSize >= AddressSize
    BY <1>1, <2>3
  <2> QED BY <1>1, <2>1, <2>2, <2>3
<1>3. Max(S) \in S /\ \A y \in S : Max(S) >= y
  <2> HIDE DEF S
  <2> QED BY <1>2, Zenon DEF Max
<1>4. PICK m \in Nat : m = Max(S) /\ m >= PathSize /\ m >= AddressSize /\ m >= HashSize
  BY <1>1, <1>3
<1>5. Room = AddressSize + m
  BY <1>4 DEF Room
<1>6. Room \in Nat /\ AddressSize + PathSize <= Room /\ 2 * AddressSize <= Room
      /\ AddressSize + HashSize <= Room
  BY <1>1, <1>4, <1>5
<1>7. Strings = 0..(Room - 1)
  <2>1. AddressSize + (m - 1) = Room - 1
    BY <1>1, <1>4, <1>5
  <2>2. Strings = 0..(AddressSize + (m - 1))
    BY <1>4, Zenon DEF Strings
  <2> QED BY <2>1, <2>2
<1> QED BY <1>6, <1>7

\* A store within the union leaves it as it is.
LEMMA StoreMemory ==
  ASSUME NEW m, Memory(m), NEW at \in Nat, NEW s \in Seq(Cells), at + Len(s) <= Room
  PROVE  Memory(Store(m, at, s))
<1>1. PICK n \in Nat : n = Len(s)
  OBVIOUS
<1>6. /\ DOMAIN Store(m, at, s) = DOMAIN m \cup at..(at + Len(s) - 1)
      /\ \A i \in DOMAIN m \ at..(at + Len(s) - 1) : Store(m, at, s)[i] = m[i]
  <2>1. at \in Int /\ Len(s) \in Nat
    OBVIOUS
  <2> QED BY <2>1, StoreCells, Zenon
<1>2. DOMAIN Store(m, at, s) = DOMAIN m \cup at..(at + n - 1)
  BY <1>1, <1>6, Zenon
<1>3. at..(at + n - 1) \subseteq Strings
  BY <1>1, RoomIs
<1>4. DOMAIN Store(m, at, s) = Strings
  BY <1>2, <1>3 DEF Memory
<1>5. ASSUME NEW i \in Strings PROVE Store(m, at, s)[i] \in Cells
  <2>1. i \in Int
    BY RoomIs
  <2>2. CASE i \in at..(at + n - 1)
    <3>1. PICK k \in Nat : k = i - at + 1 /\ k \in 1..n
      BY <2>1, <2>2
    <3>2. at + k - 1 = i
      BY <2>1, <3>1
    <3>3. k \in 1..Len(s)
      BY <1>1, <3>1
    <3>4. Store(m, at, s)[at + k - 1] = s[k]
      BY <1>1, <3>3, StoredCell
    <3>5. s[k] \in Cells
      BY <3>3, ElementType
    <3> QED BY <3>2, <3>4, <3>5
  <2>3. CASE i \notin at..(at + n - 1)
    <3>1. i \in DOMAIN m \ at..(at + n - 1)
      BY <2>3 DEF Memory
    <3>2. Store(m, at, s)[i] = m[i]
      BY <1>1, <1>6, <3>1, Zenon
    <3> QED BY <3>2 DEF Memory
  <2> QED BY <2>2, <2>3
<1> QED BY <1>4, <1>5 DEF Memory

\* A text with its terminator.
LEMMA TerminatedType ==
  ASSUME NEW s \in Seq(Printable)
  PROVE  Terminated(s) \in Seq(Cells) /\ Len(Terminated(s)) = Len(s) + 1 /\ s \in Seq(Cells)
<1>1. Printable \subseteq Cells /\ NUL \in Cells
  BY DEF Printable, Cells, NUL
<1>2. s \in Seq(Cells)
  BY <1>1, SeqMonotone
<1> QED BY <1>1, <1>2, AppendType DEF Terminated

\* An address that fits its field is stored in it.
LEMMA EncodeStored ==
  ASSUME NEW m, Memory(m), NEW address \in Addresses, NEW id \in Nat,
         LengthFits(id, AddressSize), NEW at \in Nat, at + AddressSize <= Room
  PROVE  Memory(Store(m, at, Encode(address, id)))
<1>1. PICK t \in Seq(Printable) : t = AddressText(address, id)
  BY EncodeIs
<1>2. PICK k : k = Len(Prefix(id))
  OBVIOUS
<1>3. k \in Nat
  <2>1. Prefix(id) \in Seq(Printable)
    BY PrefixType
  <2> QED BY <1>2, <2>1
<1>4. Len(t) = k + 42 /\ Encode(address, id) = Terminated(t)
  BY <1>1, <1>2, EncodeIs
<1>5. Terminated(t) \in Seq(Cells) /\ Len(Terminated(t)) = k + 43
  <2>1. Terminated(t) \in Seq(Cells) /\ Len(Terminated(t)) = Len(t) + 1
    BY TerminatedType
  <2> QED BY <1>3, <1>4, <2>1
<1>6. AddressSize >= k + 43 /\ AddressSize \in Nat
  <2>1. AddressSize >= k + 34 + 8 + 1
    BY <1>2 DEF LengthFits
  <2>2. AddressSize \in Nat
    BY ReportsAssumption
  <2> QED BY <1>3, <2>1, <2>2
<1>7. at + Len(Terminated(t)) <= Room
  <2>1. at + (k + 43) <= Room
    BY <1>3, <1>6, RoomIs
  <2> QED BY <1>5, <2>1
<1> QED BY <1>4, <1>5, <1>7, StoreMemory

\* The address of a key is 20 bytes.
LEMMA AddressType ==
  ASSUME NEW req \in Requests
  PROVE  AddressFromPubkey(PublicKey(req.path)) \in Addresses
<1>1. PICK h : h = Keccak(PublicKey(req.path))
  OBVIOUS
<1>2. h \in [1..32 -> Byte]
  BY <1>1, RequestsAssumption
<1>3. h \in Seq(Byte) /\ Len(h) = 32
  BY <1>2, SeqOfFunction
<1>4. PICK a : a = SubSeq(h, 13, 32)
  OBVIOUS
<1>5. a \in Seq(Byte) /\ Len(a) = 20
  <2>1. 13 \in 1..32 /\ 32 \in 13..32
    OBVIOUS
  <2>2. SubSeq(h, 13, 32) \in Seq(Byte) /\ Len(SubSeq(h, 13, 32)) = 32 - 13 + 1
    BY <1>3, <2>1, SubSeqType
  <2> QED BY <1>4, <2>2
<1>6. a \in [1..20 -> Byte] /\ a[1] \in Byte
  <2>1. a \in [1..20 -> Byte]
    BY <1>5, FunctionOfSeq
  <2> QED BY <2>1
<1>7. 16 + (a[1] % 16) \in Byte
  <2>1. PICK x \in Nat : x = a[1] /\ x <= 255
    BY <1>6 DEF Byte
  <2>2. 16 + (x % 16) \in 0..255
    BY <2>1
  <2> QED BY <2>1, <2>2 DEF Byte
<1>8. [a EXCEPT ![1] = 16 + (@ % 16)] \in [1..20 -> Byte]
  BY <1>6, <1>7
<1> QED BY <1>1, <1>4, <1>8 DEF AddressFromPubkey, Addresses, Byte, Octets

\* The chain id that counts is a number.
LEMMA ChainIdWordType ==
  ASSUME NEW chainid \in Seq(Byte)
  PROVE  ChainIdWord(chainid) \in Nat
<1> DEFINE a == Min({ Len(chainid), 2 * WordBytes })
           read == SubSeq(chainid, 1, a)
           high == Max({ 0, Len(read) - WordBytes })
<1>1. WordBytes \in Nat
  BY WordAssumption DEF WordBytes
<1>2. a \in 0..Len(chainid)
  <2>1. PICK n \in Nat, w \in Nat : n = Len(chainid) /\ w = 2 * WordBytes
    BY <1>1
  <2>2. Min({ n, w }) = IF n <= w THEN n ELSE w
    BY MinOfTwo
  <2> QED BY <2>1, <2>2
<1> HIDE DEF a
<1>3. read \in Seq(Byte)
  BY <1>2
<1> HIDE DEF read
<1>4. high \in 0..Len(read)
  <2>1. PICK n \in Nat, w \in Nat : n = Len(read) /\ w = WordBytes
    BY <1>1, <1>3
  <2>2. \E x \in { 0, n - w } : \A y \in { 0, n - w } : x >= y
    BY <2>1
  <2>3. Max({ 0, n - w }) \in { 0, n - w } /\ Max({ 0, n - w }) >= 0
    BY <2>2, Zenon DEF Max
  <2> QED BY <2>1, <2>3
<1> HIDE DEF high
<1>5. SubSeq(read, high + 1, Len(read)) \in Seq(Byte)
  BY <1>3, <1>4
<1>6. SubSeq(read, high + 1, Len(read)) \in Seq(Nat)
  <2>1. Byte \subseteq Nat
    BY DEF Byte
  <2> QED BY <1>5, <2>1, SeqMonotone
<1>7. ChainIdWord(chainid) = Number(SubSeq(read, high + 1, Len(read)), 256)
  BY DEF ChainIdWord, high, read, a
<1>8. Number(SubSeq(read, high + 1, Len(read)), 256) \in Nat
  <2>1. PICK t \in Seq(Nat) : t = SubSeq(read, high + 1, Len(read))
    BY <1>6, Zenon
  <2>2. 256 \in Nat
    OBVIOUS
  <2>3. Number(t, 256) \in Nat
    BY <2>2, NumberType, Zenon
  <2> QED BY <2>1, <2>3, Zenon
<1> QED BY <1>7, <1>8

\* The field of the path is cleared with zeros.
LEMMA ClearedType ==
  /\ Cleared(PathSize) \in Seq(Cells) /\ Len(Cleared(PathSize)) = PathSize
  /\ \A i \in 1..PathSize : Cleared(PathSize)[i] = NUL
<1>1. PathSize \in Nat
  BY ReportsAssumption
<1>2. Cleared(PathSize) \in [1..PathSize -> Cells]
  BY DEF Cleared, NUL, Cells
<1>3. \A i \in 1..PathSize : Cleared(PathSize)[i] = NUL
  BY DEF Cleared
<1> QED BY <1>1, <1>2, <1>3, SeqOfFunction

\* The review of a public key stores within the union.
LEMMA GetPubkeyMemory ==
  ASSUME NEW req \in Requests, req.ins = "GET_PUBLIC_KEY", Memory(strings)
  PROVE  Memory(RenderGetPubkey(req).strings) /\ RenderGetPubkey(req).sw \in Statuses
<1> DEFINE path    == PathText(req.path)
           cleared == Store(strings, PathAt, Cleared(PathSize))
           shown   == Store(cleared, PathAt, path.text)
           whole   == Store(shown, AddressAt, PathAddress(req.path, req.chain))
<1>1. PathSize \in Nat \ {0} /\ PathAt = 0 /\ AddressAt = PathSize
  BY ReportsAssumption DEF PathAt, AddressAt
<1>2. Memory(cleared)
  <2>1. PathAt + Len(Cleared(PathSize)) <= Room
    <3>1. PathSize <= Room
      BY <1>1, RoomIs, ReportsAssumption
    <3> QED BY <1>1, <3>1, ClearedType
  <2> QED BY <1>1, <2>1, ClearedType, StoreMemory
<1> HIDE DEF cleared
<1>3. ASSUME path.ok PROVE Memory(shown)
  <2>1. req.path \in Seq(Words) /\ req.path # << >>
    BY RequestsAssumption DEF Words
  <2>2. path.text \in Seq(Printable) /\ Len(path.text) <= PathSize - 1
    BY <1>3, <2>1, PathShown DEF Shown
  <2>3. path.text \in Seq(Cells)
    BY <2>2, TerminatedType
  <2>4. PathAt + Len(path.text) <= Room
    <3>1. PICK n \in Nat : n = Len(path.text) /\ n <= PathSize - 1
      BY <2>2
    <3>2. 0 + n <= Room
      BY <1>1, <3>1, RoomIs, ReportsAssumption
    <3> QED BY <1>1, <3>1, <3>2
  <2> QED BY <1>1, <1>2, <2>3, <2>4, StoreMemory
<1> HIDE DEF shown
<1>4. ASSUME path.ok, LengthFits(req.chain, AddressSize) PROVE Memory(whole)
  <2>1. req.chain \in Nat
    <3>1. req.chain \in 0..(2^WordBits - 1)
      BY RequestsAssumption, Zenon
    <3> QED BY <3>1
  <2>2. AddressAt + AddressSize <= Room /\ AddressAt \in Nat
    BY <1>1, RoomIs, ReportsAssumption
  <2>3. Memory(shown)
    BY <1>3, <1>4
  <2>4. AddressFromPubkey(PublicKey(req.path)) \in Addresses
    BY AddressType
  <2>5. Memory(Store(shown, AddressAt, Encode(AddressFromPubkey(PublicKey(req.path)), req.chain)))
    BY <1>4, <2>1, <2>2, <2>3, <2>4, EncodeStored
  <2> QED BY <2>5 DEF PathAddress
<1> HIDE DEF whole
<1>5. RenderGetPubkey(req)
        = IF ~path.ok THEN [sw |-> "SW_DISPLAY_BIP32_PATH_FAIL", strings |-> cleared]
          ELSE IF ~LengthFits(req.chain, AddressSize)
          THEN [sw |-> "SW_CIP37_CONVERSION_FAIL", strings |-> shown]
          ELSE [sw |-> "SW_OK", strings |-> whole]
  BY Zenon DEF RenderGetPubkey, cleared, shown, whole
<1> HIDE DEF path
<1> QED BY <1>2, <1>3, <1>4, <1>5 DEF Statuses

\* "New contract" is a text.
LEMMA NewContractType ==
  NewContract \in Seq(Printable) /\ Len(NewContract) = 12
<1>1. NewContract \in [1..12 -> Printable]
  BY DEF NewContract, Printable
<1> QED BY <1>1, SeqOfFunction

\* The texts from the amount on end where the union does.
LEMMA AmountType ==
  Amount \in Seq(Cells) /\ Behind \in Nat /\ Behind + Len(Amount) <= Room
<1>1. Cardinality(Strings) = Room
  <2>1. 0 \in Int /\ Room - 1 \in Int /\ Room \in Nat
    BY RoomIs
  <2>2. Cardinality(0..(Room - 1)) = IF 0 > Room - 1 THEN 0 ELSE (Room - 1) - 0 + 1
    BY <2>1, FS_Interval
  <2>3. Cardinality(0..(Room - 1)) = Room
    BY <2>1, <2>2
  <2> QED BY <2>3, RoomIs
<1>2. Behind \in Nat /\ Behind <= Room
  BY RoomIs, ReportsAssumption DEF Behind
<1>3. PICK n \in Nat : n = Cardinality(Strings) - Behind /\ Behind + n <= Room
  BY <1>1, <1>2, RoomIs
<1>4. Amount = [i \in 1..n |-> 67]
  BY <1>3, Zenon DEF Amount
<1>5. Amount \in [1..n -> Cells]
  BY <1>4 DEF Cells
<1>6. Amount \in Seq(Cells) /\ Len(Amount) = n
  BY <1>5, SeqOfFunction
<1> QED BY <1>2, <1>3, <1>6

\* The review of a transaction stores within the union.
LEMMA SignTxMemory ==
  ASSUME NEW req \in Requests, req.ins = "SIGN_TX", Memory(strings)
  PROVE  Memory(RenderSignTx(req).strings) /\ RenderSignTx(req).sw \in Statuses
<1> DEFINE id     == ChainIdWord(req.chainid)
           sender == Store(strings, SenderAt, PathAddress(req.path, id))
           both   == Store(sender, ReceiverAt, Receiver(req))
           whole  == Store(both, Behind, Amount)
<1>1. AddressSize \in Nat /\ AddressSize >= 20 /\ SenderAt = 0 /\ ReceiverAt = AddressSize
  BY ReportsAssumption DEF SenderAt, ReceiverAt
<1>2. id \in Nat
  <2>1. req.chainid \in Seq(Byte)
    BY RequestsAssumption
  <2> QED BY <2>1, ChainIdWordType
<1> HIDE DEF id
<1>3. ASSUME LengthFits(id, AddressSize) PROVE Memory(sender)
  <2>1. SenderAt + AddressSize <= Room /\ SenderAt \in Nat
    BY <1>1, RoomIs
  <2>2. AddressFromPubkey(PublicKey(req.path)) \in Addresses
    BY AddressType
  <2>3. Memory(Store(strings, SenderAt, Encode(AddressFromPubkey(PublicKey(req.path)), id)))
    BY <1>2, <1>3, <2>1, <2>2, EncodeStored
  <2> QED BY <2>3 DEF PathAddress
<1> HIDE DEF sender
<1>4. ASSUME LengthFits(id, AddressSize) PROVE Memory(both)
  <2>1. ReceiverAt + AddressSize <= Room /\ ReceiverAt \in Nat /\ Memory(sender)
    BY <1>1, <1>3, <1>4, RoomIs
  <2>2. CASE req.destination = << >>
    <3>1. Receiver(req) = Terminated(NewContract)
      BY <2>2, Zenon DEF Receiver
    <3>2. Terminated(NewContract) \in Seq(Cells) /\ Len(Terminated(NewContract)) = 13
      <4>1. PICK t \in Seq(Printable) : t = NewContract /\ Len(t) = 12
        BY NewContractType
      <4>2. Terminated(t) \in Seq(Cells) /\ Len(Terminated(t)) = Len(t) + 1
        BY TerminatedType
      <4> QED BY <4>1, <4>2
    <3>3. ReceiverAt + 13 <= Room
      BY <1>1, <2>1, RoomIs
    <3> QED BY <2>1, <3>1, <3>2, <3>3, StoreMemory
  <2>3. CASE req.destination # << >>
    <3>1. req.destination \in Addresses
      BY <2>3, RequestsAssumption DEF Addresses, Byte, Octets
    <3>2. Receiver(req) = Encode(req.destination, id)
      BY <2>3, Zenon DEF Receiver, id
    <3> QED BY <1>2, <1>4, <2>1, <3>1, <3>2, EncodeStored
  <2> QED BY <2>2, <2>3
<1> HIDE DEF both
<1>5. ASSUME LengthFits(id, AddressSize) PROVE Memory(whole)
  BY <1>4, <1>5, AmountType, StoreMemory
<1> HIDE DEF whole
<1>6. RenderSignTx(req)
        = IF ~LengthFits(id, AddressSize)
          THEN [sw |-> "SW_CIP37_CONVERSION_FAIL", strings |-> strings]
          ELSE [sw |-> "SW_OK", strings |-> whole]
  BY Zenon DEF RenderSignTx, id, sender, both, whole
<1> QED BY <1>5, <1>6 DEF Statuses

\* The review of a message stores within the union.
LEMMA SignPersonalMemory ==
  ASSUME NEW req \in Requests, req.ins = "SIGN_PERSONAL", Memory(strings)
  PROVE  Memory(RenderSignPersonal(req).strings) /\ RenderSignPersonal(req).sw \in Statuses
<1> DEFINE signer == Store(strings, SignerAt, PathAddress(req.path, req.chain))
           hash   == HexPrefix \o FormatHex(req.hash, HashSize - 2)
           whole  == Store(signer, HashAt, hash)
<1>1. AddressSize \in Nat /\ HashSize \in Nat /\ HashSize >= 67 /\ SignerAt = 0 /\ HashAt = AddressSize
  BY ReportsAssumption DEF SignerAt, HashAt
<1>2. req.chain \in Nat /\ req.hash \in [1..32 -> Byte]
  <2>1. { req.chain, req.length } \subseteq 0..(2^WordBits - 1) /\ req.hash \in [1..32 -> Byte]
    BY RequestsAssumption, Zenon
  <2>2. req.chain \in 0..(2^WordBits - 1)
    BY <2>1, Zenon
  <2> QED BY <2>1, <2>2
<1>3. ASSUME LengthFits(req.chain, AddressSize) PROVE Memory(signer)
  <2>1. SignerAt + AddressSize <= Room /\ SignerAt \in Nat
    BY <1>1, RoomIs
  <2>2. AddressFromPubkey(PublicKey(req.path)) \in Addresses
    BY AddressType
  <2>3. Memory(Store(strings, SignerAt, Encode(AddressFromPubkey(PublicKey(req.path)), req.chain)))
    BY <1>2, <1>3, <2>1, <2>2, EncodeStored
  <2> QED BY <2>3 DEF PathAddress
<1> HIDE DEF signer
<1>4. hash \in Seq(Cells) /\ Len(hash) = 67
  <2>1. PICK t : t = HexPrefix \o Hex(req.hash)
    OBVIOUS
  <2>2. /\ t \in Seq(Printable) /\ Len(t) = 66
        /\ HexPrefix \o Terminated(Hex(req.hash)) = Terminated(t)
    BY <1>2, <2>1, HashText DEF ReadsHash
  <2>3. Len(req.hash) = 32
    BY <1>2, SeqOfFunction
  <2>4. FormatHex(req.hash, HashSize - 2) = Terminated(Hex(req.hash))
    BY <1>1, <2>3 DEF FormatHex
  <2>5. hash = Terminated(t)
    BY <2>2, <2>4, Zenon
  <2>6. Terminated(t) \in Seq(Cells) /\ Len(Terminated(t)) = Len(t) + 1
    BY <2>2, TerminatedType
  <2>7. Len(t) + 1 = 67
    BY <2>2
  <2> QED BY <2>5, <2>6, <2>7, Zenon
<1> HIDE DEF hash
<1>5. ASSUME LengthFits(req.chain, AddressSize) PROVE Memory(whole)
  <2>1. HashAt \in Nat /\ HashAt + Len(hash) <= Room
    BY <1>1, <1>4, RoomIs
  <2> QED BY <1>3, <1>4, <1>5, <2>1, StoreMemory
<1> HIDE DEF whole
<1>6. RenderSignPersonal(req)
        = IF ~LengthFits(req.chain, AddressSize)
          THEN [sw |-> "SW_CIP37_CONVERSION_FAIL", strings |-> strings]
          ELSE [sw |-> "SW_OK", strings |-> whole]
  BY Zenon DEF RenderSignPersonal, signer, hash, whole
<1> QED BY <1>5, <1>6 DEF Statuses

\* A review stores texts within the union.
LEMMA RenderMemory ==
  ASSUME NEW req \in Requests, Memory(strings)
  PROVE  Memory(Render(req).strings) /\ Render(req).sw \in Statuses
<1>1. CASE req.ins = "GET_PUBLIC_KEY"
  <2>1. Render(req) = RenderGetPubkey(req)
    BY <1>1 DEF Render
  <2> QED BY <1>1, <2>1, GetPubkeyMemory
<1>2. CASE req.ins = "SIGN_TX"
  <2>1. Render(req) = RenderSignTx(req)
    BY <1>2 DEF Render
  <2> QED BY <1>2, <2>1, SignTxMemory
<1>3. CASE req.ins = "SIGN_PERSONAL"
  <2>1. Render(req) = RenderSignPersonal(req)
    BY <1>3 DEF Render
  <2> QED BY <1>3, <2>1, SignPersonalMemory
<1> QED BY <1>1, <1>2, <1>3, RequestsAssumption

\* No request is the absence of one.
LEMMA NoneIsNoRequest == None \notin Requests
BY RequestsAssumption DEF None

\* The text of a length, if there is one, fits.
LEMMA AnnouncedType ==
  ASSUME NEW req \in Requests, NEW text,
         text = IF req.ins = "SIGN_PERSONAL" THEN LengthText(req.length) ELSE << >>
  PROVE  text \in Seq({ MINUS } \cup ZERO..(ZERO + 9)) /\ Len(text) < LenStrSize
<1>1. CASE req.ins = "SIGN_PERSONAL"
  <2>1. { req.chain, req.length } \subseteq 0..(2^WordBits - 1)
    BY <1>1, RequestsAssumption, Zenon
  <2>2. req.length \in Words
    BY <2>1, Zenon DEF Words
  <2> QED BY <1>1, <2>2, LengthTextType
<1>2. CASE req.ins # "SIGN_PERSONAL"
  <2>1. << >> \in Seq({ MINUS } \cup ZERO..(ZERO + 9)) /\ Len(<< >>) = 0
    OBVIOUS
  <2>2. 0 < LenStrSize
    BY ReportsAssumption
  <2> QED BY <1>2, <2>1, <2>2
<1> QED BY <1>1, <1>2

\* The data of a reply.
Data(d) == d \in Seq(Byte) /\ Len(d) <= 99

\* A reply may be without.
LEMMA NoData == Data(<< >>)
BY DEF Data

\* What is known of a reply.
AnswerType(r) ==
  r # None => r.to \in Requests /\ r.sw \in Statuses /\ Data(r.data)

\* An answer is one of those.
LEMMA AnswersTyped ==
  ASSUME NEW req \in Requests, NEW sw \in Statuses, NEW data, Data(data), Answer(req, sw, data)
  PROVE  AnswerType(reply')
BY DEF Answer, AnswerType

\* What is known of a signature.
MadeType(m) == m # None => m.v \in { 0, 1 } /\ { m.r, m.s } \subseteq SigningScalars

\* TypeOK, in parts.
LEMMA TypeOKIs ==
  TypeOK <=> /\ pc \in { "menu", "review" }
             /\ request \in Requests \cup { None } /\ (pc = "review" => request \in Requests)
             /\ Memory(strings)
             /\ announced \in Seq({ MINUS } \cup ZERO..(ZERO + 9)) /\ Len(announced) < LenStrSize
             /\ AnswerType(reply) /\ MadeType(made)
             /\ requests \in 0..MaxRequests
BY NoneIsNoRequest DEF TypeOK, Memory, Cells, AnswerType, MadeType, Data

\* Every step keeps the types.
LEMMA TypeOKNext ==
  ASSUME TypeOK, [Next]_vars
  PROVE  TypeOK'
<1> DEFINE A == Seq({ MINUS } \cup ZERO..(ZERO + 9))
<1>1. /\ pc \in { "menu", "review" }
      /\ request \in Requests \cup { None } /\ (pc = "review" => request \in Requests)
      /\ Memory(strings)
      /\ announced \in A /\ Len(announced) < LenStrSize
      /\ AnswerType(reply) /\ MadeType(made)
      /\ requests \in 0..MaxRequests
  BY TypeOKIs
<1>2. SUFFICES /\ pc' \in { "menu", "review" }
               /\ request' \in Requests \cup { None }
               /\ pc' = "review" => request' \in Requests
               /\ Memory(strings')
               /\ announced' \in A /\ Len(announced') < LenStrSize
               /\ AnswerType(reply') /\ MadeType(made')
               /\ requests' \in 0..MaxRequests
  <2>1. (None \notin Requests)'
    BY NoneIsNoRequest
  <2> QED BY <2>1 DEF TypeOK, Memory, Cells, AnswerType, MadeType, Data
<1>3. << >> \in A /\ Len(<< >>) < LenStrSize
  BY ReportsAssumption
<1> HIDE DEF A
<1>4. { "SW_OK", "SW_DENY", "SW_SIGNATURE_FAIL" } \subseteq Statuses
  BY DEF Statuses
<1>5. MadeType(None)
  BY DEF MadeType
<1>6. AnswerType(None)
  BY DEF AnswerType
<1>7. Received => requests' \in 0..MaxRequests
  BY <1>1, ReportsAssumption DEF Received
<1>8. ASSUME NEW req \in Requests, ReplyAtOnce(req)
      PROVE  /\ pc' \in { "menu", "review" }
             /\ request' \in Requests \cup { None }
             /\ pc' = "review" => request' \in Requests
             /\ Memory(strings')
             /\ announced' \in A /\ Len(announced') < LenStrSize
             /\ AnswerType(reply') /\ MadeType(made')
             /\ requests' \in 0..MaxRequests
  <2>1. Data(ResponsePubkey(req))
    BY ResponsePubkeyType DEF Data
  <2>2. AnswerType(reply')
    BY <1>4, <1>8, <2>1, AnswersTyped DEF ReplyAtOnce
  <2> QED BY <1>1, <1>3, <1>5, <1>7, <1>8, <2>2 DEF ReplyAtOnce
<1>9. ASSUME NEW req \in Requests, Review(req)
      PROVE  /\ pc' \in { "menu", "review" }
             /\ request' \in Requests \cup { None }
             /\ pc' = "review" => request' \in Requests
             /\ Memory(strings')
             /\ announced' \in A /\ Len(announced') < LenStrSize
             /\ AnswerType(reply') /\ MadeType(made')
             /\ requests' \in 0..MaxRequests
  <2>1. Memory(strings')
    BY <1>1, <1>9, RenderMemory DEF Review
  <2>2. announced' \in A /\ Len(announced') < LenStrSize
    BY <1>9, AnnouncedType DEF Review, A
  <2> QED BY <1>5, <1>6, <1>7, <1>9, <2>1, <2>2 DEF Review
<1>10. ASSUME NEW req \in Requests, RenderFails(req)
       PROVE  /\ pc' \in { "menu", "review" }
              /\ request' \in Requests \cup { None }
              /\ pc' = "review" => request' \in Requests
              /\ Memory(strings')
              /\ announced' \in A /\ Len(announced') < LenStrSize
              /\ AnswerType(reply') /\ MadeType(made')
              /\ requests' \in 0..MaxRequests
  <2>1. Memory(strings') /\ Render(req).sw \in Statuses
    BY <1>1, <1>10, RenderMemory DEF RenderFails
  <2>2. AnswerType(reply')
    BY <1>10, <2>1, NoData, AnswersTyped DEF RenderFails
  <2> QED BY <1>3, <1>5, <1>7, <1>10, <2>1, <2>2 DEF RenderFails, ResetContext
<1>11. CASE ApprovePubkey
  <2>1. request \in Requests
    BY <1>1, <1>11 DEF ApprovePubkey
  <2>2. Data(ResponsePubkey(request))
    BY <2>1, ResponsePubkeyType DEF Data
  <2>3. AnswerType(reply')
    BY <1>4, <1>11, <2>1, <2>2, AnswersTyped DEF ApprovePubkey
  <2> QED BY <1>1, <1>3, <1>11, <2>3 DEF ApprovePubkey, ResetContext
<1>12. CASE ApproveSigning
  <2>1. request \in Requests
    BY <1>1, <1>12 DEF ApproveSigning
  <2>2. PICK r \in SigningScalars, s \in SigningScalars, v \in { 0, 1 } :
          /\ made' = [v |-> v, r |-> r, s |-> s]
          /\ Answer(request, "SW_OK", ResponseSig(Signed(r, s), v))
    BY <1>12 DEF ApproveSigning
  <2>3. Nonzero(r) /\ Nonzero(s)
    BY ReportsAssumption DEF Nonzero
  <2>4. Data(ResponseSig(Signed(r, s), v))
    BY <2>3, ResponseSigType DEF Data
  <2>5. AnswerType(reply')
    BY <1>4, <2>1, <2>2, <2>4, AnswersTyped
  <2>6. MadeType(made')
    BY <2>2 DEF MadeType
  <2> QED BY <1>1, <1>3, <1>12, <2>5, <2>6 DEF ApproveSigning, ResetContext
<1>13. CASE SigningFails
  <2>1. request \in Requests
    BY <1>1, <1>13 DEF SigningFails
  <2>2. AnswerType(reply')
    BY <1>4, <1>13, <2>1, NoData, AnswersTyped DEF SigningFails
  <2> QED BY <1>1, <1>3, <1>13, <2>2 DEF SigningFails, ResetContext
<1>14. CASE Reject
  <2>1. request \in Requests
    BY <1>1, <1>14 DEF Reject
  <2>2. AnswerType(reply')
    BY <1>4, <1>14, <2>1, NoData, AnswersTyped DEF Reject
  <2> QED BY <1>1, <1>3, <1>14, <2>2 DEF Reject, ResetContext
<1>15. CASE UNCHANGED vars
  BY <1>1, <1>15 DEF vars
<1> QED BY <1>8, <1>9, <1>10, <1>11, <1>12, <1>13, <1>14, <1>15 DEF Next

\* The variables keep their types, no text is stored outside the union, len_str is
\* not overrun and no reply is longer than a public key with its chain code:
\* TypeOK holds in every state.
THEOREM TypeOKAlways == Spec => []TypeOK
<1>1. Init => TypeOK
  <2> SUFFICES ASSUME Init PROVE TypeOK
    OBVIOUS
  <2>1. Memory(strings)
    BY DEF Init, Memory, Cells
  <2>2. << >> \in Seq({ MINUS } \cup ZERO..(ZERO + 9)) /\ Len(<< >>) < LenStrSize
    BY ReportsAssumption
  <2>3. AnswerType(reply) /\ MadeType(made)
    BY DEF Init, AnswerType, MadeType
  <2>4. requests \in 0..MaxRequests
    BY ReportsAssumption DEF Init
  <2> QED BY <2>1, <2>2, <2>3, <2>4, TypeOKIs DEF Init
<1>2. TypeOK /\ [Next]_vars => TypeOK'
  BY TypeOKNext
<1> QED BY <1>1, <1>2, PTL DEF Spec

-----------------------------------------------------------------------------
\* The path on the screen.

\* The text of the path is read back from the screen, whatever was there before.
LEMMA PathStored ==
  ASSUME NEW req \in Requests, req.ins = "GET_PUBLIC_KEY", DOMAIN strings \subseteq Int,
         RenderGetPubkey(req).sw = "SW_OK"
  PROVE  /\ TextAt(RenderGetPubkey(req).strings, PathAt) = PathText(req.path).text
         /\ PathReads(PathText(req.path).text, req.path)
<1> DEFINE path    == PathText(req.path)
           cleared == Store(strings, PathAt, Cleared(PathSize))
           shown   == Store(cleared, PathAt, path.text)
           whole   == Store(shown, AddressAt, PathAddress(req.path, req.chain))
<1>1. PathSize \in Nat \ {0} /\ PathAt = 0 /\ AddressAt = PathSize
  BY ReportsAssumption DEF PathAt, AddressAt
<1>2. RenderGetPubkey(req)
        = IF ~path.ok THEN [sw |-> "SW_DISPLAY_BIP32_PATH_FAIL", strings |-> cleared]
          ELSE IF ~LengthFits(req.chain, AddressSize)
          THEN [sw |-> "SW_CIP37_CONVERSION_FAIL", strings |-> shown]
          ELSE [sw |-> "SW_OK", strings |-> whole]
  BY Zenon DEF RenderGetPubkey
<1>3. DOMAIN cleared \subseteq Int /\ DOMAIN shown \subseteq Int /\ DOMAIN whole \subseteq Int
  BY StoreDomain
<1>4. Holds(cleared, 0, Cleared(PathSize))
  BY <1>1, ClearedType, StoreHolds
<1> HIDE DEF cleared
<1>5. path.ok /\ RenderGetPubkey(req).strings = whole
  <2> HIDE DEF path, shown, whole
  <2> QED BY <1>2
<1>6. req.path \in Seq(Words) /\ req.path # << >>
  BY RequestsAssumption DEF Words
<1>7. PICK t \in Seq(Printable) : t = path.text /\ Len(t) <= PathSize - 1
  BY <1>5, <1>6, PathShown DEF Shown
<1>8. PathReads(path.text, req.path)
  BY <1>5, <1>6, PathShown DEF Shown
<1>9. PICK n \in Nat : n = Len(t) /\ n \in 0..(PathSize - 1)
  BY <1>1, <1>7
<1>10. shown = Store(cleared, 0, t)
  BY <1>1, <1>7
<1> HIDE DEF path
<1>11. Holds(shown, 0, t)
  BY <1>9, <1>10, StoreHolds
<1>12. n \in DOMAIN shown /\ shown[n] = NUL
  <2>1. n + 1 \in 1..Len(Cleared(PathSize)) /\ 0 + (n + 1) - 1 = n
    BY <1>1, <1>9, ClearedType
  <2>2. n \in DOMAIN cleared /\ cleared[n] = NUL
    BY <1>1, <1>4, <1>9, <2>1, ClearedType DEF Holds
  <2>3. n \in DOMAIN cleared \ 0..(0 + Len(t) - 1)
    BY <1>9, <2>2
  <2>4. /\ DOMAIN shown = DOMAIN cleared \cup 0..(0 + Len(t) - 1)
        /\ \A i \in DOMAIN cleared \ 0..(0 + Len(t) - 1) : shown[i] = cleared[i]
    <3>1. 0 \in Int /\ Len(t) \in Nat
      OBVIOUS
    <3>2. /\ DOMAIN Store(cleared, 0, t) = DOMAIN cleared \cup 0..(0 + Len(t) - 1)
          /\ \A i \in DOMAIN cleared \ 0..(0 + Len(t) - 1) : Store(cleared, 0, t)[i] = cleared[i]
      BY <3>1, StoreCells, Zenon
    <3> QED BY <1>10, <3>2, Zenon
  <2> QED BY <2>2, <2>3, <2>4
<1> HIDE DEF shown
<1>13. Len(PathAddress(req.path, req.chain)) \in Nat
  <2>1. req.chain \in Nat
    <3>1. req.chain \in 0..(2^WordBits - 1)
      BY RequestsAssumption, Zenon
    <3> QED BY <3>1
  <2>2. AddressFromPubkey(PublicKey(req.path)) \in Addresses
    BY AddressType
  <2>3. PICK a \in Seq(Printable) : Encode(AddressFromPubkey(PublicKey(req.path)), req.chain) = Terminated(a)
    BY <2>1, <2>2, EncodeIs
  <2>4. Terminated(a) \in Seq(Cells)
    BY TerminatedType
  <2>5. Len(Terminated(a)) \in Nat
    BY <2>4
  <2> QED BY <2>3, <2>5 DEF PathAddress
<1>14. \A i \in DOMAIN shown : i < PathSize => i \in DOMAIN whole /\ whole[i] = shown[i]
  <2>1. PICK u : u = PathAddress(req.path, req.chain)
    OBVIOUS
  <2>2. /\ DOMAIN whole = DOMAIN shown \cup AddressAt..(AddressAt + Len(u) - 1)
        /\ \A i \in DOMAIN shown \ AddressAt..(AddressAt + Len(u) - 1) : whole[i] = shown[i]
    <3>1. AddressAt \in Int /\ Len(u) \in Nat
      BY <1>1, <1>13, <2>1
    <3>2. /\ DOMAIN Store(shown, AddressAt, u) = DOMAIN shown \cup AddressAt..(AddressAt + Len(u) - 1)
          /\ \A i \in DOMAIN shown \ AddressAt..(AddressAt + Len(u) - 1) :
               Store(shown, AddressAt, u)[i] = shown[i]
      BY <3>1, StoreCells, Zenon
    <3> QED BY <2>1, <3>2, Zenon
  <2>3. \A i \in DOMAIN shown : i < PathSize => i \notin AddressAt..(AddressAt + Len(u) - 1)
    BY <1>1, <1>3
  <2> QED BY <2>2, <2>3
<1> HIDE DEF whole
<1>15. \A i \in 1..Len(t) : 0 + i - 1 \in DOMAIN whole /\ whole[0 + i - 1] = t[i] /\ t[i] # NUL
  <2> TAKE i \in 1..Len(t)
  <2>1. 0 + i - 1 \in DOMAIN shown /\ shown[0 + i - 1] = t[i]
    BY <1>11 DEF Holds
  <2>2. 0 + i - 1 < PathSize
    BY <1>1, <1>9
  <2>3. t[i] # NUL
    <3>1. t[i] \in Printable /\ NUL \notin Printable
      BY ElementType, TextCharacters
    <3> QED BY <3>1
  <2> QED BY <1>14, <2>1, <2>2, <2>3
<1>16. 0 + Len(t) \in DOMAIN whole /\ whole[0 + Len(t)] = NUL
  <2>1. n \in DOMAIN whole /\ whole[n] = NUL
    BY <1>1, <1>9, <1>12, <1>14
  <2>2. 0 + Len(t) = n
    BY <1>9
  <2> QED BY <2>1, <2>2
<1>17. TextAt(whole, 0) = t
  BY <1>3, <1>15, <1>16, TextIs
<1> QED BY <1>1, <1>5, <1>7, <1>8, <1>17 DEF path

\* PathExact, with the cells numbered.
PathInv ==
  /\ DOMAIN strings \subseteq Int
  /\ Reviewing("GET_PUBLIC_KEY") => PathReads(TextAt(strings, PathAt), request.path)
  /\ reply # None /\ reply.sw = "SW_DISPLAY_BIP32_PATH_FAIL" =>
       WrittenLength(reply.to.path) >= PathSize

\* It is enough.
LEMMA PathInvShows == PathInv => PathExact
BY DEF PathInv, PathExact, PathReads

\* The path has no room.
Refused(req) == WrittenLength(req.path) >= PathSize

\* A path is refused only for its length.
LEMMA PathRefused ==
  ASSUME NEW req \in Requests, Render(req).sw = "SW_DISPLAY_BIP32_PATH_FAIL"
  PROVE  Refused(req)
<1>1. CASE req.ins = "GET_PUBLIC_KEY"
  <2>1. RenderGetPubkey(req).sw = "SW_DISPLAY_BIP32_PATH_FAIL"
    BY <1>1 DEF Render
  <2>2. ~PathText(req.path).ok
    BY <2>1 DEF RenderGetPubkey
  <2>3. req.path \in Seq(Words) /\ req.path # << >>
    BY RequestsAssumption DEF Words
  <2> QED BY <2>2, <2>3, PathShown DEF Shown, Refused
<1>2. CASE req.ins = "SIGN_TX"
  BY <1>2 DEF Render, RenderSignTx
<1>3. CASE req.ins = "SIGN_PERSONAL"
  BY <1>3 DEF Render, RenderSignPersonal
<1> QED BY <1>1, <1>2, <1>3, RequestsAssumption

\* The path on the screen is the path of the key, but for the end of a last number
\* that has no room, and only a path that has no room is refused: PathExact holds
\* in every state.
THEOREM PathExactAlways == Spec => []PathExact
<1>1. Init => PathInv
  <2> SUFFICES ASSUME Init PROVE PathInv
    OBVIOUS
  <2>1. DOMAIN strings \subseteq Int
    BY DEF Init, Strings
  <2> QED BY <2>1 DEF Init, PathInv, Reviewing
<1>2. PathInv /\ [Next]_vars => PathInv'
  <2> SUFFICES ASSUME PathInv, [Next]_vars PROVE PathInv'
    OBVIOUS
  <2> DEFINE Told(r) == r # None /\ r.sw = "SW_DISPLAY_BIP32_PATH_FAIL" => Refused(r.to)
             Fails == "SW_DISPLAY_BIP32_PATH_FAIL"
  <2>1. ASSUME NEW req, NEW sw, NEW data, Answer(req, sw, data), sw = Fails => Refused(req)
        PROVE  Told(reply')
    BY <2>1 DEF Answer
  <2>2. ASSUME NEW req \in Requests, ReplyAtOnce(req) PROVE PathInv'
    <3>1. Told(reply')
      BY <2>1, <2>2 DEF ReplyAtOnce
    <3> QED BY <2>2, <3>1 DEF ReplyAtOnce, PathInv, Reviewing, Refused
  <2>3. ASSUME NEW req \in Requests, Review(req) PROVE PathInv'
    <3>1. /\ Render(req).sw = "SW_OK" /\ strings' = Render(req).strings /\ request' = req
          /\ reply' = None
      BY <2>3 DEF Review
    <3>2. DOMAIN strings' \subseteq Int
      BY <3>1, RenderDomain DEF PathInv
    <3>3. CASE req.ins # "GET_PUBLIC_KEY"
      BY <3>1, <3>2, <3>3 DEF PathInv, Reviewing
    <3>4. CASE req.ins = "GET_PUBLIC_KEY"
      <4>1. Render(req) = RenderGetPubkey(req)
        BY <3>4 DEF Render
      <4>2. PathReads(TextAt(strings', PathAt), req.path)
        BY <3>1, <3>4, <4>1, PathStored DEF PathInv
      <4> QED BY <3>1, <3>2, <4>2 DEF PathInv
    <3> QED BY <3>3, <3>4
  <2>4. ASSUME NEW req \in Requests, RenderFails(req) PROVE PathInv'
    <3>1. strings' = Render(req).strings /\ pc' = "menu"
      BY <2>4 DEF RenderFails, ResetContext
    <3>2. DOMAIN strings' \subseteq Int
      BY <3>1, RenderDomain DEF PathInv
    <3>3. Told(reply')
      BY <2>1, <2>4, PathRefused DEF RenderFails
    <3> QED BY <3>1, <3>2, <3>3 DEF PathInv, Reviewing, Refused
  <2>5. CASE ApprovePubkey
    <3>1. Told(reply')
      BY <2>1, <2>5 DEF ApprovePubkey
    <3> QED BY <2>5, <3>1 DEF ApprovePubkey, ResetContext, PathInv, Reviewing, Refused
  <2>6. CASE ApproveSigning
    <3>1. Told(reply')
      BY <2>1, <2>6 DEF ApproveSigning
    <3> QED BY <2>6, <3>1 DEF ApproveSigning, ResetContext, PathInv, Reviewing, Refused
  <2>7. CASE SigningFails
    <3>1. Told(reply')
      BY <2>1, <2>7 DEF SigningFails
    <3> QED BY <2>7, <3>1 DEF SigningFails, ResetContext, PathInv, Reviewing, Refused
  <2>8. CASE Reject
    <3>1. Told(reply')
      BY <2>1, <2>8 DEF Reject
    <3> QED BY <2>8, <3>1 DEF Reject, ResetContext, PathInv, Reviewing, Refused
  <2>9. CASE UNCHANGED vars
    BY <2>9 DEF vars, PathInv, Reviewing
  <2> QED BY <2>2, <2>3, <2>4, <2>5, <2>6, <2>7, <2>8, <2>9 DEF Next
<1>3. PathInv => PathExact
  BY PathInvShows
<1> QED BY <1>1, <1>2, <1>3, PTL DEF Spec

-----------------------------------------------------------------------------
\* The addresses.

\* An address on any network fits its field.
LEMMA AddressFits ==
  ASSUME NEW id \in Words
  PROVE  id \in Nat /\ id < WordLimit /\ LengthFits(id, AddressSize)
<1>1. WordLimit \in Nat /\ WordLimit > 1029 /\ WordLimit = 2^WordBits
  BY WordLimitType DEF WordLimit
<1>2. id \in Nat /\ id < WordLimit
  <2>1. id \in 0..(WordLimit - 1)
    BY <1>1 DEF Words
  <2> QED BY <1>1, <2>1
<1>3. AddressSize \in Nat
  BY ReportsAssumption
<1>4. LengthFits(WordLimit - 1, AddressSize)
  BY <1>1, AddressSizeAssumption
<1>5. LengthFits(id, AddressSize)
  BY <1>2, <1>3, <1>4, LongestAddress
<1> QED BY <1>2, <1>5

\* Its text with the terminator is no longer than the field.
LEMMA EncodedLength ==
  ASSUME NEW address \in Addresses, NEW id \in Words
  PROVE  Len(Encode(address, id)) \in Nat /\ Len(Encode(address, id)) <= AddressSize
<1>1. id \in Nat /\ LengthFits(id, AddressSize)
  BY AddressFits
<1>2. PICK t \in Seq(Printable) :
        /\ t = AddressText(address, id) /\ Encode(address, id) = Terminated(t)
        /\ Len(t) = Len(Prefix(id)) + 42
  BY <1>1, EncodeIs, Zenon
<1>3. PICK n \in Nat : n = Len(Prefix(id))
  BY <1>1, PrefixType
<1>4. AddressSize >= n + 34 + 8 + 1 /\ AddressSize \in Nat
  BY <1>1, <1>3, ReportsAssumption DEF LengthFits
<1>5. Len(Terminated(t)) = Len(t) + 1
  BY TerminatedType
<1> QED BY <1>2, <1>3, <1>4, <1>5

\* Where it is stored, a wallet reads the address.
LEMMA HoldsAddress ==
  ASSUME NEW m, DOMAIN m \subseteq Int, NEW at \in Int, NEW address \in Addresses,
         NEW id \in Words, Holds(m, at, Encode(address, id))
  PROVE  Decodes(TextAt(m, at), address, id)
<1>1. id \in Nat /\ id < WordLimit
  BY AddressFits
<1>2. PICK t \in Seq(Printable) :
        t = AddressText(address, id) /\ Encode(address, id) = Terminated(t)
  BY <1>1, EncodeIs, Zenon
<1>3. NUL \notin Printable
  BY DEF NUL, Printable
<1>4. Holds(m, at, Terminated(t))
  BY <1>2, Zenon
<1>5. TextAt(m, at) = t
  BY <1>3, <1>4, HoldsText
<1>6. Decodes(AddressText(address, id), address, id)
  BY <1>1, AddressDecodes
<1> QED BY <1>2, <1>5, <1>6, Zenon

\* The address of the key of a request.
LEMMA AddressOfKey ==
  ASSUME NEW req \in Requests
  PROVE  /\ AddressFromPubkey(PublicKey(req.path)) = OfKey(PublicKey(req.path))
         /\ OfKey(PublicKey(req.path)) \in Addresses
<1>1. PICK k \in [1..32 -> Byte] : k = Keccak(PublicKey(req.path))
  BY RequestsAssumption
<1>2. PICK s : s = SubSeq(k, 13, 32)
  OBVIOUS
<1>3. k \in Seq(Byte) /\ Len(k) = 32
  BY SeqOfFunction
<1>4. s = [i \in 1..20 |-> k[12 + i]]
  <2>1. (32 - 13) + 1 = 20 /\ \A i \in 1..20 : 13 + i - 1 = 12 + i
    OBVIOUS
  <2>2. s \in Seq(Byte) /\ Len(s) = 20 /\ \A i \in 1..20 : s[i] = k[13 + i - 1]
    <3> HIDE DEF Byte
    <3> QED BY <1>2, <1>3
  <2> QED BY <2>1, <2>2
<1>5. AddressFromPubkey(PublicKey(req.path)) = [s EXCEPT ![1] = 16 + (s[1] % 16)]
  BY <1>1, <1>2, Zenon DEF AddressFromPubkey
<1>6. [s EXCEPT ![1] = 16 + (s[1] % 16)]
        = [i \in 1..20 |-> IF i = 1 THEN 16 + (k[13] % 16) ELSE k[12 + i]]
  <2>1. s[1] = k[13]
    <3>1. 12 + 1 = 13
      OBVIOUS
    <3> QED BY <1>4, <3>1
  <2> QED BY <1>4, <2>1
<1>7. OfKey(PublicKey(req.path))
        = [i \in 1..20 |-> IF i = 1 THEN 16 + (k[13] % 16) ELSE k[12 + i]]
  BY <1>1, Zenon DEF OfKey
<1>8. AddressFromPubkey(PublicKey(req.path)) \in Addresses
  BY AddressType
<1> QED BY <1>5, <1>6, <1>7, <1>8

\* One more digit.
LEMMA DigitBound ==
  ASSUME NEW x \in Nat, NEW p \in Nat, x < p, NEW b \in 0..255
  PROVE  256 * x + b \in Nat /\ 256 * x + b < 256 * p
OBVIOUS

\* Bytes are a number of eight bits each.
LEMMA BytesBound ==
  ASSUME NEW s \in Seq(Byte)
  PROVE  Number(s, 256) \in Nat /\ Number(s, 256) < 2^(8 * Len(s))
<1> DEFINE F == CHOOSE f : Accumulates(f, s, 256, Len(s))
<1>1. Len(s) \in Nat
  OBVIOUS
<1>2. Accumulates(F, s, 256, Len(s))
  BY <1>1, AccumulatorExists, Zenon
<1>3. Number(s, 256) = F[Len(s)]
  BY NumberIs
<1> HIDE DEF F
<1> DEFINE T == { n \in Nat : n <= Len(s) => F[n] \in Nat /\ F[n] < 2^(8 * n) }
<1>4. 0 \in T
  <2>1. F[0] = 0
    <3>1. 0 \in 0..Len(s)
      BY <1>1
    <3> QED BY <1>2, <3>1 DEF Accumulates
  <2>2. 2^(8 * 0) = 1
    OBVIOUS
  <2> QED BY <2>1, <2>2
<1>5. ASSUME NEW n \in Nat, n \in T PROVE n + 1 \in T
  <2> SUFFICES ASSUME n + 1 <= Len(s) PROVE F[n + 1] \in Nat /\ F[n + 1] < 2^(8 * (n + 1))
    OBVIOUS
  <2>1. n + 1 \in 0..Len(s) /\ n + 1 # 0 /\ (n + 1) - 1 = n /\ n + 1 \in 1..Len(s) /\ n <= Len(s)
    BY <1>1
  <2>2. F[n + 1] = 256 * F[n] + s[n + 1]
    BY <1>2, <2>1 DEF Accumulates
  <2>3. PICK b \in 0..255 : b = s[n + 1]
    <3>1. s[n + 1] \in Byte
      <4> HIDE DEF Byte
      <4> QED BY <2>1, ElementType
    <3> QED BY <3>1 DEF Byte
  <2>4. PICK x \in Nat, p \in Nat : x = F[n] /\ p = 2^(8 * n) /\ x < p
    <3>1. F[n] \in Nat /\ F[n] < 2^(8 * n)
      BY <1>5, <2>1
    <3>2. 8 * n \in Nat
      OBVIOUS
    <3> QED BY <3>1, <3>2, PowerType
  <2>5. 2^(8 * (n + 1)) = 256 * p
    <3>1. PICK m \in Nat : m = 8 * n
      OBVIOUS
    <3>2. 2^(m + 8) = 2^m * 2^8
      BY PowerSum
    <3>3. 2^8 = 256 /\ m + 8 = 8 * (n + 1)
      BY <3>1
    <3>4. p * 256 = 256 * p
      OBVIOUS
    <3> QED BY <2>4, <3>1, <3>2, <3>3, <3>4
  <2>6. 256 * x + b \in Nat /\ 256 * x + b < 256 * p
    <3>1. b \in 0..255 /\ x \in Nat /\ p \in Nat /\ x < p
      BY <2>3, <2>4
    <3> QED BY <3>1, DigitBound, Zenon
  <2> QED BY <2>2, <2>3, <2>4, <2>5, <2>6
<1> HIDE DEF T
<1>6. Nat \subseteq T
  BY <1>4, <1>5, Induction
<1>7. Len(s) \in T
  BY <1>1, <1>6
<1> QED BY <1>3, <1>7 DEF T

\* The greater of two numbers.
LEMMA MaxOfTwo ==
  ASSUME NEW a \in Int, NEW b \in Int
  PROVE  Max({ a, b }) = IF a >= b THEN a ELSE b
<1> DEFINE S == { a, b }
<1>1. \E x \in S : \A y \in S : x >= y
  OBVIOUS
<1>2. Max(S) \in S /\ \A x \in S : Max(S) >= x
  <2> HIDE DEF S
  <2> QED BY <1>1, Zenon DEF Max
<1>3. PICK m : m = Max(S) /\ m \in S /\ \A x \in S : m >= x
  BY <1>2
<1>4. m = IF a >= b THEN a ELSE b
  BY <1>3
<1> QED BY <1>3, <1>4

\* A word in memory has whole bytes.
LEMMA WordBytesIs == WordBytes \in Nat /\ 8 * WordBytes = WordBits
<1>1. WordBits % 8 = 0
  BY ReportsAssumption, Zenon
<1>2. PICK n \in Nat : n = WordBits
  BY WordAssumption
<1>3. 8 * (n \div 8) = n /\ n \div 8 \in Nat
  BY ONLY <1>1, <1>2
<1> QED BY <1>2, <1>3 DEF WordBytes

\* The bytes that count: of the first eight at most, the lower half.
LowerHalf(chainid) ==
  LET low == Max({ 0, Len(chainid) - WordBytes })
  IN [i \in 1..(Len(chainid) - low) |-> chainid[low + i]]

\* A number as long as a word fits one.
LEMMA FitsWord ==
  ASSUME NEW s \in Seq(Byte), Len(s) <= WordBytes
  PROVE  Number(s, 256) \in Words
<1>1. PICK n \in Nat, w \in Nat : n = 8 * Len(s) /\ w = WordBits /\ n <= w
  <2>1. PICK l \in Nat : l = Len(s)
    OBVIOUS
  <2>2. 8 * l <= 8 * WordBytes
    BY <2>1, WordBytesIs
  <2> QED BY <2>1, <2>2, WordBytesIs, WordAssumption
<1>2. Number(s, 256) \in Nat /\ Number(s, 256) < 2^(8 * Len(s))
  BY BytesBound
<1>3. 2^n <= 2^w
  BY <1>1, PowerGrows
<1>4. PICK x \in Nat, p \in Nat, q \in Nat :
        x = Number(s, 256) /\ p = 2^n /\ q = 2^w /\ x < p /\ p <= q
  BY <1>1, <1>2, <1>3, PowerType
<1>5. x \in 0..(q - 1)
  BY <1>4
<1> QED BY <1>1, <1>4, <1>5, Zenon DEF Words

\* The network of a transaction is a word, and its lower bytes are those of the
\* chain id, if it has no more than eight.
LEMMA ChainIdIs ==
  ASSUME NEW chainid \in Seq(Byte)
  PROVE  /\ ChainIdWord(chainid) \in Words
         /\ Len(chainid) <= 2 * WordBytes => ChainIdWord(chainid) = Number(LowerHalf(chainid), 256)
<1> DEFINE a == Min({ Len(chainid), 2 * WordBytes })
           read == SubSeq(chainid, 1, a)
           high == Max({ 0, Len(read) - WordBytes })
           t == SubSeq(read, high + 1, Len(read))
<1>1. PICK w \in Nat, n \in Nat : w = WordBytes /\ n = Len(chainid)
  BY WordBytesIs
<1>2. a = IF n <= 2 * w THEN n ELSE 2 * w
  <2>1. 2 * w \in Nat
    OBVIOUS
  <2> QED BY <1>1, <2>1, MinOfTwo
<1>3. a \in 0..n
  BY <1>2
<1> HIDE DEF a
<1>4. read \in Seq(Byte) /\ Len(read) = a
  <2> HIDE DEF Byte
  <2> QED BY <1>1, <1>3
<1>5. n <= 2 * w => read = chainid
  <2> SUFFICES ASSUME n <= 2 * w PROVE read = chainid
    OBVIOUS
  <2>1. a = Len(chainid)
    BY <1>1, <1>2
  <2> HIDE DEF Byte
  <2> QED BY <2>1
<1> HIDE DEF read
<1>6. high = IF 0 >= a - w THEN 0 ELSE a - w
  <2>1. 0 \in Int /\ a - w \in Int
    BY <1>3
  <2>2. Max({ 0, a - w }) = IF 0 >= a - w THEN 0 ELSE a - w
    BY <2>1, MaxOfTwo
  <2> QED BY <1>1, <1>4, <2>2
<1>7. high \in 0..a /\ a - high <= w
  BY <1>3, <1>6
<1> HIDE DEF high
<1>8. t = [i \in 1..(a - high) |-> read[high + i]] /\ t \in Seq(Byte) /\ Len(t) = a - high
  <2>1. t \in Seq(Byte) /\ Len(t) = a - high /\ \A i \in 1..(a - high) : t[i] = read[high + i]
    <3> HIDE DEF Byte
    <3> QED BY <1>3, <1>4, <1>7
  <2> HIDE DEF t
  <2>2. t \in [1..(a - high) -> Byte]
    BY <2>1, FunctionOfSeq
  <2>3. t = [i \in 1..(a - high) |-> t[i]]
    BY <2>2
  <2> QED BY <2>1, <2>3
<1>9. ChainIdWord(chainid) = Number(t, 256)
  BY DEF ChainIdWord, high, read, a
<1> HIDE DEF t
<1>10. Number(t, 256) \in Words
  BY <1>1, <1>7, <1>8, FitsWord
<1>11. ASSUME Len(chainid) <= 2 * WordBytes PROVE LowerHalf(chainid) = t
  <2>1. a = n /\ read = chainid
    BY <1>1, <1>2, <1>5, <1>11
  <2>2. Max({ 0, Len(chainid) - WordBytes }) = high
    BY <1>4, <2>1, Zenon DEF high
  <2>3. LowerHalf(chainid) = [i \in 1..(n - high) |-> chainid[high + i]]
    BY <1>1, <2>2 DEF LowerHalf
  <2> QED BY <1>8, <2>1, <2>3
<1> QED BY <1>9, <1>10, <1>11

\* The address of the key of a request, on a network.
LEMMA KeyAddress ==
  ASSUME NEW req \in Requests, NEW id \in Words
  PROVE  /\ PathAddress(req.path, id) = Encode(OfKey(PublicKey(req.path)), id)
         /\ OfKey(PublicKey(req.path)) \in Addresses
         /\ Len(PathAddress(req.path, id)) \in Nat
         /\ Len(PathAddress(req.path, id)) <= AddressSize
<1>1. PICK a \in Addresses : a = OfKey(PublicKey(req.path)) /\ a = AddressFromPubkey(PublicKey(req.path))
  BY AddressOfKey
<1>2. PathAddress(req.path, id) = Encode(a, id)
  BY <1>1, Zenon DEF PathAddress
<1>3. Len(Encode(a, id)) \in Nat /\ Len(Encode(a, id)) <= AddressSize
  BY EncodedLength
<1> QED BY <1>1, <1>2, <1>3, Zenon

\* The network of a request for a key or for the signature of a message.
LEMMA ChainWord ==
  ASSUME NEW req \in Requests, req.ins \in { "GET_PUBLIC_KEY", "SIGN_PERSONAL" }
  PROVE  req.chain \in Words
<1>1. CASE req.ins = "GET_PUBLIC_KEY"
  BY <1>1, RequestsAssumption, Zenon DEF Words
<1>2. CASE req.ins = "SIGN_PERSONAL"
  <2>1. { req.chain, req.length } \subseteq 0..(2^WordBits - 1)
    BY <1>2, RequestsAssumption, Zenon
  <2> QED BY <2>1, Zenon DEF Words
<1> QED BY <1>1, <1>2

\* No address is refused for its length.
LEMMA NeverTooLong ==
  ASSUME NEW req \in Requests
  PROVE  Render(req).sw # "SW_CIP37_CONVERSION_FAIL"
<1>1. CASE req.ins = "GET_PUBLIC_KEY"
  <2>1. LengthFits(req.chain, AddressSize)
    BY <1>1, ChainWord, AddressFits
  <2>2. Render(req) = RenderGetPubkey(req)
    BY <1>1 DEF Render
  <2> QED BY <2>1, <2>2 DEF RenderGetPubkey
<1>2. CASE req.ins = "SIGN_TX"
  <2>1. req.chainid \in Seq(Byte)
    BY <1>2, RequestsAssumption, Zenon
  <2>2. LengthFits(ChainIdWord(req.chainid), AddressSize)
    BY <2>1, ChainIdIs, AddressFits
  <2>3. Render(req) = RenderSignTx(req)
    BY <1>2 DEF Render
  <2> QED BY <2>2, <2>3 DEF RenderSignTx
<1>3. CASE req.ins = "SIGN_PERSONAL"
  <2>1. LengthFits(req.chain, AddressSize)
    BY <1>3, ChainWord, AddressFits
  <2>2. Render(req) = RenderSignPersonal(req)
    BY <1>3 DEF Render
  <2> QED BY <2>1, <2>2 DEF RenderSignPersonal
<1> QED BY <1>1, <1>2, <1>3, RequestsAssumption

\* The review of a public key shows its address.
LEMMA PubkeyAddressStored ==
  ASSUME NEW req \in Requests, req.ins = "GET_PUBLIC_KEY", DOMAIN strings \subseteq Int,
         RenderGetPubkey(req).sw = "SW_OK"
  PROVE  Decodes(TextAt(RenderGetPubkey(req).strings, AddressAt),
                 OfKey(PublicKey(req.path)), req.chain)
<1> DEFINE path    == PathText(req.path)
           cleared == Store(strings, PathAt, Cleared(PathSize))
           shown   == Store(cleared, PathAt, path.text)
           whole   == Store(shown, AddressAt, PathAddress(req.path, req.chain))
<1>1. RenderGetPubkey(req)
        = IF ~path.ok THEN [sw |-> "SW_DISPLAY_BIP32_PATH_FAIL", strings |-> cleared]
          ELSE IF ~LengthFits(req.chain, AddressSize)
          THEN [sw |-> "SW_CIP37_CONVERSION_FAIL", strings |-> shown]
          ELSE [sw |-> "SW_OK", strings |-> whole]
  BY Zenon DEF RenderGetPubkey
<1>2. RenderGetPubkey(req).strings = whole
  <2> HIDE DEF path, cleared, shown, whole
  <2> QED BY <1>1
<1>3. DOMAIN whole \subseteq Int
  BY StoreDomain
<1> HIDE DEF shown
<1>4. AddressAt \in Int
  BY ReportsAssumption DEF AddressAt
<1>5. PICK id \in Words : id = req.chain
  BY ChainWord
<1>6. PICK a \in Addresses : a = OfKey(PublicKey(req.path)) /\ PathAddress(req.path, id) = Encode(a, id)
  BY KeyAddress
<1>7. Len(PathAddress(req.path, id)) \in Nat
  BY KeyAddress
<1>8. Holds(whole, AddressAt, Encode(a, id))
  <2>1. Holds(Store(shown, AddressAt, PathAddress(req.path, id)), AddressAt, PathAddress(req.path, id))
    BY <1>4, <1>7, StoreHolds
  <2> QED BY <1>5, <1>6, <2>1, Zenon
<1> HIDE DEF whole
<1>9. Decodes(TextAt(whole, AddressAt), a, id)
  BY <1>3, <1>4, <1>8, HoldsAddress
<1> QED BY <1>2, <1>5, <1>6, <1>9, Zenon

\* The review of a message shows the address that signs.
LEMMA SignerStored ==
  ASSUME NEW req \in Requests, req.ins = "SIGN_PERSONAL", DOMAIN strings \subseteq Int
  PROVE  Decodes(TextAt(RenderSignPersonal(req).strings, SignerAt),
                 OfKey(PublicKey(req.path)), req.chain)
<1> DEFINE signer == Store(strings, SignerAt, PathAddress(req.path, req.chain))
           hash   == HexPrefix \o FormatHex(req.hash, HashSize - 2)
           whole  == Store(signer, HashAt, hash)
<1>1. SignerAt = 0 /\ HashAt = AddressSize /\ AddressSize \in Nat /\ HashSize >= 67
  BY ReportsAssumption DEF SignerAt, HashAt
<1>2. PICK id \in Words : id = req.chain
  BY ChainWord
<1>3. RenderSignPersonal(req).strings = whole
  <2>1. LengthFits(req.chain, AddressSize)
    BY <1>2, AddressFits
  <2> HIDE DEF whole
  <2>2. RenderSignPersonal(req) = [sw |-> "SW_OK", strings |-> whole]
    BY <2>1, Zenon DEF RenderSignPersonal, whole
  <2> QED BY <2>2
<1>4. DOMAIN signer \subseteq Int /\ DOMAIN whole \subseteq Int
  BY StoreDomain
<1>5. PICK a \in Addresses : a = OfKey(PublicKey(req.path)) /\ PathAddress(req.path, id) = Encode(a, id)
  BY KeyAddress
<1>6. PICK u : u = PathAddress(req.path, id) /\ Len(u) \in Nat /\ Len(u) <= AddressSize
  BY KeyAddress
<1>7. Holds(signer, SignerAt, u)
  BY <1>1, <1>2, <1>6, StoreHolds
<1>8. Len(hash) \in Nat
  <2>1. PICK h : h = req.hash /\ h \in [1..32 -> Byte]
    BY RequestsAssumption
  <2>2. FormatHex(h, HashSize - 2) = Terminated(Hex(h))
    <3>1. Len(h) = 32
      BY <2>1
    <3> QED BY <1>1, <3>1, ReportsAssumption DEF FormatHex
  <2>3. /\ HexPrefix \o Hex(h) \in Seq(Printable)
        /\ HexPrefix \o Terminated(Hex(h)) = Terminated(HexPrefix \o Hex(h))
    BY <2>1, HashText
  <2>4. PICK t \in Seq(Printable) : t = HexPrefix \o Hex(h) /\ hash = Terminated(t)
    BY <2>1, <2>2, <2>3, Zenon
  <2>5. Len(Terminated(t)) = Len(t) + 1
    BY TerminatedType
  <2> QED BY <2>4, <2>5
<1> HIDE DEF hash, signer
<1>9. Holds(whole, SignerAt, u)
  <2>1. SignerAt \in Int /\ HashAt \in Int /\ SignerAt + Len(u) <= HashAt
    BY <1>1, <1>6
  <2> QED BY <1>6, <1>7, <1>8, <2>1, StoreKeeps
<1> HIDE DEF whole
<1>10. Decodes(TextAt(whole, SignerAt), a, id)
  <2>1. SignerAt \in Int /\ Holds(whole, SignerAt, Encode(a, id))
    BY <1>1, <1>5, <1>6, <1>9
  <2> QED BY <1>4, <2>1, HoldsAddress
<1> QED BY <1>2, <1>3, <1>5, <1>10, Zenon

\* The receiver of a transaction fits its field.
LEMMA ReceiverIs ==
  ASSUME NEW req \in Requests, req.ins = "SIGN_TX"
  PROVE  /\ Len(Receiver(req)) \in Nat /\ Len(Receiver(req)) <= AddressSize
         /\ req.destination = << >> => Receiver(req) = Terminated(NewContract)
         /\ req.destination # << >> =>
              /\ req.destination \in Addresses
              /\ Receiver(req) = Encode(req.destination, ChainIdWord(req.chainid))
<1>1. req.chainid \in Seq(Byte) /\ req.destination \in [1..20 -> Byte] \cup { << >> }
  BY RequestsAssumption, Zenon
<1>2. PICK id \in Words : id = ChainIdWord(req.chainid)
  BY <1>1, ChainIdIs
<1>3. CASE req.destination = << >>
  <2>1. Receiver(req) = Terminated(NewContract)
    BY <1>3, Zenon DEF Receiver
  <2>2. PICK t \in Seq(Printable) : t = NewContract /\ Len(t) = 12
    BY NewContractType
  <2>3. Len(Terminated(t)) = Len(t) + 1
    BY TerminatedType
  <2>4. Len(Receiver(req)) = 13 /\ AddressSize >= 20
    BY <2>1, <2>2, <2>3, ReportsAssumption
  <2>5. Len(Receiver(req)) \in Nat /\ Len(Receiver(req)) <= AddressSize
    BY <2>4, ReportsAssumption
  <2> QED BY <1>3, <2>1, <2>5
<1>4. CASE req.destination # << >>
  <2>1. PICK a \in Addresses : a = req.destination
    <3>1. req.destination \in Addresses
      BY <1>1, <1>4 DEF Addresses, Byte, Octets
    <3> QED BY <3>1
  <2>2. Receiver(req) = Encode(a, id)
    BY <1>2, <1>4, <2>1, Zenon DEF Receiver
  <2>3. Len(Encode(a, id)) \in Nat /\ Len(Encode(a, id)) <= AddressSize
    BY EncodedLength
  <2>4. Len(Receiver(req)) \in Nat /\ Len(Receiver(req)) <= AddressSize
    BY <2>2, <2>3
  <2> QED BY <1>2, <1>4, <2>1, <2>2, <2>4
<1> QED BY <1>3, <1>4

\* The two addresses of a transaction, as they are stored.
SenderReads(m, req, id) ==
  Decodes(TextAt(m, SenderAt), OfKey(PublicKey(req.path)), id)

ReceiverReads(m, req, id) ==
  IF req.destination = << >> THEN TextAt(m, ReceiverAt) = NewContract
  ELSE Decodes(TextAt(m, ReceiverAt), req.destination, id)

\* The review of a transaction shows its sender and its receiver.
LEMMA PartiesStored ==
  ASSUME NEW req \in Requests, req.ins = "SIGN_TX", DOMAIN strings \subseteq Int
  PROVE  LET m  == RenderSignTx(req).strings
             id == ChainIdWord(req.chainid)
         IN SenderReads(m, req, id) /\ ReceiverReads(m, req, id)
<1> DEFINE sender == Store(strings, SenderAt, PathAddress(req.path, ChainIdWord(req.chainid)))
           both   == Store(sender, ReceiverAt, Receiver(req))
           whole  == Store(both, Behind, Amount)
<1>1. /\ SenderAt \in Int /\ ReceiverAt \in Int /\ Behind \in Int
      /\ \A n \in Nat : n <= AddressSize => SenderAt + n <= ReceiverAt /\ SenderAt + n <= Behind
                                            /\ ReceiverAt + n <= Behind
  BY ReportsAssumption DEF SenderAt, ReceiverAt, Behind
<1>2. PICK id \in Words : id = ChainIdWord(req.chainid)
  <2>1. req.chainid \in Seq(Byte)
    BY RequestsAssumption, Zenon
  <2> QED BY <2>1, ChainIdIs
<1>3. RenderSignTx(req).strings = whole
  <2>1. LengthFits(ChainIdWord(req.chainid), AddressSize)
    BY <1>2, AddressFits
  <2>2. RenderSignTx(req) = [sw |-> "SW_OK", strings |-> whole]
    BY <2>1, Zenon DEF RenderSignTx, sender, both, whole
  <2> HIDE DEF whole
  <2> QED BY <2>2
<1>4. DOMAIN whole \subseteq Int
  <2>1. DOMAIN sender \subseteq Int
    BY StoreDomain
  <2> HIDE DEF sender
  <2>2. DOMAIN both \subseteq Int
    BY <2>1, StoreDomain
  <2> HIDE DEF both
  <2> QED BY <2>2, StoreDomain
<1>5. PICK u : u = PathAddress(req.path, id) /\ Len(u) \in Nat /\ Len(u) <= AddressSize
  BY KeyAddress
<1>6. PICK v : v = Receiver(req) /\ Len(v) \in Nat /\ Len(v) <= AddressSize
  BY ReceiverIs
<1>7. PICK w : w = Amount /\ Len(w) \in Nat
  BY AmountType
<1>8. Holds(sender, SenderAt, u)
  BY <1>1, <1>2, <1>5, StoreHolds
<1> HIDE DEF sender
<1>9. Holds(both, SenderAt, u)
  BY <1>1, <1>5, <1>6, <1>8, StoreKeeps
<1>10. Holds(both, ReceiverAt, v)
  BY <1>1, <1>6, StoreHolds
<1> HIDE DEF both
<1>11. Holds(whole, SenderAt, u)
  BY <1>1, <1>5, <1>7, <1>9, StoreKeeps
<1>12. Holds(whole, ReceiverAt, v)
  BY <1>1, <1>6, <1>7, <1>10, StoreKeeps
<1> HIDE DEF whole
<1>13. SenderReads(whole, req, id)
  <2>1. PICK a \in Addresses : a = OfKey(PublicKey(req.path)) /\ u = Encode(a, id)
    BY <1>5, KeyAddress
  <2>2. Holds(whole, SenderAt, Encode(a, id))
    BY <1>11, <2>1
  <2>3. Decodes(TextAt(whole, SenderAt), a, id)
    BY <1>1, <1>4, <2>2, HoldsAddress
  <2> QED BY <2>1, <2>3, Zenon DEF SenderReads
<1>14. ReceiverReads(whole, req, id)
  <2>1. CASE req.destination = << >>
    <3>1. PICK t \in Seq(Printable) : t = NewContract
      BY NewContractType
    <3>2. Holds(whole, ReceiverAt, Terminated(t)) /\ NUL \notin Printable
      BY <1>6, <1>12, <2>1, <3>1, ReceiverIs, TextCharacters, Zenon
    <3>3. TextAt(whole, ReceiverAt) = t
      BY <1>1, <1>4, <3>2, HoldsText
    <3> QED BY <2>1, <3>1, <3>3, Zenon DEF ReceiverReads
  <2>2. CASE req.destination # << >>
    <3>1. PICK a \in Addresses : a = req.destination /\ v = Encode(a, id)
      BY <1>2, <1>6, <2>2, ReceiverIs
    <3>2. Holds(whole, ReceiverAt, Encode(a, id))
      BY <1>12, <3>1
    <3>3. Decodes(TextAt(whole, ReceiverAt), a, id)
      BY <1>1, <1>4, <3>2, HoldsAddress
    <3> QED BY <2>2, <3>1, <3>3, Zenon DEF ReceiverReads
  <2> QED BY <2>1, <2>2
<1> QED BY <1>2, <1>3, <1>13, <1>14, Zenon

\* The reply with a public key: its length, its mark, the key and the chain code.
TellsKey(data, req) ==
  /\ data[1] = 65 /\ data[2] = 4
  /\ SubSeq(data, 3, 66) = PublicKey(req.path) /\ Len(PublicKey(req.path)) = 64
  /\ SubSeq(data, 67, Len(data))
       = IF req.chaincode THEN << 32 >> \o ChainCode(req.path) ELSE << >>
  /\ Len(ChainCode(req.path)) = 32

\* This is what helper_send_response_pubkey makes of a request.
LEMMA PubkeyLayout ==
  ASSUME NEW req \in Requests, NEW data, data = ResponsePubkey(req)
  PROVE  TellsKey(data, req)
<1>1. PICK k, c : k = PublicKey(req.path) /\ c = ChainCode(req.path)
  OBVIOUS
<1>2. k \in [1..64 -> Byte] /\ c \in [1..32 -> Byte]
  BY <1>1, RequestsAssumption
<1>3. k \in Seq(Byte) /\ Len(k) = 64 /\ c \in Seq(Byte) /\ Len(c) = 32
  <2>1. 64 \in Nat /\ 32 \in Nat
    OBVIOUS
  <2> QED BY <1>2, <2>1, SeqOfFunction, Zenon
<1>4. PICK a, b : a = << 65, 4 >> /\ b = << 32 >>
  OBVIOUS
<1>5. /\ a \in Seq(Byte) /\ Len(a) = 2 /\ a[1] = 65 /\ a[2] = 4
      /\ b \in Seq(Byte) /\ Len(b) = 1 /\ << >> \in Seq(Byte) /\ Len(<< >>) = 0
  BY <1>4 DEF Byte
<1>6. b \o c \in Seq(Byte)
  BY <1>3, <1>5, ConcatType, Zenon
<1>7. PICK d : d = IF req.chaincode THEN b \o c ELSE << >>
  OBVIOUS
<1>8. d \in Seq(Byte) /\ Len(d) \in Nat
  <2>1. d \in Seq(Byte)
    BY <1>5, <1>6, <1>7, Zenon
  <2> QED BY <2>1
<1>9. data = (a \o k) \o d
  BY <1>1, <1>4, <1>7, Zenon DEF ResponsePubkey
<1>10. PICK ak : ak = a \o k
  OBVIOUS
<1>11. ak \in Seq(Byte) /\ Joins(ak, a, k)
  BY <1>3, <1>5, <1>10, Concatenated, Zenon
<1>12. data \in Seq(Byte) /\ Joins(data, ak, d)
  BY <1>8, <1>9, <1>10, <1>11, Concatenated, Zenon
<1>13. /\ Len(ak) = 66 /\ ak[1] = 65 /\ ak[2] = 4 /\ \A i \in 1..64 : ak[2 + i] = k[i]
  BY <1>3, <1>5, <1>11 DEF Joins
<1>14. /\ Len(data) = 66 + Len(d) /\ \A i \in 1..66 : data[i] = ak[i]
       /\ \A i \in 1..Len(d) : data[66 + i] = d[i]
  BY <1>12, <1>13 DEF Joins
<1>15. data[1] = 65 /\ data[2] = 4
  BY <1>13, <1>14
<1>16. SubSeq(data, 3, 66) = k
  <2>1. PICK s : s = SubSeq(data, 3, 66)
    OBVIOUS
  <2>2. s \in Seq(Byte) /\ Len(s) = 64 /\ \A i \in 1..64 : s[i] = data[2 + i]
    <3>1. PICK n \in Nat : n = Len(data) /\ 66 <= n
      BY <1>8, <1>14
    <3> HIDE DEF Byte
    <3> QED BY <1>12, <2>1, <3>1
  <2>3. ASSUME NEW i \in 1..64 PROVE s[i] = k[i]
    <3>1. 2 + i \in 1..66
      OBVIOUS
    <3>2. s[i] = data[2 + i]
      BY <2>2
    <3>3. data[2 + i] = ak[2 + i]
      BY <1>14, <3>1
    <3> QED BY <1>13, <3>2, <3>3
  <2>4. s \in [1..64 -> Byte]
    BY <2>2, FunctionOfSeq
  <2> QED BY <1>2, <2>1, <2>3, <2>4
<1>17. SubSeq(data, 67, Len(data)) = d
  <2>1. PICK n \in Nat : n = Len(d) /\ Len(data) = 66 + n
    BY <1>8, <1>14
  <2>2. PICK s : s = SubSeq(data, 67, 66 + n)
    OBVIOUS
  <2>3. s \in Seq(Byte) /\ Len(s) = n /\ \A i \in 1..n : s[i] = data[66 + i]
    <3> HIDE DEF Byte
    <3> QED BY <1>12, <2>1, <2>2
  <2>4. \A i \in 1..n : s[i] = d[i]
    BY <1>14, <2>1, <2>3
  <2>5. s \in [1..n -> Byte] /\ d \in [1..n -> Byte]
    BY <1>8, <2>1, <2>3, FunctionOfSeq
  <2> QED BY <2>1, <2>2, <2>4, <2>5
<1> QED BY <1>1, <1>3, <1>4, <1>7, <1>15, <1>16, <1>17, Zenon DEF TellsKey

\* What a wallet reads of the addresses of a request in a memory.
AddressesRead(req, m) ==
  /\ req.ins = "GET_PUBLIC_KEY" =>
       Decodes(TextAt(m, AddressAt), OfKey(PublicKey(req.path)), req.chain)
  /\ req.ins = "SIGN_PERSONAL" =>
       Decodes(TextAt(m, SignerAt), OfKey(PublicKey(req.path)), req.chain)
  /\ req.ins = "SIGN_TX" /\ Len(req.chainid) <= 2 * WordBytes =>
       LET id == Number(LowerHalf(req.chainid), 256)
       IN SenderReads(m, req, id) /\ ReceiverReads(m, req, id)

\* A request that is reviewed is one of a host, its addresses stay on the screen
\* until it is answered, and a reply with a public key goes with the address that
\* was shown.
PubkeyTold(r, m) ==
  r # None /\ r.sw = "SW_OK" /\ r.to.ins = "GET_PUBLIC_KEY" =>
    /\ r.to \in Requests /\ r.data = ResponsePubkey(r.to)
    /\ r.to.display => AddressesRead(r.to, m)

AddressInv ==
  /\ DOMAIN strings \subseteq Int
  /\ pc = "review" => request \in Requests /\ AddressesRead(request, strings)
  /\ reply # None => reply.sw # "SW_CIP37_CONVERSION_FAIL"
  /\ PubkeyTold(reply, strings)

\* A review that comes to the screen shows the addresses of its request.
LEMMA AddressesStored ==
  ASSUME NEW req \in Requests, DOMAIN strings \subseteq Int, Render(req).sw = "SW_OK"
  PROVE  AddressesRead(req, Render(req).strings)
<1>1. CASE req.ins = "GET_PUBLIC_KEY"
  <2>1. Render(req) = RenderGetPubkey(req)
    BY <1>1 DEF Render
  <2>2. Decodes(TextAt(RenderGetPubkey(req).strings, AddressAt), OfKey(PublicKey(req.path)), req.chain)
    BY <1>1, <2>1, PubkeyAddressStored
  <2> QED BY <1>1, <2>1, <2>2 DEF AddressesRead
<1>2. CASE req.ins = "SIGN_PERSONAL"
  <2>1. Render(req) = RenderSignPersonal(req)
    BY <1>2 DEF Render
  <2>2. Decodes(TextAt(RenderSignPersonal(req).strings, SignerAt), OfKey(PublicKey(req.path)), req.chain)
    BY <1>2, SignerStored
  <2> QED BY <1>2, <2>1, <2>2 DEF AddressesRead
<1>3. CASE req.ins = "SIGN_TX"
  <2>1. Render(req) = RenderSignTx(req)
    BY <1>3 DEF Render
  <2>2. SUFFICES ASSUME Len(req.chainid) <= 2 * WordBytes
                 PROVE  LET id == Number(LowerHalf(req.chainid), 256)
                        IN SenderReads(Render(req).strings, req, id)
                           /\ ReceiverReads(Render(req).strings, req, id)
    BY <1>3 DEF AddressesRead
  <2>3. req.chainid \in Seq(Byte)
    BY <1>3, RequestsAssumption, Zenon
  <2>4. ChainIdWord(req.chainid) = Number(LowerHalf(req.chainid), 256)
    BY <2>2, <2>3, ChainIdIs
  <2>5. /\ SenderReads(RenderSignTx(req).strings, req, ChainIdWord(req.chainid))
        /\ ReceiverReads(RenderSignTx(req).strings, req, ChainIdWord(req.chainid))
    BY <1>3, PartiesStored, Zenon
  <2> QED BY <2>1, <2>4, <2>5, Zenon
<1> QED BY <1>1, <1>2, <1>3, RequestsAssumption

\* A reply tells the key, and with the address on the screen if one was shown.
LEMMA PubkeyReads ==
  ASSUME PubkeyTold(reply, strings)
  PROVE  PubkeyReplied
<1> SUFFICES ASSUME Replied("GET_PUBLIC_KEY")
             PROVE  LET key  == SubSeq(reply.data, 3, 66)
                        rest == SubSeq(reply.data, 67, Len(reply.data))
                    IN /\ reply.data[1] = 1 + Len(key) /\ reply.data[2] = 4
                       /\ key = PublicKey(reply.to.path)
                       /\ rest = IF reply.to.chaincode
                                 THEN << Len(ChainCode(reply.to.path)) >> \o ChainCode(reply.to.path)
                                 ELSE << >>
                       /\ reply.to.display =>
                            Decodes(TextAt(strings, AddressAt), OfKey(key), reply.to.chain)
  BY DEF PubkeyReplied
<1>1. PICK req \in Requests :
        /\ req = reply.to /\ reply.data = ResponsePubkey(req)
        /\ req.ins = "GET_PUBLIC_KEY"
        /\ req.display => AddressesRead(req, strings)
  BY DEF Replied, PubkeyTold
<1>2. PICK data, key, rest, code :
        /\ data = reply.data /\ code = ChainCode(req.path)
        /\ key = SubSeq(data, 3, 66) /\ rest = SubSeq(data, 67, Len(data))
  OBVIOUS
<1>3. /\ data[1] = 65 /\ data[2] = 4
      /\ key = PublicKey(req.path) /\ Len(PublicKey(req.path)) = 64
      /\ rest = IF req.chaincode THEN << 32 >> \o code ELSE << >>
      /\ Len(code) = 32
  <2>1. TellsKey(data, req)
    BY <1>1, <1>2, PubkeyLayout
  <2> QED BY <1>2, <2>1, Zenon DEF TellsKey
<1>4. data[1] = 1 + Len(key) /\ data[2] = 4
  BY <1>3
<1>5. rest = IF req.chaincode THEN << Len(code) >> \o code ELSE << >>
  BY <1>3, Zenon
<1>6. req.display => Decodes(TextAt(strings, AddressAt), OfKey(key), req.chain)
  BY <1>1, <1>3, Zenon DEF AddressesRead
<1> QED BY <1>1, <1>2, <1>3, <1>4, <1>5, <1>6, Zenon

\* It is enough.
LEMMA AddressInvShows == AddressInv => AddressesExact
<1> SUFFICES ASSUME AddressInv PROVE AddressesExact
  OBVIOUS
<1>1. PubkeyReplied
  BY PubkeyReads DEF AddressInv
<1>2. AddressesShown
  <2>1. pc = "review" => AddressesRead(request, strings)
    BY DEF AddressInv
  <2>2. Reviewing("GET_PUBLIC_KEY") =>
          Decodes(TextAt(strings, AddressAt), OfKey(PublicKey(request.path)), request.chain)
    BY <2>1 DEF AddressesRead, Reviewing
  <2>3. Reviewing("SIGN_PERSONAL") =>
          Decodes(TextAt(strings, SignerAt), OfKey(PublicKey(request.path)), request.chain)
    BY <2>1 DEF AddressesRead, Reviewing
  <2>4. Reviewing("SIGN_TX") /\ Len(request.chainid) <= 2 * WordBytes =>
          LET id == Number(LowerHalf(request.chainid), 256)
          IN SenderReads(strings, request, id) /\ ReceiverReads(strings, request, id)
    BY <2>1, Zenon DEF AddressesRead, Reviewing
  <2>5. reply # None => reply.sw # "SW_CIP37_CONVERSION_FAIL"
    BY DEF AddressInv
  <2> QED BY <2>2, <2>3, <2>4, <2>5, Zenon
          DEF AddressesShown, LowerHalf, SenderReads, ReceiverReads
<1> QED BY <1>1, <1>2 DEF AddressesExact

\* A wallet reads each address on the screen as the one that was meant, on the
\* network that was meant, none is refused for its length, and the reply with a
\* public key tells that key: AddressesExact holds in every state.
THEOREM AddressesExactAlways == Spec => []AddressesExact
<1>1. Init => AddressInv
  <2> SUFFICES ASSUME Init PROVE AddressInv
    OBVIOUS
  <2>1. DOMAIN strings \subseteq Int
    BY DEF Init, Strings
  <2> QED BY <2>1 DEF Init, AddressInv, PubkeyTold
<1>2. AddressInv /\ [Next]_vars => AddressInv'
  <2> SUFFICES ASSUME AddressInv, [Next]_vars PROVE AddressInv'
    OBVIOUS
  <2> DEFINE TooLong == "SW_CIP37_CONVERSION_FAIL"
  <2>1. ASSUME NEW req, NEW sw, NEW data, Answer(req, sw, data), sw # TooLong,
               sw = "SW_OK" => req.ins # "GET_PUBLIC_KEY"
        PROVE  reply'.sw # TooLong /\ PubkeyTold(reply', strings')
    BY <2>1 DEF Answer, PubkeyTold
  <2>2. ASSUME NEW req \in Requests, NEW data, Answer(req, "SW_OK", data),
               data = ResponsePubkey(req),
               req.display => AddressesRead(req, strings')
        PROVE  reply'.sw # TooLong /\ PubkeyTold(reply', strings')
    BY <2>2 DEF Answer, PubkeyTold
  <2>3. ASSUME NEW req \in Requests, ReplyAtOnce(req) PROVE AddressInv'
    <3>1. reply'.sw # TooLong /\ PubkeyTold(reply', strings')
      BY <2>2, <2>3 DEF ReplyAtOnce, NotShown
    <3> QED BY <2>3, <3>1 DEF ReplyAtOnce, AddressInv
  <2>4. ASSUME NEW req \in Requests, Review(req) PROVE AddressInv'
    <3>1. /\ Render(req).sw = "SW_OK" /\ strings' = Render(req).strings /\ request' = req
          /\ reply' = None
      BY <2>4 DEF Review
    <3>2. DOMAIN strings' \subseteq Int
      BY <3>1, RenderDomain DEF AddressInv
    <3>3. AddressesRead(req, strings')
      BY <3>1, AddressesStored DEF AddressInv
    <3> QED BY <3>1, <3>2, <3>3 DEF AddressInv, PubkeyTold
  <2>5. ASSUME NEW req \in Requests, RenderFails(req) PROVE AddressInv'
    <3>1. strings' = Render(req).strings /\ pc' = "menu" /\ Render(req).sw # "SW_OK"
          /\ Answer(req, Render(req).sw, << >>)
      BY <2>5 DEF RenderFails, ResetContext
    <3>2. DOMAIN strings' \subseteq Int
      BY <3>1, RenderDomain DEF AddressInv
    <3>3. reply'.sw # TooLong /\ PubkeyTold(reply', strings')
      BY <2>1, <3>1, NeverTooLong
    <3> QED BY <3>1, <3>2, <3>3 DEF AddressInv
  <2>6. CASE ApprovePubkey
    <3>1. request \in Requests /\ AddressesRead(request, strings') /\ strings' = strings
      BY <2>6 DEF ApprovePubkey, AddressInv
    <3>2. reply'.sw # TooLong /\ PubkeyTold(reply', strings')
      BY <2>2, <2>6, <3>1 DEF ApprovePubkey
    <3> QED BY <2>6, <3>1, <3>2 DEF ApprovePubkey, ResetContext, AddressInv
  <2>7. CASE ApproveSigning
    <3>1. reply'.sw # TooLong /\ PubkeyTold(reply', strings')
      BY <2>1, <2>7 DEF ApproveSigning
    <3> QED BY <2>7, <3>1 DEF ApproveSigning, ResetContext, AddressInv
  <2>8. CASE SigningFails
    <3>1. reply'.sw # TooLong /\ PubkeyTold(reply', strings')
      BY <2>1, <2>8 DEF SigningFails
    <3> QED BY <2>8, <3>1 DEF SigningFails, ResetContext, AddressInv
  <2>9. CASE Reject
    <3>1. reply'.sw # TooLong /\ PubkeyTold(reply', strings')
      BY <2>1, <2>9 DEF Reject
    <3> QED BY <2>9, <3>1 DEF Reject, ResetContext, AddressInv
  <2>10. CASE UNCHANGED vars
    BY <2>10 DEF vars, AddressInv
  <2> QED BY <2>3, <2>4, <2>5, <2>6, <2>7, <2>8, <2>9, <2>10 DEF Next
<1>3. AddressInv => AddressesExact
  BY AddressInvShows
<1> QED BY <1>1, <1>2, <1>3, PTL DEF Spec
============================================================================
