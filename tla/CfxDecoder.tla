----------------------------- MODULE CfxDecoder -----------------------------
(***************************************************************************)
(* What a wallet makes of a CIP-37 text, written from the format and not   *)
(* from cfxaddr_encode: the parts before and behind the colon, the network *)
(* of the first, the bits of the second, and the checksum as a remainder   *)
(* over GF(32).                                                            *)
(***************************************************************************)
EXTENDS CfxAddress, SequencesExt

\* The parts of a text between separators.
Parts(text, separator) ==
  LET from[i \in 1..(Len(text) + 1)] ==
        LET stop == Min({ j \in i..Len(text) : text[j] = separator } \cup { Len(text) + 1 })
        IN << SubSeq(text, i, stop - 1) >>
             \o (IF stop > Len(text) THEN << >> ELSE from[stop + 1])
  IN from[1]

-----------------------------------------------------------------------------
\* GF(32), modulo x^5 + x^3 + 1.
Double(a) == IF a < 16 THEN 2 * a ELSE XorDigit[2 * a - 32][9]

Product ==
  [a \in 0..31 |-> [b \in 0..31 |->
     LET sum[k \in 0..5] ==
           IF k = 5 THEN 0
           ELSE XorDigit[Double(sum[k + 1])][IF (b \div 2^k) % 2 = 1 THEN a ELSE 0]
     IN sum[0]]]

Generator == << 19, 3, 25, 11, 25, 3, 19, 1 >>   \* and x^8

Times(a, s) == [i \in DOMAIN s |-> Product[s[i]][a]]

\* The remainder of the division of a polynomial by the generator.
Remainder(coefficients) ==
  LET rem[n \in 0..Len(coefficients)] ==
        IF n = 0 THEN << 0, 0, 0, 0, 0, 0, 0, 0 >>
        ELSE LET r == rem[n - 1]
             IN XorDigits(Append(Tail(r), coefficients[n]), Times(Head(r), Generator))
  IN rem[Len(coefficients)]

\* The characters are five bits each: a version byte 0, the address, and two
\* zeros.
Bit(digits, i) == (digits[(i - 1) \div 5 + 1] \div 2^(4 - ((i - 1) % 5))) % 2

ByteOf(digits, k) == Number([i \in 1..8 |-> Bit(digits, 8 * (k - 1) + i)], 2)

NamesNetwork(prefix, id) ==
  \/ id = 1029 /\ prefix = << 99, 102, 120 >>
  \/ id = 1 /\ prefix = << 99, 102, 120, 116, 101, 115, 116 >>
  \/ /\ id \notin { 1, 1029 }
     /\ SubSeq(prefix, 1, 3) = << 110, 101, 116 >>
     /\ LET number == SubSeq(prefix, 4, Len(prefix))
        IN IsNumeral(number) /\ ReadNumber(number) = id

\* The two parts of a valid text.
Reads(prefix, body, address, id) ==
  LET digits == [i \in DOMAIN body |->
                   (CHOOSE d \in DOMAIN CHARSET : CHARSET[d] = body[i]) - 1]
      code   == << 1 >> \o [i \in DOMAIN prefix |-> prefix[i] % 32] \o << 0 >> \o digits
  IN /\ Len(body) = 42
     /\ \A i \in DOMAIN body : Contains(CHARSET, body[i])
     /\ NamesNetwork(prefix, id)
     /\ ByteOf(digits, 1) = 0
     /\ \A k \in 1..20 : ByteOf(digits, k + 1) = address[k]
     /\ Bit(digits, 169) = 0 /\ Bit(digits, 170) = 0
     /\ Remainder(code) = << 0, 0, 0, 0, 0, 0, 0, 1 >>

\* A valid CIP-37 text of an address on a network.
Decodes(text, address, id) ==
  LET parts == Parts(text, 58)
  IN Len(parts) = 2 /\ Reads(parts[1], parts[2], address, id)
=============================================================================
