----------------------------- MODULE CfxAddress -----------------------------
(***************************************************************************)
(* cfxaddr_encode (src/libcfxaddr/cfxaddr.c): 20 bytes of an address and   *)
(* the id of a network as a CIP-37 text.  The checksum, 40 bits of a word, *)
(* is a sequence of eight digits of five bits, upper digit first.  A       *)
(* network id is a word of WordBits bits, 32 in the code.                  *)
(***************************************************************************)
EXTENDS Texts

CONSTANT WordBits

CFXADDR_MAINNET_ID == 1029
CFXADDR_TESTNET_ID == 1

ASSUME WordAssumption == WordBits \in Nat /\ 2^WordBits > CFXADDR_MAINNET_ID

XorDigit ==
  LET bit(n, i) == (n \div 2^(5 - i)) % 2
  IN [a \in 0..31 |-> [b \in 0..31 |->
        Number([i \in 1..5 |-> (bit(a, i) + bit(b, i)) % 2], 2)]]

XorDigits(s, t) == [i \in DOMAIN s |-> XorDigit[s[i]][t[i]]]

Zeros == << 0, 0, 0, 0, 0, 0, 0, 0 >>
One   == << 0, 0, 0, 0, 0, 0, 0, 1 >>

\* 0x98f2bc8e61 and its fellows
Generators ==
  << << 19,  3, 25, 11, 25,  3, 19,  1 >>,
     << 15,  6, 27, 22, 27,  6, 15,  2 >>,
     << 30, 12, 31,  5, 31, 12, 30,  4 >>,
     << 21, 24, 23, 10, 23, 24, 21,  8 >>,
     <<  3, 25,  7, 20,  7, 25,  3, 16 >> >>

\* What the digit c0 that is shifted out brings back.
Feedback ==
  [c0 \in 0..31 |->
     LET mixed[k \in 0..5] ==
           IF k = 0 THEN Zeros
           ELSE IF (c0 \div 2^(k - 1)) % 2 = 1 THEN XorDigits(mixed[k - 1], Generators[k])
           ELSE mixed[k - 1]
     IN mixed[5]]

Polymod(data) ==
  LET c[n \in 0..Len(data)] ==
        IF n = 0 THEN One
        ELSE LET old == c[n - 1]
             IN XorDigits(Append(Tail(old), data[n]), Feedback[Head(old)])
  IN XorDigits(c[Len(data)], One)

-----------------------------------------------------------------------------
\* A seeded fault: a power of ten gets a digit too few.
ScaleStrict(id) ==
  LET pow10[p \in 1..2^WordBits] ==
        LET next == (p * 10) % 2^WordBits
        IN IF next < id /\ next \div 10 = p THEN pow10[next] ELSE p
  IN pow10[1]

\* The power of ten of the first digit; the products may wrap around.
Scale(id) ==
  LET pow10[p \in 1..2^WordBits] ==
        LET next == (p * 10) % 2^WordBits
        IN IF next <= id /\ next \div 10 = p THEN pow10[next] ELSE p
  IN pow10[1]

NetworkDigits(id) ==
  LET from[pow10 \in 0..2^WordBits] ==
        IF pow10 = 0 THEN << >>
        ELSE << ZERO + ((id \div pow10) % 10) >> \o from[pow10 \div 10]
  IN from[Scale(id)]

\* "cfx:", "cfxtest:", "net" and the id and ":"
Prefix(id) ==
  CASE id = CFXADDR_MAINNET_ID -> << 99, 102, 120, 58 >>
    [] id = CFXADDR_TESTNET_ID -> << 99, 102, 120, 116, 101, 115, 116, 58 >>
    [] OTHER -> << 110, 101, 116 >> \o NetworkDigits(id) \o << 58 >>

\* out_len against prefix, payload, checksum and terminator
LengthFits(id, outLen) == outLen >= Len(Prefix(id)) + 34 + 8 + 1

ExtendedPrefix(prefix) ==
  [i \in 1..Len(prefix) |-> IF i < Len(prefix) THEN prefix[i] % 32 ELSE 0]

\* Version byte and bytes in groups of five bits: after each byte num bits of
\* acc are left.  The last group is filled up with zeros.
Payload(bytes) ==
  LET after[n \in 0..Len(bytes)] ==
        IF n = 0 THEN [acc |-> 0, num |-> 8, out |-> << >>]
        ELSE LET s   == after[n - 1]
                 acc == (s.acc * 256 + bytes[n]) % 2^16
                 num == s.num + 8
             IN [ acc |-> acc % 2^(num % 5),
                  num |-> num % 5,
                  out |-> s.out \o [i \in 1..(num \div 5) |->
                                      (acc \div 2^(num - 5 * i)) % 32] ]
      last == after[Len(bytes)]
  IN Append(last.out, last.acc * 2^(5 - last.num))

\* "abcdefghjkmnprstuvwxyz0123456789"
CHARSET ==
  << 97, 98, 99, 100, 101, 102, 103, 104, 106, 107, 109, 110, 112, 114, 115, 116,
     117, 118, 119, 120, 121, 122, 48, 49, 50, 51, 52, 53, 54, 55, 56, 57 >>

Chars(digits) == [i \in DOMAIN digits |-> CHARSET[digits[i] + 1]]

\* cfxaddr_encode, if LengthFits
Encode(address, id) ==
  LET payload  == Payload(address)
      checksum == Polymod(ExtendedPrefix(Prefix(id)) \o payload \o Zeros)
  IN Terminated(Prefix(id) \o Chars(payload) \o Chars(checksum))
============================================================================
